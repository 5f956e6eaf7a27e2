----------------------------- MODULE Fleet_proof -----------------------------
(***************************************************************************)
(* Proofs about the fleet host: its logging jobs, for any jobs, sensors and *)
(* sessions, and its inventory, for any devices, addresses and threads.    *)
(***************************************************************************)
EXTENDS FleetJobs, FleetInventory, Subsequences_proof

-----------------------------------------------------------------------------
(* The logging jobs.                                                       *)

Session == [at : Sensors \cup {Local, None}, job : Jobs \cup {None}, active : BOOLEAN]

JobTypes ==
  /\ jobs \in [DOMAIN jobs -> Job] /\ DOMAIN jobs \subseteq Jobs
  /\ stored \in [DOMAIN stored -> Job] /\ DOMAIN stored \subseteq Jobs
  /\ running \in DOMAIN jobs \cup {None} /\ active \in Ids \cup {0} /\ logging \in BOOLEAN
  /\ sessions \in [Ids -> Session]
  /\ unreliable \in BOOLEAN /\ losses \in 0 .. MaxLosses

\* What the thread is doing; between two clicks the jobs are as they were saved.
TaskTypes ==
  \/ task = NoTask /\ jobs = stored
  \/ task \in [op : {"start"}, job : DOMAIN jobs, todo : SUBSET Sensors, any : BOOLEAN]
  \/ task \in [op : {"stop", "delete"}, job : DOMAIN jobs, todo : SUBSET Ids, any : BOOLEAN]

\* What a list of jobs refers to are sessions of the job on sensors.
Held(list, table) ==
  \A j \in DOMAIN list : \A x \in list[j].refs : table[x].at \in Sensors /\ table[x].job = j

\* The job has a session in the table.
Started(j, table) == \E x \in Ids : table[x].job = j

\* A job that runs, or has started anything, has left a session in the tables.
StartedInv ==
  /\ \A x \in Ids : sessions[x].job \in Jobs => sessions[x].at # None
  /\ running # None => Started(running, sessions)
  /\ task.op = "start" /\ task.any => Started(task.job, sessions)
  /\ task.op = "start" /\ ~task.any => jobs[task.job].refs = {}

LocalInv == SessionIsShown /\ NoOrphanLocal

\* A session on a sensor that runs belongs to a job that is shown as running,
\* unless it is the one being started; the one being stopped still has it to do.
KnownRemote(x) ==
  LET j == sessions[x].job
  IN  /\ j \in DOMAIN jobs /\ x \in jobs[j].refs
      /\ j # task.job => jobs[j].status = "Running"
      /\ j = task.job /\ task.op \in {"stop", "delete"} => x \in task.todo

RunsRemote(x) == sessions[x].at \in Sensors /\ sessions[x].active

RemoteInv == ~unreliable /\ OneJobOnly => \A x \in Ids : RunsRemote(x) => KnownRemote(x)

JobsIInv ==
  /\ JobTypes /\ TaskTypes /\ Held(jobs, sessions) /\ Held(stored, sessions)
  /\ StartedInv /\ LocalInv /\ RemoteInv

LEMMA JobsInitial == JobsInit => JobsIInv
<1> SUFFICES ASSUME JobsInit PROVE JobsIInv
  OBVIOUS
<1>1. DOMAIN jobs = {} /\ DOMAIN stored = {} /\ jobs = stored /\ task = NoTask
  BY DEF JobsInit, NoJobs
<1>2. JobTypes
  <2>1. jobs \in [{} -> Job] /\ stored \in [{} -> Job]
    BY DEF JobsInit, NoJobs
  <2>2. logging \in BOOLEAN /\ unreliable \in BOOLEAN
    BY Zenon DEF JobsInit
  <2>3. sessions \in [Ids -> Session]
    BY DEF JobsInit, Session
  <2>4. jobs \in [DOMAIN jobs -> Job] /\ stored \in [DOMAIN stored -> Job]
    BY <1>1, <2>1
  <2>5. running = None /\ active = 0 /\ losses = 0 /\ 0 \in 0 .. MaxLosses
    BY JobsAssumption DEF JobsInit
  <2>6. QED
    BY <1>1, <2>2, <2>3, <2>4, <2>5 DEF JobTypes
<1>3. \A x \in Ids : sessions[x].at = None /\ sessions[x].job = None /\ ~sessions[x].active
  BY DEF JobsInit
<1>4. StartedInv
  BY <1>1, <1>3, JobsAssumption DEF StartedInv, NoTask, JobsInit
<1>5. LocalInv
  BY <1>3 DEF JobsInit, LocalInv, SessionIsShown, NoOrphanLocal
<1>6. RemoteInv
  BY <1>3 DEF RemoteInv, RunsRemote
<1>7. QED
  BY <1>1, <1>2, <1>4, <1>5, <1>6 DEF JobsIInv, TaskTypes, Held

-----------------------------------------------------------------------------
(* What a request leaves of the tables of sessions.                        *)

\* Nothing new is in the table.
Same(t) ==
  /\ t \in [Ids -> Session]
  /\ \A x \in Ids : /\ t[x].at = sessions[x].at /\ t[x].job = sessions[x].job
                    /\ t[x].active => sessions[x].active

LEMMA StoppedFacts ==
  ASSUME JobTypes, NEW t, NEW x, t = Stopped(sessions, x)
  PROVE  Same(t) /\ \A y \in Ids : y = x => ~t[y].active
<1>1. ASSUME NEW y \in Ids
      PROVE  /\ t[y] \in Session /\ t[y].at = sessions[y].at /\ t[y].job = sessions[y].job
             /\ t[y].active => sessions[y].active
             /\ y = x => ~t[y].active
  <2>1. PICK s \in Session : s = sessions[y]
    BY DEF JobTypes
  <2>2. PICK e \in BOOLEAN : e = (s.active /\ y # x)
    OBVIOUS
  <2>3. t[y] = [s EXCEPT !.active = e]
    BY <2>1, <2>2 DEF Stopped
  <2>4. QED
    BY <2>1, <2>2, <2>3 DEF Session
<1>2. t \in [Ids -> Session]
  BY <1>1 DEF Stopped
<1>3. QED
  BY <1>1, <1>2 DEF Same

LEMMA StopsFacts ==
  ASSUME JobTypes, NEW x, NEW t \in Stops(x)
  PROVE  Same(t) /\ (~unreliable => \A y \in Ids : y = x => ~t[y].active)
<1>1. CASE t = Stopped(sessions, x)
  BY <1>1, StoppedFacts
<1>2. CASE unreliable /\ t = sessions
  BY <1>2 DEF Same, JobTypes
<1>3. QED
  BY <1>1, <1>2 DEF Stops

\* A session was started, or refused; its answer may be lost.
Follows(base, t, place, job, answer) ==
  \/ t = base /\ answer = 0
  \/ \E x \in Ids : /\ sessions[x].at = None
                    /\ t = [base EXCEPT ![x] = [at |-> place, job |-> job, active |-> TRUE]]
                    /\ answer = x \/ (answer = 0 /\ unreliable)

LEMMA StartsFacts ==
  ASSUME NEW base, NEW place, NEW job, NEW result \in Starts(base, place, job)
  PROVE  Follows(base, result[1], place, job, result[2])
<1>1. CASE result = <<base, 0>>
  BY <1>1 DEF Follows
<1>2. CASE \E x \in Fresh : \E answer \in {x} \cup IF unreliable THEN {0} ELSE {} :
             result = <<[base EXCEPT ![x] = [at |-> place, job |-> job, active |-> TRUE]], answer>>
  <2>1. PICK x \in Fresh : \E answer \in {x} \cup IF unreliable THEN {0} ELSE {} :
             result = <<[base EXCEPT ![x] = [at |-> place, job |-> job, active |-> TRUE]], answer>>
    BY <1>2
  <2>2. PICK answer \in {x} \cup IF unreliable THEN {0} ELSE {} :
             result = <<[base EXCEPT ![x] = [at |-> place, job |-> job, active |-> TRUE]], answer>>
    BY <2>1
  <2>3. x \in Ids /\ sessions[x].at = None /\ (answer = x \/ (answer = 0 /\ unreliable))
    BY <2>1, <2>2 DEF Fresh
  <2>4. result[1] = [base EXCEPT ![x] = [at |-> place, job |-> job, active |-> TRUE]] /\ result[2] = answer
    BY <2>2
  <2>5. QED
    BY <2>3, <2>4 DEF Follows
<1>3. QED
  BY <1>1, <1>2 DEF Starts

\* Sessions stay where and whose they are.
Evolve ==
  /\ sessions' \in [Ids -> Session]
  /\ \A x \in Ids :
       /\ sessions[x].at # None => /\ sessions'[x].at = sessions[x].at
                                   /\ sessions'[x].job = sessions[x].job
       /\ sessions'[x].job \in Jobs => sessions'[x].at # None

NoNewRemote == \A x \in Ids : RunsRemote(x)' => RunsRemote(x)

LEMMA SameEvolves ==
  ASSUME StartedInv, Same(sessions') PROVE Evolve /\ NoNewRemote
BY DEF StartedInv, Same, Evolve, NoNewRemote, RunsRemote

LEMMA StartEvolves ==
  ASSUME StartedInv, NEW base, Same(base), NEW place \in Sensors \cup {Local}, NEW job \in Jobs \cup {None},
         NEW answer, Follows(base, sessions', place, job, answer)
  PROVE  /\ Evolve
         /\ answer \in Ids \cup {0} /\ (answer # 0 => Started(job, sessions'))
         /\ place = Local => NoNewRemote
<1>1. place # None /\ (place = Local => place \notin Sensors) /\ 0 \notin Ids
  BY JobsAssumption DEF Ids
<1>2. CASE sessions' = base /\ answer = 0
  <2>1. Evolve /\ NoNewRemote
    BY <1>2, SameEvolves
  <2>2. QED
    BY <1>2, <2>1
<1>3. CASE \E x \in Ids : /\ sessions[x].at = None
                          /\ sessions' = [base EXCEPT ![x] = [at |-> place, job |-> job, active |-> TRUE]]
                          /\ answer = x \/ (answer = 0 /\ unreliable)
  <2>1. PICK x \in Ids : /\ sessions[x].at = None
                         /\ sessions' = [base EXCEPT ![x] = [at |-> place, job |-> job, active |-> TRUE]]
                         /\ answer = x \/ (answer = 0 /\ unreliable)
    BY <1>3
  <2>2. PICK new : new = [at |-> place, job |-> job, active |-> TRUE]
    OBVIOUS
  <2>3. new \in Session /\ new.at = place /\ new.job = job
    BY <2>2 DEF Session
  <2>4. base \in [Ids -> Session]
    BY DEF Same
  <2>5. sessions' \in [Ids -> Session] /\ sessions'[x] = new /\ \A y \in Ids \ {x} : sessions'[y] = base[y]
    BY <2>1, <2>2, <2>3, <2>4
  <2>6. Evolve
    BY <1>1, <2>1, <2>3, <2>5 DEF Evolve, Same, StartedInv
  <2>7. place = Local => NoNewRemote
    BY <1>1, <2>3, <2>5 DEF NoNewRemote, RunsRemote, Same
  <2>8. answer \in Ids \cup {0} /\ (answer # 0 => Started(job, sessions'))
    BY <2>1, <2>3, <2>5 DEF Started
  <2>9. QED
    BY <2>6, <2>7, <2>8
<1>4. QED
  BY <1>2, <1>3 DEF Follows

LEMMA EvolveFacts ==
  ASSUME JobTypes, StartedInv, Evolve
  PROVE  /\ Held(jobs, sessions) => Held(jobs, sessions')
         /\ Held(stored, sessions) => Held(stored, sessions')
         /\ \A j \in Jobs : Started(j, sessions) => Started(j, sessions')
         /\ OneJobOnly' => OneJobOnly
<1>1. /\ \A j \in DOMAIN jobs : jobs[j].refs \subseteq Ids
      /\ \A j \in DOMAIN stored : stored[j].refs \subseteq Ids
  BY DEF JobTypes, Job
<1>2. None \notin Sensors /\ None \notin Jobs
  BY JobsAssumption
<1>3. Held(jobs, sessions) => Held(jobs, sessions')
  BY <1>1, <1>2 DEF Held, Evolve
<1>4. Held(stored, sessions) => Held(stored, sessions')
  BY <1>1, <1>2 DEF Held, Evolve
<1>5. \A j \in Jobs : Started(j, sessions) => Started(j, sessions')
  BY DEF Started, Evolve, StartedInv
<1>6. \A x \in Ids : sessions[x].job \in Jobs => sessions'[x].job = sessions[x].job
  BY DEF Evolve, StartedInv
<1>7. ASSUME OneJobOnly', NEW x \in Ids, NEW y \in Ids, {sessions[x].job, sessions[y].job} \subseteq Jobs
      PROVE  sessions[x].job = sessions[y].job
  <2>1. sessions'[x].job = sessions[x].job /\ sessions'[y].job = sessions[y].job
    BY <1>6, <1>7
  <2>2. QED
    BY <1>7, <2>1 DEF OneJobOnly
<1>8. OneJobOnly' => OneJobOnly
  BY <1>7 DEF OneJobOnly
<1>9. QED
  BY <1>3, <1>4, <1>5, <1>8

-----------------------------------------------------------------------------
(* The one local session of the window.                                    *)

LocalStep ==
  /\ Evolve /\ NoNewRemote
  /\ active' \in Ids \cup {0} /\ logging' \in BOOLEAN /\ LocalInv'

LEMMA StopLocal ==
  ASSUME JobTypes, StartedInv, LocalInv, unreliable' = unreliable,
         StopMetricLoggingSession, logging' \in {logging, FALSE}
  PROVE  LocalStep
<1>1. Same(sessions') /\ (~unreliable => \A y \in Ids : y = active => ~sessions'[y].active)
  BY StopsFacts DEF StopMetricLoggingSession
<1>2. Evolve /\ NoNewRemote
  BY <1>1, SameEvolves
<1>3. active' = 0 /\ SessionIsShown'
  BY DEF StopMetricLoggingSession, SessionIsShown
<1>4. NoOrphanLocal'
  BY <1>1 DEF Same, LocalInv, NoOrphanLocal
<1>5. logging' \in BOOLEAN
  BY DEF JobTypes
<1>6. QED
  BY <1>2, <1>3, <1>4, <1>5 DEF LocalStep, LocalInv

\* A start when no session of the local service is left but one that is lost.
LEMMA StartLocal ==
  ASSUME JobTypes, StartedInv, unreliable' = unreliable,
         NEW base, Same(base), NEW j \in Jobs \cup {None},
         ~unreliable => \A x \in Ids : base[x].at = Local => ~base[x].active,
         NEW answer, Follows(base, sessions', Local, j, answer),
         active' = answer, logging' \in BOOLEAN, answer # 0 => logging'
  PROVE  LocalStep /\ (answer # 0 => Started(j, sessions'))
<1>1. /\ Evolve /\ NoNewRemote /\ answer \in Ids \cup {0}
      /\ answer # 0 => Started(j, sessions')
  BY StartEvolves
<1>2. SessionIsShown'
  BY DEF SessionIsShown
<1>3. ASSUME ~unreliable, NEW x \in Ids, sessions'[x].at = Local, sessions'[x].active
      PROVE  x = answer
  <2>1. CASE sessions' = base
    BY <1>3, <2>1
  <2>2. CASE \E z \in Ids : /\ sessions' = [base EXCEPT ![z] = [at |-> Local, job |-> j, active |-> TRUE]]
                            /\ answer = z
    BY <1>3, <2>2 DEF Same
  <2>3. QED
    BY <1>3, <2>1, <2>2 DEF Follows
<1>4. NoOrphanLocal'
  BY <1>3 DEF NoOrphanLocal
<1>5. QED
  BY <1>1, <1>2, <1>4 DEF LocalStep, LocalInv

LEMMA StartLocalJobFacts ==
  ASSUME JobTypes, StartedInv, LocalInv, unreliable' = unreliable,
         NEW j \in Jobs, StartLocalJob(j)
  PROVE  LocalStep /\ (active' # 0 => Started(j, sessions'))
<1>1. PICK base \in Stops(active) : \E result \in Starts(base, Local, j) :
        /\ sessions' = result[1] /\ active' = result[2]
        /\ logging' = (logging \/ active' # 0)
  BY DEF StartLocalJob
<1>2. PICK result \in Starts(base, Local, j) :
        /\ sessions' = result[1] /\ active' = result[2]
        /\ logging' = (logging \/ active' # 0)
  BY <1>1
<1>3. Same(base) /\ (~unreliable => \A y \in Ids : y = active => ~base[y].active)
  BY StopsFacts
<1>4. ~unreliable => \A x \in Ids : base[x].at = Local => ~base[x].active
  BY <1>3 DEF Same, LocalInv, NoOrphanLocal
<1>5. PICK answer : answer = result[2]
  OBVIOUS
<1>6. Follows(base, sessions', Local, j, answer)
  BY <1>2, <1>5, StartsFacts
<1>7. logging' \in BOOLEAN
  BY <1>2, Zenon
<1>8. answer # 0 => logging'
  BY <1>2, <1>5, Zenon
<1>9. active' = answer
  BY <1>2, <1>5
<1>10. j \in Jobs \cup {None}
  OBVIOUS
<1>11. LocalStep /\ (answer # 0 => Started(j, sessions'))
  BY <1>3, <1>4, <1>6, <1>7, <1>8, <1>9, <1>10, StartLocal
<1>12. QED
  BY <1>9, <1>11

LEMMA ToggleFacts ==
  ASSUME JobTypes, StartedInv, LocalInv, ToggleLogging
  PROVE  LocalStep
<1>1. unreliable' = unreliable
  BY DEF ToggleLogging
<1>2. CASE logging
  <2>1. StopMetricLoggingSession /\ logging' \in {logging, FALSE}
    BY <1>2 DEF ToggleLogging, StopLocalJob
  <2>2. QED
    BY <1>1, <2>1, StopLocal
<1>3. CASE ~logging
  <2>1. PICK result \in Starts(sessions, Local, None) :
          /\ sessions' = result[1]
          /\ logging' = (result[2] # 0)
          /\ active' = IF result[2] = 0 THEN active ELSE result[2]
    BY <1>3 DEF ToggleLogging
  <2>2. active = 0
    BY <1>3 DEF LocalInv, SessionIsShown
  <2>3. PICK answer : answer = result[2]
    OBVIOUS
  <2>4. Follows(sessions, sessions', Local, None, answer)
    BY <2>1, <2>3, StartsFacts
  <2>5. logging' \in BOOLEAN
    BY <2>1, Zenon
  <2>6. answer # 0 => logging'
    BY <2>1, <2>3, Zenon
  <2>7. active' = answer
    BY <2>1, <2>2, <2>3
  <2>8. PICK base : base = sessions
    OBVIOUS
  <2>9. /\ Same(base) /\ Follows(base, sessions', Local, None, answer)
        /\ ~unreliable => \A x \in Ids : base[x].at = Local => ~base[x].active
    BY <2>2, <2>4, <2>8 DEF Same, JobTypes, LocalInv, NoOrphanLocal, Ids
  <2>10. QED
    BY <1>1, <2>5, <2>6, <2>7, <2>9, StartLocal
<1>4. QED
  BY <1>2, <1>3

\* The toggle leaves jobs and tasks alone.
LEMMA LocalFrame ==
  ASSUME JobsIInv, LocalStep, UNCHANGED <<jobs, stored, task, unreliable>>,
         running' \in {running, None}, losses' \in 0 .. MaxLosses
  PROVE  JobsIInv'
<1>1. /\ JobTypes /\ TaskTypes /\ Held(jobs, sessions) /\ Held(stored, sessions)
      /\ StartedInv /\ LocalInv /\ RemoteInv
  BY DEF JobsIInv
<1>2. /\ Evolve /\ NoNewRemote /\ active' \in Ids \cup {0} /\ logging' \in BOOLEAN /\ LocalInv'
  BY DEF LocalStep
<1>3. /\ Held(jobs, sessions') /\ Held(stored, sessions') /\ (OneJobOnly' => OneJobOnly)
      /\ \A j \in Jobs : Started(j, sessions) => Started(j, sessions')
  BY <1>1, <1>2, EvolveFacts
<1>4. JobTypes'
  BY <1>1, <1>2 DEF JobTypes, Evolve
<1>5. TaskTypes'
  BY <1>1 DEF TaskTypes
<1>6. StartedInv'
  <2>1. running' # None => Started(running', sessions')
    BY <1>1, <1>3 DEF StartedInv, JobTypes
  <2>2. task.op = "start" => task.job \in Jobs
    BY <1>1 DEF TaskTypes, NoTask, JobTypes
  <2>3. QED
    BY <1>1, <1>2, <1>3, <2>1, <2>2 DEF StartedInv, Evolve
<1>7. RemoteInv'
  <2>1. ASSUME NEW x \in Ids, RunsRemote(x), KnownRemote(x) PROVE KnownRemote(x)'
    <3>1. sessions'[x].job = sessions[x].job
      BY <1>2, <2>1, JobsAssumption DEF Evolve, RunsRemote
    <3>2. QED
      BY <2>1, <3>1 DEF KnownRemote
  <2>2. QED
    BY <1>1, <1>2, <1>3, <2>1 DEF RemoteInv, NoNewRemote
<1>8. QED
  BY <1>2, <1>3, <1>4, <1>5, <1>6, <1>7 DEF JobsIInv

\* Nothing happens to the local session.
LEMMA LocalStays ==
  ASSUME JobTypes, StartedInv, LocalInv, Same(sessions'), UNCHANGED <<active, logging, unreliable>>
  PROVE  LocalStep
<1>1. Evolve /\ NoNewRemote
  BY SameEvolves
<1>2. LocalInv'
  BY DEF LocalInv, SessionIsShown, NoOrphanLocal, Same
<1>3. QED
  BY <1>1, <1>2 DEF LocalStep, JobTypes

-----------------------------------------------------------------------------
(* The rest of the window.                                                 *)

LEMMA WindowSteps ==
  ASSUME JobsIInv,
         ToggleLogging \/ Recreate \/ Reopen \/ GuiCrash \/ BecomeUnreliable \/ \E x \in Ids : End(x)
  PROVE  JobsIInv'
<1>1. /\ JobTypes /\ TaskTypes /\ Held(jobs, sessions) /\ Held(stored, sessions)
      /\ StartedInv /\ LocalInv /\ RemoteInv
  BY DEF JobsIInv
<1>2. Same(sessions) /\ losses \in 0 .. MaxLosses
  BY <1>1 DEF Same, JobTypes
<1>3. Loss => losses' \in 0 .. MaxLosses
  BY <1>2, JobsAssumption DEF Loss
<1>4. task = NoTask => jobs = stored
  BY <1>1 DEF TaskTypes, NoTask
<1>5. CASE ToggleLogging
  <2>1. LocalStep
    BY <1>1, <1>5, ToggleFacts
  <2>2. UNCHANGED <<jobs, stored, task, unreliable, running, losses>>
    BY <1>5 DEF ToggleLogging
  <2>3. QED
    BY <1>2, <2>1, <2>2, LocalFrame
<1>6. CASE Recreate
  <2>1. /\ UNCHANGED <<active, logging, stored, task, sessions, unreliable, jobs>>
        /\ running' = None /\ losses' \in 0 .. MaxLosses
    BY <1>3, <1>4, <1>6 DEF Recreate
  <2>2. LocalStep
    BY <1>1, <1>2, <2>1, LocalStays
  <2>3. QED
    BY <2>1, <2>2, LocalFrame
<1>7. CASE Reopen
  <2>1. /\ UNCHANGED <<logging, stored, task, unreliable, jobs>> /\ StopMetricLoggingSession
        /\ running' = None /\ losses' \in 0 .. MaxLosses
    BY <1>3, <1>4, <1>7 DEF Reopen
  <2>2. LocalStep
    BY <1>1, <2>1, StopLocal
  <2>3. QED
    BY <2>1, <2>2, LocalFrame
<1>8. CASE \E x \in Ids : End(x)
  <2>1. PICK x \in Ids : End(x)
    BY <1>8
  <2>2. Same(sessions') /\ UNCHANGED <<jobs, running, active, logging, stored, task, unreliable, losses>>
    BY <1>1, <2>1, StoppedFacts DEF End
  <2>3. LocalStep
    BY <1>1, <2>2, LocalStays
  <2>4. QED
    BY <1>2, <2>2, <2>3, LocalFrame
<1>9. CASE BecomeUnreliable
  <2>1. unreliable' = TRUE /\ UNCHANGED <<jobs, running, active, logging, stored, task, sessions, losses>>
    BY <1>9 DEF BecomeUnreliable
  <2>2. JobTypes'
    <3>1. unreliable' \in BOOLEAN
      BY <2>1, Zenon
    <3>2. QED
      BY <1>1, <2>1, <3>1 DEF JobTypes
  <2>3. TaskTypes' /\ StartedInv' /\ Held(jobs, sessions)' /\ Held(stored, sessions)'
    BY <1>1, <2>1 DEF TaskTypes, StartedInv, Held, Started
  <2>4. LocalInv' /\ RemoteInv'
    BY <1>1, <2>1 DEF LocalInv, SessionIsShown, NoOrphanLocal, RemoteInv
  <2>5. QED
    BY <2>2, <2>3, <2>4 DEF JobsIInv
<1>10. CASE GuiCrash
  <2>1. /\ unreliable /\ losses' \in 0 .. MaxLosses /\ active' = 0 /\ running' = None
        /\ task' = NoTask /\ jobs' = stored' /\ stored' \in {stored, NoJobs}
        /\ UNCHANGED <<logging, sessions, unreliable>>
    BY <1>3, <1>10 DEF GuiCrash
  <2>2. /\ stored' \in [DOMAIN stored' -> Job] /\ DOMAIN stored' \subseteq Jobs
        /\ Held(stored', sessions)
    BY <1>1, <2>1 DEF JobTypes, NoJobs, Held
  <2>3. JobTypes'
    BY <1>1, <2>1, <2>2 DEF JobTypes
  <2>4. TaskTypes'
    BY <2>1 DEF TaskTypes
  <2>5. Held(jobs, sessions)' /\ Held(stored, sessions)'
    BY <2>1, <2>2
  <2>6. StartedInv'
    BY <1>1, <2>1 DEF StartedInv, NoTask
  <2>7. LocalInv' /\ RemoteInv'
    BY <1>1, <2>1 DEF LocalInv, SessionIsShown, NoOrphanLocal, RemoteInv
  <2>8. QED
    BY <2>3, <2>4, <2>5, <2>6, <2>7 DEF JobsIInv
<1>11. QED
  BY <1>5, <1>6, <1>7, <1>8, <1>9, <1>10

-----------------------------------------------------------------------------
(* Clicks on the Fleet page.                                               *)

LEMMA CreateKeeps ==
  ASSUME JobsIInv, NEW j \in Jobs, NEW remote \in BOOLEAN, CreateDraftJob(j, remote)
  PROVE  JobsIInv'
<1>1. /\ JobTypes /\ TaskTypes /\ Held(jobs, sessions) /\ Held(stored, sessions)
      /\ StartedInv /\ LocalInv /\ RemoteInv
  BY DEF JobsIInv
<1>2. PICK new : new = [status |-> IF remote THEN "Queued" ELSE "Ready",
                        remote |-> remote, refs |-> {}]
  OBVIOUS
<1>3. new \in Job /\ new.refs = {}
  BY <1>2 DEF Job
<1>4. /\ task = NoTask /\ j \notin DOMAIN jobs
      /\ jobs' = [k \in DOMAIN jobs \cup {j} |-> IF k = j THEN new ELSE jobs[k]]
      /\ stored' = jobs'
      /\ UNCHANGED <<running, active, logging, task, sessions, unreliable, losses>>
  BY <1>2 DEF CreateDraftJob
<1>5. /\ DOMAIN jobs' = DOMAIN jobs \cup {j} /\ jobs'[j] = new
      /\ \A k \in DOMAIN jobs : jobs'[k] = jobs[k]
  BY <1>4
<1>6. jobs' \in [DOMAIN jobs' -> Job] /\ DOMAIN jobs' \subseteq Jobs
  BY <1>1, <1>3, <1>4, <1>5 DEF JobTypes
<1>7. JobTypes'
  BY <1>1, <1>4, <1>5, <1>6 DEF JobTypes
<1>8. TaskTypes'
  BY <1>4 DEF TaskTypes
<1>9. Held(jobs, sessions)' /\ Held(stored, sessions)'
  BY <1>1, <1>3, <1>4, <1>5 DEF Held
<1>10. StartedInv' /\ LocalInv'
  BY <1>1, <1>4 DEF StartedInv, Started, LocalInv, SessionIsShown, NoOrphanLocal, NoTask
<1>11. RemoteInv'
  <2>1. ASSUME NEW x \in Ids, KnownRemote(x) PROVE KnownRemote(x)'
    BY <1>4, <1>5, <2>1 DEF KnownRemote
  <2>2. QED
    BY <1>1, <1>4, <2>1 DEF RemoteInv, OneJobOnly, RunsRemote
<1>12. QED
  BY <1>7, <1>8, <1>9, <1>10, <1>11 DEF JobsIInv

LEMMA StartJobKeeps ==
  ASSUME JobsIInv, NEW j \in DOMAIN jobs, StartJob(j)
  PROVE  JobsIInv'
<1>1. /\ JobTypes /\ TaskTypes /\ Held(jobs, sessions) /\ Held(stored, sessions)
      /\ StartedInv /\ LocalInv /\ RemoteInv
  BY DEF JobsIInv
<1>2. /\ task = NoTask /\ jobs[j].status # "Running"
      /\ jobs' = [jobs EXCEPT ![j].refs = {}] /\ StartLocalJob(j)
      /\ UNCHANGED <<running, stored, unreliable, losses>>
  BY DEF StartJob
<1>3. PICK todo \in SUBSET Sensors : todo = IF jobs[j].remote THEN Sensors ELSE {}
  OBVIOUS
<1>3a. PICK any \in BOOLEAN : any = (active' # 0)
  OBVIOUS
<1>4. task' = [op |-> "start", job |-> j, any |-> any, todo |-> todo]
  BY <1>3, <1>3a DEF StartJob
<1>5. j \in Jobs /\ jobs[j] \in Job
  BY <1>1 DEF JobTypes
<1>6. LocalStep /\ (active' # 0 => Started(j, sessions'))
  BY <1>1, <1>2, <1>5, StartLocalJobFacts
<1>7. /\ Evolve /\ NoNewRemote /\ active' \in Ids \cup {0} /\ logging' \in BOOLEAN /\ LocalInv'
  BY <1>6 DEF LocalStep
<1>8. /\ Held(jobs, sessions') /\ Held(stored, sessions') /\ (OneJobOnly' => OneJobOnly)
      /\ \A k \in Jobs : Started(k, sessions) => Started(k, sessions')
  BY <1>1, <1>7, EvolveFacts
<1>9. PICK new : new = [jobs[j] EXCEPT !.refs = {}]
  OBVIOUS
<1>10. new \in Job /\ new.refs = {}
  BY <1>5, <1>9 DEF Job
<1>11. jobs' = [jobs EXCEPT ![j] = new]
  BY <1>2, <1>9
<1>12. /\ DOMAIN jobs' = DOMAIN jobs /\ jobs' \in [DOMAIN jobs -> Job] /\ jobs'[j] = new
       /\ \A k \in DOMAIN jobs \ {j} : jobs'[k] = jobs[k]
  BY <1>1, <1>10, <1>11 DEF JobTypes
<1>13. JobTypes'
  BY <1>1, <1>2, <1>7, <1>12 DEF JobTypes, Evolve
<1>14. TaskTypes'
  BY <1>3, <1>4, <1>12 DEF TaskTypes
<1>15. Held(jobs, sessions)' /\ Held(stored, sessions)'
  BY <1>2, <1>8, <1>10, <1>12 DEF Held
<1>16. StartedInv'
  <2>1. running' # None => Started(running', sessions')
    BY <1>1, <1>2, <1>8 DEF StartedInv, JobTypes
  <2>2. any => Started(j, sessions')
    BY <1>6, <1>3a
  <2>3. QED
    BY <1>4, <1>7, <1>10, <1>12, <2>1, <2>2 DEF StartedInv, Evolve
<1>17. RemoteInv'
  <2>1. ASSUME NEW x \in Ids, RunsRemote(x), KnownRemote(x) PROVE KnownRemote(x)'
    <3>1. sessions'[x].job = sessions[x].job
      BY <1>7, <2>1, JobsAssumption DEF Evolve, RunsRemote
    <3>2. sessions[x].job \in DOMAIN jobs /\ sessions[x].job # task.job
      BY <1>1, <1>2, <2>1, JobsAssumption DEF KnownRemote, NoTask, JobTypes
    <3>3. sessions[x].job # j
      BY <1>2, <2>1, <3>2 DEF KnownRemote
    <3>4. QED
      BY <1>4, <1>12, <2>1, <3>1, <3>2, <3>3 DEF KnownRemote
  <2>2. QED
    BY <1>1, <1>2, <1>7, <1>8, <2>1 DEF RemoteInv, NoNewRemote
<1>18. QED
  BY <1>7, <1>13, <1>14, <1>15, <1>16, <1>17 DEF JobsIInv

\* Pause and Delete: the local session first.
LEMMA StopJobKeeps ==
  ASSUME JobsIInv, NEW j \in DOMAIN jobs, StopJob(j) \/ DeleteJob(j)
  PROVE  JobsIInv'
<1>1. /\ JobTypes /\ TaskTypes /\ Held(jobs, sessions) /\ Held(stored, sessions)
      /\ StartedInv /\ LocalInv /\ RemoteInv
  BY DEF JobsIInv
<1>2. PICK op \in {"stop", "delete"} :
        /\ task = NoTask /\ task' = [op |-> op, job |-> j, todo |-> jobs[j].refs, any |-> FALSE]
        /\ StopLocalJob \/ UNCHANGED <<sessions, active, logging>>
        /\ UNCHANGED <<jobs, running, stored, unreliable, losses>>
  BY DEF StopJob, DeleteJob
<1>3. LocalStep
  <2>1. CASE StopLocalJob
    BY <1>1, <1>2, <2>1, StopLocal DEF StopLocalJob
  <2>2. CASE UNCHANGED <<sessions, active, logging>>
    <3>1. Same(sessions')
      BY <1>1, <2>2 DEF Same, JobTypes
    <3>2. QED
      BY <1>1, <1>2, <2>2, <3>1, LocalStays
  <2>3. QED
    BY <1>2, <2>1, <2>2
<1>4. /\ Evolve /\ NoNewRemote /\ active' \in Ids \cup {0} /\ logging' \in BOOLEAN /\ LocalInv'
  BY <1>3 DEF LocalStep
<1>5. /\ Held(jobs, sessions') /\ Held(stored, sessions') /\ (OneJobOnly' => OneJobOnly)
      /\ \A k \in Jobs : Started(k, sessions) => Started(k, sessions')
  BY <1>1, <1>4, EvolveFacts
<1>6. JobTypes'
  BY <1>1, <1>2, <1>4 DEF JobTypes, Evolve
<1>7. TaskTypes'
  <2>1. jobs[j].refs \in SUBSET Ids /\ FALSE \in BOOLEAN
    BY <1>1 DEF JobTypes, Job
  <2>2. PICK f \in BOOLEAN : f = FALSE
    OBVIOUS
  <2>3. task' = [op |-> op, job |-> j, todo |-> jobs[j].refs, any |-> f] /\ jobs' = jobs
    BY <1>2, <2>2
  <2>4. QED
    BY <2>1, <2>3 DEF TaskTypes
<1>8. Held(jobs, sessions)' /\ Held(stored, sessions)'
  BY <1>2, <1>5
<1>9. StartedInv'
  <2>1. running' # None => Started(running', sessions')
    BY <1>1, <1>2, <1>5 DEF StartedInv, JobTypes
  <2>2. task'.op # "start"
    BY <1>2
  <2>3. QED
    BY <1>4, <2>1, <2>2 DEF StartedInv, Evolve
<1>10. RemoteInv'
  <2>1. ASSUME NEW x \in Ids, RunsRemote(x), KnownRemote(x) PROVE KnownRemote(x)'
    <3>1. sessions'[x].job = sessions[x].job
      BY <1>4, <2>1, JobsAssumption DEF Evolve, RunsRemote
    <3>2. sessions[x].job \in DOMAIN jobs /\ sessions[x].job # task.job
      BY <1>1, <1>2, <2>1, JobsAssumption DEF KnownRemote, NoTask, JobTypes
    <3>3. QED
      BY <1>2, <2>1, <3>1, <3>2 DEF KnownRemote
  <2>2. QED
    BY <1>1, <1>2, <1>4, <1>5, <2>1 DEF RemoteInv, NoNewRemote
<1>11. QED
  BY <1>4, <1>6, <1>7, <1>8, <1>9, <1>10 DEF JobsIInv

-----------------------------------------------------------------------------
(* The requests of a task, and its end.                                    *)

LEMMA StartRemoteKeeps ==
  ASSUME JobsIInv, NEW s \in Sensors, StartRemoteLabSession(s)
  PROVE  JobsIInv'
<1>1. /\ JobTypes /\ TaskTypes /\ Held(jobs, sessions) /\ Held(stored, sessions)
      /\ StartedInv /\ LocalInv /\ RemoteInv
  BY DEF JobsIInv
<1>2. PICK j, todo, any : j = task.job /\ todo = task.todo \ {s} /\ any = task.any
  OBVIOUS
<1>3. /\ task.op = "start" /\ j \in DOMAIN jobs /\ j \in Jobs /\ todo \in SUBSET Sensors
      /\ any \in BOOLEAN
      /\ task = [op |-> "start", job |-> j, todo |-> task.todo, any |-> any]
  BY <1>1, <1>2 DEF StartRemoteLabSession, TaskTypes, NoTask, JobTypes
<1>4. PICK result \in Starts(sessions, s, j) :
        /\ sessions' = result[1]
        /\ jobs' = [jobs EXCEPT ![j].refs = @ \cup ({result[2]} \ {0})]
        /\ task' = [task EXCEPT !.todo = @ \ {s}, !.any = @ \/ result[2] # 0]
  BY <1>2 DEF StartRemoteLabSession
<1>5. UNCHANGED <<running, active, logging, stored, unreliable, losses>>
  BY DEF StartRemoteLabSession
<1>6. PICK answer : answer = result[2]
  OBVIOUS
<1>7. PICK base : base = sessions
  OBVIOUS
<1>8. Follows(base, sessions', s, j, answer) /\ Same(base)
  BY <1>1, <1>4, <1>6, <1>7, StartsFacts DEF Same, JobTypes
<1>9. /\ Evolve /\ answer \in Ids \cup {0} /\ (answer # 0 => Started(j, sessions'))
  BY <1>1, <1>3, <1>8, StartEvolves
<1>10. /\ Held(jobs, sessions') /\ Held(stored, sessions') /\ (OneJobOnly' => OneJobOnly)
       /\ \A k \in Jobs : Started(k, sessions) => Started(k, sessions')
  BY <1>1, <1>9, EvolveFacts
<1>11. PICK new : new = [jobs[j] EXCEPT !.refs = @ \cup ({answer} \ {0})]
  OBVIOUS
<1>12. new \in Job /\ new.status = jobs[j].status /\ new.refs = jobs[j].refs \cup ({answer} \ {0})
  BY <1>1, <1>3, <1>9, <1>11 DEF JobTypes, Job
<1>13. /\ DOMAIN jobs' = DOMAIN jobs /\ jobs' \in [DOMAIN jobs -> Job] /\ jobs'[j] = new
       /\ \A k \in DOMAIN jobs \ {j} : jobs'[k] = jobs[k]
  BY <1>1, <1>3, <1>4, <1>6, <1>11, <1>12 DEF JobTypes
<1>14. PICK some \in BOOLEAN : some = (any \/ answer # 0)
  OBVIOUS
<1>15. task' = [op |-> "start", job |-> j, todo |-> todo, any |-> some]
  <2>1. task' = [task EXCEPT !.todo = todo, !.any = some]
    BY <1>2, <1>4, <1>6, <1>14
  <2>2. PICK t : t = task.todo
    OBVIOUS
  <2>3. task = [op |-> "start", job |-> j, todo |-> t, any |-> any]
    BY <1>3, <2>2
  <2>4. QED
    BY <2>1, <2>3
<1>16. JobTypes'
  BY <1>1, <1>5, <1>9, <1>13 DEF JobTypes, Evolve
<1>17. TaskTypes'
  BY <1>3, <1>13, <1>14, <1>15 DEF TaskTypes
<1>18. \/ sessions' = sessions /\ answer = 0
       \/ \E x \in Ids : /\ sessions'[x] = [at |-> s, job |-> j, active |-> TRUE]
                         /\ \A y \in Ids \ {x} : sessions'[y] = sessions[y]
                         /\ answer = x \/ (answer = 0 /\ unreliable)
  BY <1>1, <1>7, <1>8 DEF Follows, JobTypes
<1>19. Held(jobs, sessions)' /\ Held(stored, sessions)'
  <2>1. answer # 0 => sessions'[answer].at = s /\ sessions'[answer].job = j
    BY <1>18 DEF Ids
  <2>2. ASSUME NEW k \in DOMAIN jobs', NEW x \in jobs'[k].refs
        PROVE  sessions'[x].at \in Sensors /\ sessions'[x].job = k
    BY <1>10, <1>12, <1>13, <2>1, <2>2 DEF Held
  <2>3. QED
    BY <1>5, <1>10, <2>2 DEF Held
<1>20. StartedInv'
  <2>1. running' # None => Started(running', sessions')
    BY <1>1, <1>5, <1>10 DEF StartedInv, JobTypes
  <2>2. some => Started(j, sessions')
    BY <1>1, <1>2, <1>3, <1>9, <1>10, <1>14 DEF StartedInv
  <2>3. ~some => jobs'[j].refs = {}
    BY <1>1, <1>2, <1>3, <1>12, <1>13, <1>14 DEF StartedInv
  <2>4. QED
    BY <1>9, <1>15, <2>1, <2>2, <2>3 DEF StartedInv, Evolve
<1>21. LocalInv'
  BY <1>1, <1>5, <1>18, JobsAssumption DEF LocalInv, SessionIsShown, NoOrphanLocal
<1>22. RemoteInv'
  <2>1. ASSUME ~unreliable', OneJobOnly', NEW x \in Ids, RunsRemote(x)' PROVE KnownRemote(x)'
    <3>1. CASE sessions'[x] = sessions[x]
      <4>1. KnownRemote(x)
        BY <1>1, <1>5, <1>10, <2>1, <3>1 DEF RemoteInv, RunsRemote
      <4>2. QED
        BY <1>2, <1>3, <1>12, <1>13, <1>15, <3>1, <4>1 DEF KnownRemote
    <3>2. CASE answer = x /\ sessions'[x].job = j
      <4>1. answer # 0
        BY <3>2 DEF Ids
      <4>2. QED
        BY <1>3, <1>12, <1>13, <1>15, <3>2, <4>1 DEF KnownRemote
    <3>3. QED
      BY <1>5, <1>18, <2>1, <3>1, <3>2
  <2>2. QED
    BY <2>1 DEF RemoteInv
<1>23. QED
  BY <1>16, <1>17, <1>19, <1>20, <1>21, <1>22 DEF JobsIInv

LEMMA StopRefKeeps ==
  ASSUME JobsIInv, NEW x \in Ids, StopRemoteLabSessionRef(x)
  PROVE  JobsIInv'
<1>1. /\ JobTypes /\ TaskTypes /\ Held(jobs, sessions) /\ Held(stored, sessions)
      /\ StartedInv /\ LocalInv /\ RemoteInv
  BY DEF JobsIInv
<1>2. PICK op, j, todo, any : op = task.op /\ j = task.job /\ todo = task.todo /\ any = task.any
  OBVIOUS
<1>3. /\ op \in {"stop", "delete"} /\ j \in DOMAIN jobs /\ todo \in SUBSET Ids /\ any \in BOOLEAN
      /\ task = [op |-> op, job |-> j, todo |-> todo, any |-> any]
  BY <1>1, <1>2 DEF StopRemoteLabSessionRef, TaskTypes, NoTask
<1>4. /\ sessions' \in Stops(x) /\ task' = [task EXCEPT !.todo = @ \ {x}]
      /\ UNCHANGED <<jobs, running, active, logging, stored, unreliable, losses>>
  BY DEF StopRemoteLabSessionRef
<1>5. task' = [op |-> op, job |-> j, todo |-> todo \ {x}, any |-> any]
  BY <1>3, <1>4
<1>6. Same(sessions') /\ (~unreliable => \A y \in Ids : y = x => ~sessions'[y].active)
  BY <1>1, <1>4, StopsFacts
<1>7. LocalStep
  BY <1>1, <1>4, <1>6, LocalStays
<1>8. /\ Evolve /\ NoNewRemote /\ LocalInv'
  BY <1>7 DEF LocalStep
<1>9. /\ Held(jobs, sessions') /\ Held(stored, sessions') /\ (OneJobOnly' => OneJobOnly)
      /\ \A k \in Jobs : Started(k, sessions) => Started(k, sessions')
  BY <1>1, <1>8, EvolveFacts
<1>10. JobTypes'
  BY <1>1, <1>4, <1>8 DEF JobTypes, Evolve
<1>11. TaskTypes'
  BY <1>3, <1>4, <1>5 DEF TaskTypes
<1>12. Held(jobs, sessions)' /\ Held(stored, sessions)'
  BY <1>4, <1>9
<1>13. StartedInv'
  <2>1. running' # None => Started(running', sessions')
    BY <1>1, <1>4, <1>9 DEF StartedInv, JobTypes
  <2>2. task'.op # "start"
    BY <1>3, <1>5
  <2>3. QED
    BY <1>8, <2>1, <2>2 DEF StartedInv, Evolve
<1>14. RemoteInv'
  <2>1. ASSUME ~unreliable', OneJobOnly', NEW y \in Ids, RunsRemote(y)' PROVE KnownRemote(y)'
    <3>1. RunsRemote(y) /\ KnownRemote(y)
      BY <1>1, <1>4, <1>8, <1>9, <2>1 DEF RemoteInv, NoNewRemote
    <3>2. y # x /\ sessions'[y].job = sessions[y].job
      BY <1>4, <1>6, <2>1 DEF RunsRemote, Same
    <3>3. QED
      BY <1>3, <1>4, <1>5, <3>1, <3>2 DEF KnownRemote
  <2>2. QED
    BY <2>1 DEF RemoteInv
<1>15. QED
  BY <1>8, <1>10, <1>11, <1>12, <1>13, <1>14 DEF JobsIInv

\* Only the jobs change, and they are saved.
LEMMA EndKeeps ==
  ASSUME JobsIInv, task' = NoTask, stored' = jobs',
         UNCHANGED <<active, logging, sessions, unreliable, losses>>,
         jobs' \in [DOMAIN jobs' -> Job], DOMAIN jobs' \subseteq DOMAIN jobs,
         \A k \in DOMAIN jobs' : jobs'[k].refs \subseteq jobs[k].refs,
         running' \in DOMAIN jobs' \cup {None},
         running' # None => Started(running', sessions),
         ~unreliable /\ OneJobOnly =>
           \A x \in Ids : RunsRemote(x) =>
             LET j == sessions[x].job
             IN  j \in DOMAIN jobs' /\ x \in jobs'[j].refs /\ jobs'[j].status = "Running"
  PROVE  JobsIInv'
<1>1. /\ JobTypes /\ Held(jobs, sessions) /\ StartedInv /\ LocalInv
  BY DEF JobsIInv
<1>2. JobTypes'
  BY <1>1 DEF JobTypes
<1>3. TaskTypes'
  BY DEF TaskTypes
<1>4. Held(jobs, sessions)' /\ Held(stored, sessions)'
  BY <1>1 DEF Held
<1>5. StartedInv' /\ LocalInv'
  BY <1>1 DEF StartedInv, Started, LocalInv, SessionIsShown, NoOrphanLocal, NoTask
<1>6. RemoteInv'
  <2>1. ASSUME NEW x \in Ids, ~unreliable', OneJobOnly', RunsRemote(x)' PROVE KnownRemote(x)'
    <3>1. ~unreliable /\ OneJobOnly /\ RunsRemote(x)
      BY <2>1 DEF OneJobOnly, RunsRemote
    <3>2. task'.op = "none"
      BY DEF NoTask
    <3>3. QED
      BY <3>1, <3>2 DEF KnownRemote
  <2>2. QED
    BY <2>1 DEF RemoteInv
<1>7. QED
  BY <1>2, <1>3, <1>4, <1>5, <1>6 DEF JobsIInv

LEMMA EndStartKeeps == ASSUME JobsIInv, EndStart PROVE JobsIInv'
<1>1. /\ JobTypes /\ TaskTypes /\ StartedInv /\ RemoteInv
  BY DEF JobsIInv
<1>2. PICK j : j = task.job
  OBVIOUS
<1>3. task.op = "start" /\ j \in DOMAIN jobs /\ j \in Jobs /\ task.todo = {} /\ task.any \in BOOLEAN
  BY <1>1, <1>2 DEF EndStart, TaskTypes, NoTask, JobTypes
<1>4. task' = NoTask /\ stored' = jobs' /\ UNCHANGED <<active, logging, sessions, unreliable, losses>>
  BY DEF EndStart
<1>5. CASE task.any
  <2>1. /\ jobs' = [k \in DOMAIN jobs |-> [jobs[k] EXCEPT !.status =
                      IF k = j THEN "Running" ELSE IF k = running THEN "Stopped" ELSE @]]
        /\ running' = j
    BY <1>2, <1>5 DEF EndStart
  <2>2. ASSUME NEW k \in DOMAIN jobs
        PROVE  /\ jobs'[k] \in Job /\ jobs'[k].refs = jobs[k].refs
               /\ jobs'[k].status = IF k = j THEN "Running"
                                    ELSE IF k = running THEN "Stopped" ELSE jobs[k].status
    <3>1. PICK r \in Job : r = jobs[k]
      BY <1>1 DEF JobTypes
    <3>2. jobs'[k] = [r EXCEPT !.status = IF k = j THEN "Running" ELSE IF k = running THEN "Stopped" ELSE @]
      BY <2>1, <3>1
    <3>3. QED
      BY <3>1, <3>2 DEF Job
  <2>3. DOMAIN jobs' = DOMAIN jobs /\ jobs' \in [DOMAIN jobs' -> Job]
    BY <2>1, <2>2
  <2>4. Started(j, sessions)
    BY <1>1, <1>2, <1>3, <1>5 DEF StartedInv
  <2>5. OneJobOnly => running \in {None, j}
    BY <1>1, <1>3, <2>4 DEF StartedInv, Started, OneJobOnly, JobTypes
  <2>6. ASSUME ~unreliable, OneJobOnly, NEW x \in Ids, RunsRemote(x)
        PROVE  LET i == sessions[x].job
               IN  i \in DOMAIN jobs' /\ x \in jobs'[i].refs /\ jobs'[i].status = "Running"
    <3>1. KnownRemote(x)
      BY <1>1, <2>6 DEF RemoteInv
    <3>2. PICK i : i = sessions[x].job
      OBVIOUS
    <3>3. i \in DOMAIN jobs /\ x \in jobs[i].refs /\ (i # j => jobs[i].status = "Running") /\ i # None
      BY <1>1, <1>2, <3>1, <3>2, JobsAssumption DEF KnownRemote, JobTypes
    <3>4. QED
      BY <2>2, <2>3, <2>5, <2>6, <3>2, <3>3
  <2>7. QED
    BY <1>3, <1>4, <2>1, <2>2, <2>3, <2>4, <2>6, EndKeeps
<1>6. CASE ~task.any
  <2>1. jobs' = [jobs EXCEPT ![j].status = "Failed"] /\ running' = running
    BY <1>2, <1>6 DEF EndStart
  <2>2. PICK new : new = [jobs[j] EXCEPT !.status = "Failed"]
    OBVIOUS
  <2>3. new \in Job /\ new.refs = jobs[j].refs
    BY <1>1, <1>3, <2>2 DEF JobTypes, Job
  <2>4. jobs' = [jobs EXCEPT ![j] = new]
    BY <2>1, <2>2
  <2>5. /\ DOMAIN jobs' = DOMAIN jobs /\ jobs' \in [DOMAIN jobs' -> Job] /\ jobs'[j] = new
        /\ \A k \in DOMAIN jobs \ {j} : jobs'[k] = jobs[k]
    BY <1>1, <1>3, <2>3, <2>4 DEF JobTypes
  <2>6. ASSUME ~unreliable, OneJobOnly, NEW x \in Ids, RunsRemote(x)
        PROVE  LET i == sessions[x].job
               IN  i \in DOMAIN jobs' /\ x \in jobs'[i].refs /\ jobs'[i].status = "Running"
    <3>1. KnownRemote(x)
      BY <1>1, <2>6 DEF RemoteInv
    <3>2. jobs[j].refs = {}
      BY <1>1, <1>2, <1>3, <1>6 DEF StartedInv
    <3>3. QED
      BY <1>2, <2>5, <3>1, <3>2 DEF KnownRemote
  <2>7. /\ \A k \in DOMAIN jobs' : jobs'[k].refs \subseteq jobs[k].refs
        /\ running' \in DOMAIN jobs' \cup {None} /\ (running' # None => Started(running', sessions))
    BY <1>1, <2>1, <2>3, <2>5 DEF StartedInv, JobTypes
  <2>8. QED
    BY <1>4, <2>5, <2>6, <2>7, EndKeeps
<1>7. QED
  BY <1>3, <1>5, <1>6

\* What was to be stopped has been.
LEMMA EndStopKeeps == ASSUME JobsIInv, EndStop \/ EndDelete PROVE JobsIInv'
<1>1. /\ JobTypes /\ TaskTypes /\ StartedInv /\ RemoteInv
  BY DEF JobsIInv
<1>2. PICK j : j = task.job
  OBVIOUS
<1>3. task.op \in {"stop", "delete"} /\ j \in DOMAIN jobs /\ task.todo = {}
  BY <1>1, <1>2 DEF EndStop, EndDelete, TaskTypes, NoTask
<1>4. /\ task' = NoTask /\ stored' = jobs' /\ UNCHANGED <<active, logging, sessions, unreliable, losses>>
      /\ running' = IF running = j THEN None ELSE running
  BY <1>2 DEF EndStop, EndDelete
<1>5. /\ jobs' \in [DOMAIN jobs' -> Job] /\ DOMAIN jobs' \in {DOMAIN jobs, DOMAIN jobs \ {j}}
      /\ \A k \in DOMAIN jobs' : jobs'[k].refs \subseteq jobs[k].refs
      /\ \A k \in DOMAIN jobs \ {j} : jobs'[k] = jobs[k]
  <2>1. CASE EndStop
    <3>1. PICK new : new = [[jobs[j] EXCEPT !.refs = {}] EXCEPT !.status = "Paused"]
      OBVIOUS
    <3>2. new \in Job /\ new.refs = {}
      BY <1>1, <1>3, <3>1 DEF JobTypes, Job
    <3>3. jobs' = [jobs EXCEPT ![j] = new]
      BY <1>1, <1>2, <1>3, <2>1, <3>1 DEF EndStop, JobTypes
    <3>4. QED
      BY <1>1, <1>3, <3>2, <3>3 DEF JobTypes
  <2>2. CASE EndDelete
    <3>1. jobs' = [k \in DOMAIN jobs \ {j} |-> jobs[k]]
      BY <1>2, <2>2 DEF EndDelete
    <3>2. QED
      BY <1>1, <3>1 DEF JobTypes
  <2>3. QED
    BY <2>1, <2>2
<1>6. ASSUME ~unreliable, OneJobOnly, NEW x \in Ids, RunsRemote(x)
      PROVE  LET i == sessions[x].job
             IN  i \in DOMAIN jobs' /\ x \in jobs'[i].refs /\ jobs'[i].status = "Running"
  <2>1. KnownRemote(x)
    BY <1>1, <1>6 DEF RemoteInv
  <2>2. sessions[x].job # j
    BY <1>2, <1>3, <2>1 DEF KnownRemote
  <2>3. QED
    BY <1>2, <1>5, <2>1, <2>2 DEF KnownRemote
<1>7. running' \in DOMAIN jobs' \cup {None} /\ (running' # None => Started(running', sessions))
  BY <1>1, <1>4, <1>5 DEF StartedInv, JobTypes
<1>8. QED
  BY <1>4, <1>5, <1>6, <1>7, EndKeeps

LEMMA JobsSteps == JobsIInv /\ [JobsNext]_jobVars => JobsIInv'
<1> SUFFICES ASSUME JobsIInv, [JobsNext]_jobVars PROVE JobsIInv'
  OBVIOUS
<1>1. CASE Clicks
  BY <1>1, CreateKeeps, StartJobKeeps, StopJobKeeps, WindowSteps DEF Clicks
<1>2. CASE Requests
  BY <1>2, StartRemoteKeeps, StopRefKeeps, EndStartKeeps, EndStopKeeps DEF Requests
<1>3. CASE Recreate \/ Reopen \/ GuiCrash \/ BecomeUnreliable \/ \E x \in Ids : End(x)
  BY <1>3, WindowSteps
<1>4. CASE UNCHANGED jobVars
  <2>1. UNCHANGED <<jobs, running, active, logging, stored, task, sessions, unreliable, losses>>
    BY <1>4 DEF jobVars
  <2>2. /\ JobTypes' /\ TaskTypes' /\ Held(jobs, sessions)' /\ Held(stored, sessions)'
        /\ StartedInv' /\ LocalInv'
    BY <2>1 DEF JobsIInv, JobTypes, TaskTypes, Held, StartedInv, Started, LocalInv, SessionIsShown,
                NoOrphanLocal
  <2>3. RemoteInv'
    BY <2>1 DEF JobsIInv, RemoteInv, OneJobOnly, RunsRemote, KnownRemote
  <2>4. QED
    BY <2>2, <2>3 DEF JobsIInv
<1>5. QED
  BY <1>1, <1>2, <1>3, <1>4 DEF JobsNext

LEMMA JobsInvariant == JobsSpec => []JobsIInv
BY JobsInitial, JobsSteps, PTL DEF JobsSpec

\* The toggle shows the local session the window knows of, whatever fails or
\* gets lost (client/window.cpp).
THEOREM ToggleShowsSession == JobsSpec => []SessionIsShown
<1>1. JobsIInv => SessionIsShown
  BY DEF JobsIInv, LocalInv
<1>2. QED
  BY <1>1, JobsInvariant, PTL

\* What jobs refer to are their own sessions on sensors, and no local session
\* is left behind while services answer (client/pages/fleet_page.cpp).
THEOREM JobsAreSound == JobsSpec => []JobsInv
<1>1. JobsIInv => JobsInv
  <2> SUFFICES ASSUME JobsIInv PROVE JobsInv
    OBVIOUS
  <2>1. /\ JobTypes /\ TaskTypes /\ Held(jobs, sessions) /\ LocalInv
    BY DEF JobsIInv
  <2>2. /\ \A j \in DOMAIN jobs : jobs[j] \in Job
        /\ \A j \in DOMAIN stored : stored[j] \in Job
    BY <2>1 DEF JobTypes
  <2>3. /\ task.op \in {"none", "start", "stop", "delete"} /\ task.job \in DOMAIN jobs \cup {None}
        /\ task.todo \subseteq IF task.op = "start" THEN Sensors ELSE Ids
    BY <2>1 DEF TaskTypes, NoTask
  <2>4. JobsTypeOK
    BY <2>1, <2>2, <2>3 DEF JobTypes, JobsTypeOK, Held
  <2>5. QED
    BY <2>1, <2>4 DEF JobsInv, LocalInv
<1>2. QED
  BY <1>1, JobsInvariant, PTL

\* While sensors answer, the only job ever started knows every session it has
\* running, through reloads of pages and window (client/pages/fleet_page.cpp).
THEOREM RemoteSessionsAreKnown == JobsSpec => []RemoteKnown
<1>1. JobsIInv => RemoteKnown
  BY DEF JobsIInv, RemoteInv, RunsRemote, KnownRemote, RemoteKnown
<1>2. QED
  BY <1>1, JobsInvariant, PTL

-----------------------------------------------------------------------------
(* The inventory.                                                          *)

\* A row whose history is within its bound and has the row's address.
GoodRow(row) ==
  row \in Row /\ Len(row.address_history) <= HistoryMax /\ Contains(row.address_history, row.address)

GoodRows(rows) == rows \in Seq(Row) /\ \A i \in DOMAIN rows : GoodRow(rows[i])

\* Every row has the address of its device, a device has one row, and trust is
\* the operator's.
Settled(rows, places, trusted) ==
  /\ \A i \in DOMAIN rows : /\ rows[i].address = places[rows[i].dev]
                            /\ rows[i].trusted => rows[i].dev \in trusted
  /\ \A i, j \in DOMAIN rows : rows[i].dev = rows[j].dev => i = j

Fit(rows) == GoodRows(rows) /\ (moves = 0 => Settled(rows, at, ever))

Injective(places) == \A d, e \in Devices : places[d] = places[e] => d = e

InventoryTypes ==
  /\ at \in [Devices -> Addresses] /\ Injective(at) /\ moves \in 0 .. MaxMoves
  /\ file \in [whole : BOOLEAN, rows : Seq(Row)]
  /\ http \in [Https -> [pc : {"idle", "open", "write"}, rows : Seq(Row)]]
  /\ saving \in BOOLEAN /\ clicks \in 0 .. MaxClicks /\ crashes \in 0 .. MaxCrashes
  /\ enrolled \subseteq ever /\ ever \subseteq Devices

InventoryIInv == InventoryTypes /\ \A rows \in Lists : Fit(rows)

-----------------------------------------------------------------------------
(* Lists of rows.                                                          *)

LEMMA AppendUniqueFacts ==
  ASSUME NEW h \in Seq(Addresses), Len(h) <= HistoryMax, NEW a \in Addresses, NEW r,
         r = AppendUniqueAddress(h, a)
  PROVE  r \in Seq(Addresses) /\ Len(r) <= HistoryMax /\ Contains(r, a)
<1>1. CASE Contains(h, a)
  <2>1. r = h
    BY <1>1, FleetAssumption DEF AppendUniqueAddress
  <2>2. QED
    BY <1>1, <2>1
<1>2. CASE ~Contains(h, a)
  <2>0. PICK all : all = Append(h, a)
    OBVIOUS
  <2>1. all \in Seq(Addresses) /\ all = Append(h, a)
    BY <2>0
  <2>2. Len(all) = Len(h) + 1 /\ all[Len(all)] = a /\ Len(h) \in Nat
    BY <2>1
  <2>3. r = IF Len(all) > HistoryMax THEN Tail(all) ELSE all
    BY <1>2, <2>1 DEF AppendUniqueAddress
  <2>4. CASE Len(all) > HistoryMax
    <3>1. HistoryMax \in Nat \ {0}
      BY FleetAssumption
    <3>2. r = Tail(all) /\ all # <<>> /\ Len(all) >= 2
      BY <2>2, <2>3, <2>4, <3>1
    <3>3. r \in Seq(Addresses) /\ Len(r) = Len(all) - 1 /\ \A i \in 1 .. Len(r) : r[i] = all[i + 1]
      BY <2>1, <3>2, HeadTailProperties
    <3>4. r[Len(r)] = all[Len(all)]
      BY <2>2, <3>2, <3>3
    <3>5. Len(r) \in 1 .. Len(r) /\ Len(r) <= HistoryMax
      BY <2>2, <3>1, <3>2, <3>3
    <3>6. QED
      BY <2>2, <3>3, <3>4, <3>5 DEF Contains
  <2>5. CASE ~(Len(all) > HistoryMax)
    <3>1. r = all /\ Len(all) \in 1 .. Len(all) /\ Len(all) <= HistoryMax
      BY <2>2, <2>3, <2>5, FleetAssumption
    <3>2. QED
      BY <2>1, <2>2, <3>1 DEF Contains
  <2>6. QED
    BY <2>4, <2>5
<1>3. QED
  BY <1>1, <1>2

\* The row as it is after a device answered from an address.
LEMMA RememberedFacts ==
  ASSUME NEW row, GoodRow(row), NEW dev \in Devices, NEW a \in Addresses, NEW r,
         r = [dev |-> dev, address |-> a, trusted |-> row.trusted,
              address_history |-> Remembered(row, a)]
  PROVE  GoodRow(r)
<1>1. /\ row.address_history \in Seq(Addresses) /\ Len(row.address_history) <= HistoryMax
      /\ row.address \in Addresses /\ row.trusted \in BOOLEAN
  BY DEF GoodRow, Row
<1>2. PICK h : h = AppendUniqueAddress(row.address_history, row.address)
  OBVIOUS
<1>3. h \in Seq(Addresses) /\ Len(h) <= HistoryMax
  BY <1>1, <1>2, AppendUniqueFacts
<1>4. PICK g : g = AppendUniqueAddress(h, a)
  OBVIOUS
<1>5. g \in Seq(Addresses) /\ Len(g) <= HistoryMax /\ Contains(g, a)
  BY <1>3, <1>4, AppendUniqueFacts
<1>6. Remembered(row, a) = g
  BY <1>2, <1>4 DEF Remembered
<1>7. PICK t \in BOOLEAN : t = row.trusted
  BY <1>1
<1>8. r = [dev |-> dev, address |-> a, trusted |-> t, address_history |-> g]
  BY <1>6, <1>7
<1>9. r \in Row /\ r.address_history = g /\ r.address = a
  BY <1>5, <1>8 DEF Row
<1>10. QED
  BY <1>5, <1>9 DEF GoodRow

LEMMA CandidateFacts ==
  ASSUME NEW dev \in Devices, NEW a \in Addresses
  PROVE  GoodRow(Candidate(dev, a))
<1>1. PICK h : h = <<a>>
  OBVIOUS
<1>2. h \in Seq(Addresses) /\ Len(h) = 1 /\ h[1] = a
  BY <1>1
<1>3. Contains(h, a)
  BY <1>2 DEF Contains
<1>4. PICK f \in BOOLEAN : f = FALSE
  OBVIOUS
<1>5. PICK r : r = [dev |-> dev, address |-> a, trusted |-> f, address_history |-> h]
  OBVIOUS
<1>6. r \in Row /\ r.address_history = h /\ r.address = a
  BY <1>2, <1>5 DEF Row
<1>7. 1 <= HistoryMax
  BY FleetAssumption
<1>8. GoodRow(r)
  BY <1>2, <1>3, <1>6, <1>7 DEF GoodRow
<1>9. QED
  BY <1>1, <1>4, <1>5, <1>8 DEF Candidate

LEMMA FirstFacts ==
  ASSUME NEW rows, GoodRows(rows), NEW dev, NEW a, Matches(rows, dev, a) # {}, NEW i,
         i = FirstOf(Matches(rows, dev, a))
  PROVE  i \in DOMAIN rows /\ SameFleetDevice(rows[i], dev, a)
<1>1. PICK M : M = Matches(rows, dev, a)
  OBVIOUS
<1>2. M \in SUBSET Nat /\ M # {}
  BY <1>1 DEF Matches, GoodRows
<1>3. \E m \in M : \A k \in M : m <= k
  BY <1>2, Least
<1>4. i \in M
  BY <1>1, <1>3 DEF FirstOf
<1>5. QED
  BY <1>1, <1>4 DEF Matches

\* A list with one row more or another row in the place of one.
OneMore(rows, row, r) ==
  /\ GoodRows(r) /\ r = Append(rows, row)
  /\ \E n : /\ n \notin DOMAIN rows /\ DOMAIN r = DOMAIN rows \cup {n} /\ r[n] = row
           /\ \A i \in DOMAIN rows : r[i] = rows[i]

LEMMA AddedRow ==
  ASSUME NEW rows, GoodRows(rows), NEW row, GoodRow(row)
  PROVE  OneMore(rows, row, Append(rows, row))
<1> DEFINE r == Append(rows, row)
<1>1. rows \in Seq(Row) /\ row \in Row /\ Len(rows) \in Nat /\ DOMAIN rows = 1 .. Len(rows)
  BY DEF GoodRows, GoodRow
<1>2. /\ r \in Seq(Row) /\ Len(r) = Len(rows) + 1 /\ r[Len(rows) + 1] = row
      /\ \A i \in 1 .. Len(rows) : r[i] = rows[i]
  BY <1>1
<1>3. DOMAIN r = DOMAIN rows \cup {Len(rows) + 1} /\ Len(rows) + 1 \notin DOMAIN rows
  BY <1>1, <1>2
<1>4. r = Append(rows, row)
  OBVIOUS
<1> HIDE DEF r
<1>5. GoodRows(r)
  BY <1>1, <1>2, <1>3 DEF GoodRows
<1>6. QED
  BY <1>2, <1>3, <1>4, <1>5 DEF OneMore, r

\* One row of a list has another value.
Replaced(rows, i, row, r) ==
  /\ GoodRows(r) /\ DOMAIN r = DOMAIN rows /\ r[i] = row
  /\ \A j \in DOMAIN rows \ {i} : r[j] = rows[j]

\* A row written in place, of the right form, leaves the list so.
LEMMA ChangedRow ==
  ASSUME NEW rows, GoodRows(rows), NEW row, GoodRow(row), NEW i \in DOMAIN rows, NEW r,
         r = [rows EXCEPT ![i] = row]
  PROVE  Replaced(rows, i, row, r)
<1>1. rows \in Seq(Row) /\ row \in Row
  BY DEF GoodRows, GoodRow
<1>2. r \in Seq(Row) /\ DOMAIN r = DOMAIN rows /\ r[i] = row /\ \A j \in DOMAIN rows \ {i} : r[j] = rows[j]
  BY <1>1
<1>3. QED
  BY <1>2 DEF GoodRows, Replaced

\* While devices stay, what matches a device at its address is its own row.
LEMMA MatchIsOwn ==
  ASSUME NEW rows, GoodRows(rows), NEW places, Injective(places), NEW trusted,
         Settled(rows, places, trusted), NEW dev \in Devices, NEW i \in DOMAIN rows
  PROVE  SameFleetDevice(rows[i], dev, places[dev]) <=> rows[i].dev = dev
<1>1. rows[i] \in Row
  BY DEF GoodRows, GoodRow
<1>2. rows[i].dev \in Devices
  BY <1>1 DEF Row
<1>3. QED
  BY <1>2 DEF Injective, Settled, SameFleetDevice

LEMMA MergedFacts ==
  ASSUME NEW rows, GoodRows(rows), NEW dev \in Devices, NEW a \in Addresses, NEW r,
         r = Merged(rows, dev, a)
  PROVE  /\ GoodRows(r)
         /\ \A places, trusted :
              Injective(places) /\ a = places[dev] /\ Settled(rows, places, trusted)
                => Settled(r, places, trusted)
<1>1. CASE Matches(rows, dev, a) = {}
  <2>1. PICK new : new = Candidate(dev, a)
    OBVIOUS
  <2>2. GoodRow(new) /\ new.dev = dev /\ new.address = a /\ new.trusted = FALSE
    BY <2>1, CandidateFacts DEF Candidate
  <2>3. r = Append(rows, new)
    BY <1>1, <2>1 DEF Merged
  <2>4. OneMore(rows, new, r)
    BY <2>2, <2>3, AddedRow
  <2>5. \A i \in DOMAIN rows : rows[i].dev # dev
    BY <1>1 DEF Matches, SameFleetDevice
  <2>6. QED
    BY <2>2, <2>4, <2>5 DEF Settled, OneMore
<1>2. CASE Matches(rows, dev, a) # {}
  <2>1. PICK i : i = FirstOf(Matches(rows, dev, a))
    OBVIOUS
  <2>2. i \in DOMAIN rows /\ SameFleetDevice(rows[i], dev, a)
    BY <1>2, <2>1, FirstFacts
  <2>3. PICK new : new = [dev |-> dev, address |-> a, trusted |-> rows[i].trusted,
                          address_history |-> Remembered(rows[i], a)]
    OBVIOUS
  <2>4. GoodRow(rows[i])
    BY <2>2 DEF GoodRows
  <2>5. GoodRow(new)
    BY <2>3, <2>4, RememberedFacts
  <2>6. r = [rows EXCEPT ![i] = new]
    BY <1>2, <2>1, <2>2, <2>3 DEF Merged
  <2>7. /\ GoodRows(r) /\ DOMAIN r = DOMAIN rows /\ r[i] = new
        /\ \A j \in DOMAIN rows \ {i} : r[j] = rows[j]
    <3>1. i \in DOMAIN rows
      BY <2>2
    <3>2. Replaced(rows, i, new, r)
      BY <2>5, <2>6, <3>1, ChangedRow
    <3>3. QED
      BY <3>2 DEF Replaced
  <2>8. new.dev = dev /\ new.address = a /\ new.trusted = rows[i].trusted
    BY <2>3
  <2>9. ASSUME NEW places, NEW trusted, Injective(places), a = places[dev], Settled(rows, places, trusted)
        PROVE  Settled(r, places, trusted)
    <3>1. rows[i].dev = dev
      BY <2>2, <2>9, MatchIsOwn
    <3>2. QED
      BY <2>2, <2>7, <2>8, <2>9, <3>1 DEF Settled
  <2>10. QED
    BY <2>7, <2>9
<1>3. QED
  BY <1>1, <1>2

LEMMA JoinsFacts ==
  ASSUME NEW rows, GoodRows(rows), NEW row, GoodRow(row), NEW r, r = Joins(rows, row)
  PROVE  /\ GoodRows(r)
         /\ \A places, trusted :
              (/\ Injective(places) /\ row.address = places[row.dev]
               /\ row.trusted => row.dev \in trusted
               /\ Settled(rows, places, trusted))
                => Settled(r, places, trusted)
<1>0. PICK dev \in Devices, a \in Addresses, t \in BOOLEAN, h \in Seq(Addresses) :
        row = [dev |-> dev, address |-> a, trusted |-> t, address_history |-> h]
  BY DEF GoodRow, Row
<1>1. CASE Matches(rows, dev, a) = {}
  <2>1. PICK g : g = AppendUniqueAddress(h, a)
    OBVIOUS
  <2>2. g \in Seq(Addresses) /\ Len(g) <= HistoryMax /\ Contains(g, a)
    BY <1>0, <2>1, AppendUniqueFacts DEF GoodRow
  <2>3. PICK new : new = [dev |-> dev, address |-> a, trusted |-> t, address_history |-> g]
    OBVIOUS
  <2>4. GoodRow(new) /\ new.dev = dev /\ new.address = a /\ new.trusted = t
    BY <2>2, <2>3 DEF GoodRow, Row
  <2>5. r = Append(rows, new)
    BY <1>0, <1>1, <2>1, <2>3 DEF Joins
  <2>6. OneMore(rows, new, r)
    BY <2>4, <2>5, AddedRow
  <2>7. \A i \in DOMAIN rows : rows[i].dev # dev
    BY <1>1 DEF Matches, SameFleetDevice
  <2>8. row.address = a /\ row.dev = dev /\ row.trusted = t
    BY <1>0
  <2>9. ASSUME NEW places, NEW trusted, a = places[dev], t => dev \in trusted, Settled(rows, places, trusted)
        PROVE  Settled(r, places, trusted)
    BY <2>4, <2>6, <2>7, <2>9 DEF Settled, OneMore
  <2>10. GoodRows(r)
    BY <2>6 DEF OneMore
  <2>11. QED
    BY <2>8, <2>9, <2>10
<1>2. CASE Matches(rows, dev, a) # {}
  <2>1. PICK i : i = FirstOf(Matches(rows, dev, a))
    OBVIOUS
  <2>2. i \in DOMAIN rows /\ SameFleetDevice(rows[i], dev, a)
    BY <1>2, <2>1, FirstFacts
  <2>3. PICK new : new = [dev |-> dev, address |-> a, trusted |-> rows[i].trusted,
                          address_history |-> Remembered(rows[i], a)]
    OBVIOUS
  <2>4. GoodRow(rows[i])
    BY <2>2 DEF GoodRows
  <2>5. GoodRow(new)
    BY <2>3, <2>4, RememberedFacts
  <2>6. r = [rows EXCEPT ![i] = new]
    BY <1>0, <1>2, <2>1, <2>2, <2>3 DEF Joins
  <2>7. /\ GoodRows(r) /\ DOMAIN r = DOMAIN rows /\ r[i] = new
        /\ \A j \in DOMAIN rows \ {i} : r[j] = rows[j]
    <3>1. i \in DOMAIN rows
      BY <2>2
    <3>2. Replaced(rows, i, new, r)
      BY <2>5, <2>6, <3>1, ChangedRow
    <3>3. QED
      BY <3>2 DEF Replaced
  <2>8. new.dev = dev /\ new.address = a /\ new.trusted = rows[i].trusted
    BY <2>3
  <2>9. ASSUME NEW places, NEW trusted, Injective(places), a = places[dev], Settled(rows, places, trusted)
        PROVE  Settled(r, places, trusted)
    <3>1. rows[i].dev = dev
      BY <2>2, <2>9, MatchIsOwn
    <3>2. QED
      BY <2>2, <2>7, <2>8, <2>9, <3>1 DEF Settled
  <2>10. row.address = a /\ row.dev = dev
    BY <1>0
  <2>11. QED
    BY <2>7, <2>9, <2>10
<1>3. QED
  BY <1>1, <1>2

\* The whole file, row by row.
KeepsSettled(rows, r) ==
  \A places, trusted :
    Injective(places) /\ Settled(rows, places, trusted) => Settled(r, places, trusted)

UpTo(f, rows, n) ==
  f = [k \in 0 .. n |-> IF k = 0 THEN <<>> ELSE Joins(f[k - 1], rows[k])]

LEMMA UpToExists ==
  ASSUME NEW rows, NEW N \in Nat
  PROVE  \E f : UpTo(f, rows, N)
<1>1. PICK S : S = {n \in 0 .. N : \E f : UpTo(f, rows, n)}
  OBVIOUS
<1>2. 0 \in S
  <2>1. UpTo([k \in 0 .. 0 |-> <<>>], rows, 0)
    BY DEF UpTo
  <2>2. QED
    BY <1>1, <2>1
<1>3. ASSUME NEW n \in 0 .. N - 1, n \in S PROVE n + 1 \in S
  <2>1. PICK f : UpTo(f, rows, n)
    BY <1>1, <1>3
  <2>2. PICK g : g = [k \in 0 .. n + 1 |-> IF k = n + 1 THEN Joins(f[n], rows[n + 1]) ELSE f[k]]
    OBVIOUS
  <2>3. \A k \in 0 .. n : g[k] = f[k]
    BY <2>2
  <2>4. ASSUME NEW k \in 0 .. n + 1
        PROVE  g[k] = IF k = 0 THEN <<>> ELSE Joins(g[k - 1], rows[k])
    <3>1. CASE k = n + 1
      <4>1. g[k] = Joins(f[n], rows[n + 1]) /\ k # 0 /\ k - 1 = n
        BY <2>2, <3>1
      <4>2. g[n] = f[n]
        BY <2>3
      <4>3. QED
        BY <3>1, <4>1, <4>2
    <3>2. CASE k \in 0 .. n
      <4>1. g[k] = f[k] /\ (k # 0 => k - 1 \in 0 .. n)
        BY <2>3, <3>2
      <4>2. f[k] = IF k = 0 THEN <<>> ELSE Joins(f[k - 1], rows[k])
        BY <2>1, <3>2 DEF UpTo
      <4>3. QED
        BY <2>3, <4>1, <4>2
    <3>3. QED
      BY <3>1, <3>2
  <2>5. UpTo(g, rows, n + 1)
    BY <2>2, <2>4 DEF UpTo
  <2>6. QED
    BY <1>1, <2>5
<1>4. 0 .. N \subseteq S
  BY <1>2, <1>3, Rounds
<1>5. QED
  BY <1>1, <1>4

LEMMA LoadedFacts ==
  ASSUME NEW rows, GoodRows(rows)
  PROVE  GoodRows(Loaded(rows)) /\ KeepsSettled(rows, Loaded(rows))
<1> DEFINE P(f) == f = [n \in 0 .. Len(rows) |-> IF n = 0 THEN <<>> ELSE Joins(f[n - 1], rows[n])]
<1>1. PICK N \in Nat : N = Len(rows) /\ DOMAIN rows = 1 .. N
  BY DEF GoodRows
<1>2. \E f : P(f)
  BY <1>1, UpToExists DEF UpTo
<1>3. PICK f : P(f) /\ Loaded(rows) = f[Len(rows)]
  BY <1>2 DEF Loaded
<1>4. \A n \in 0 .. N : f[n] = IF n = 0 THEN <<>> ELSE Joins(f[n - 1], rows[n])
  BY <1>1, <1>3
<1>5. PICK S : S = {n \in 0 .. N : GoodRows(f[n]) /\ KeepsSettled(rows, f[n])}
  OBVIOUS
<1>6. 0 \in S
  <2>1. f[0] = <<>>
    BY <1>4
  <2>2. GoodRows(<<>>) /\ KeepsSettled(rows, <<>>)
    BY DEF GoodRows, KeepsSettled, Settled
  <2>3. QED
    BY <1>5, <2>1, <2>2
<1>7. ASSUME NEW n \in 0 .. N - 1, n \in S PROVE n + 1 \in S
  <2>1. PICK before, row : before = f[n] /\ row = rows[n + 1]
    OBVIOUS
  <2>2. GoodRows(before) /\ KeepsSettled(rows, before)
    BY <1>5, <1>7, <2>1
  <2>3. n + 1 \in DOMAIN rows /\ n + 1 \in 0 .. N /\ n + 1 # 0 /\ (n + 1) - 1 = n
    BY <1>1
  <2>4. GoodRow(row)
    BY <2>1, <2>3 DEF GoodRows
  <2>5. PICK after : after = Joins(before, row)
    OBVIOUS
  <2>6. f[n + 1] = after
    BY <1>4, <2>1, <2>3, <2>5
  <2>7. /\ GoodRows(after)
        /\ \A places, trusted :
              (/\ Injective(places) /\ row.address = places[row.dev]
               /\ row.trusted => row.dev \in trusted
               /\ Settled(before, places, trusted))
                => Settled(after, places, trusted)
    BY <2>2, <2>4, <2>5, JoinsFacts
  <2>8. ASSUME NEW places, NEW trusted, Injective(places), Settled(rows, places, trusted)
        PROVE  Settled(after, places, trusted)
    <3>1. row.address = places[row.dev] /\ (row.trusted => row.dev \in trusted)
      BY <2>1, <2>3, <2>8 DEF Settled
    <3>2. Settled(before, places, trusted)
      BY <2>2, <2>8 DEF KeepsSettled
    <3>3. QED
      BY <2>7, <2>8, <3>1, <3>2
  <2>9. KeepsSettled(rows, after)
    BY <2>8 DEF KeepsSettled
  <2>10. QED
    BY <1>5, <2>3, <2>6, <2>7, <2>9
<1>8. 0 .. N \subseteq S
  BY <1>6, <1>7, Rounds
<1>9. QED
  BY <1>1, <1>3, <1>5, <1>8

-----------------------------------------------------------------------------
(* The steps over the inventory.                                           *)

LEMMA FitMerged ==
  ASSUME InventoryTypes, NEW rows, Fit(rows), NEW d \in Devices
  PROVE  Fit(Merged(rows, d, at[d]))
<1>1. PICK a \in Addresses : a = at[d]
  BY DEF InventoryTypes
<1>2. PICK r : r = Merged(rows, d, a)
  OBVIOUS
<1>3. /\ GoodRows(r)
      /\ \A places, trusted :
           Injective(places) /\ a = places[d] /\ Settled(rows, places, trusted)
             => Settled(r, places, trusted)
  BY <1>2, MergedFacts DEF Fit
<1>4. QED
  BY <1>1, <1>2, <1>3 DEF Fit, InventoryTypes

LEMMA FitEmpty == Fit(<<>>)
BY DEF Fit, GoodRows, Settled

\* A step after which every list is an old one, or fits.
LEMMA ListsKeep ==
  ASSUME InventoryIInv, InventoryTypes', UNCHANGED <<at, moves>>, ever \subseteq ever',
         \A rows \in Lists' : rows \in Lists \/ Fit(rows) \/ Fit(rows)'
  PROVE  InventoryIInv'
<1>1. ASSUME NEW rows, Fit(rows) PROVE Fit(rows)'
  BY <1>1 DEF Fit, Settled
<1>2. \A rows \in Lists : Fit(rows)
  BY DEF InventoryIInv
<1>3. \A rows \in Lists' : Fit(rows)'
  BY <1>1, <1>2
<1>4. QED
  BY <1>3 DEF InventoryIInv

LEMMA InventoryInitial == Init => InventoryIInv
<1> SUFFICES ASSUME Init PROVE InventoryIInv
  OBVIOUS
<1>1. /\ at \in [Devices -> Addresses] /\ Injective(at) /\ moves = 0 /\ 0 \in 0 .. MaxMoves
      /\ clicks = 0 /\ 0 \in 0 .. MaxClicks /\ crashes = 0 /\ 0 \in 0 .. MaxCrashes
      /\ ever = {} /\ enrolled = {}
  BY FleetAssumption DEF Init, Injective
<1>2. PICK t \in BOOLEAN : t = TRUE
  OBVIOUS
<1>3. file = [whole |-> t, rows |-> <<>>] /\ <<>> \in Seq(Row)
  BY <1>2 DEF Init, Whole
<1>4. file \in [whole : BOOLEAN, rows : Seq(Row)]
  BY <1>3
<1>5. http \in [Https -> [pc : {"idle", "open", "write"}, rows : Seq(Row)]]
  BY DEF Init, Idle
<1>6. saving \in BOOLEAN
  BY Zenon DEF Init
<1>7. InventoryTypes
  BY <1>1, <1>4, <1>5, <1>6 DEF InventoryTypes
<1>8. \A rows \in Lists : rows = <<>>
  BY <1>3 DEF Lists, Init, Idle
<1>9. QED
  BY <1>7, <1>8, FitEmpty DEF InventoryIInv

\* Devices at other addresses: what is said of those that stay is over.
LEMMA MoveKeeps ==
  ASSUME InventoryIInv, NEW d \in Devices, NEW a \in Addresses, Move(d, a)
  PROVE  InventoryIInv'
<1>1. InventoryTypes /\ \A rows \in Lists : Fit(rows)
  BY DEF InventoryIInv
<1>2. /\ moves < MaxMoves /\ (\A e \in Devices : at[e] # a)
      /\ at' = [at EXCEPT ![d] = a] /\ moves' = moves + 1
      /\ UNCHANGED <<file, http, gui, saving, clicks, crashes, ever, enrolled>>
  BY DEF Move
<1>3. moves' \in 0 .. MaxMoves /\ moves' # 0
  BY <1>1, <1>2, FleetAssumption DEF InventoryTypes
<1>4. at' \in [Devices -> Addresses] /\ Injective(at')
  BY <1>1, <1>2 DEF InventoryTypes, Injective
<1>5. InventoryTypes'
  BY <1>1, <1>2, <1>3, <1>4 DEF InventoryTypes
<1>6. Lists' = Lists
  BY <1>2 DEF Lists
<1>7. \A rows \in Lists' : Fit(rows)'
  BY <1>1, <1>3, <1>6 DEF Fit
<1>8. QED
  BY <1>5, <1>7 DEF InventoryIInv

Files == [whole : BOOLEAN, rows : Seq(Row)]

LEMMA WrittenFiles ==
  /\ Torn \in Files /\ Torn.rows = <<>>
  /\ \A rows \in Seq(Row) : Whole(rows) \in Files /\ Whole(rows).rows = rows
<1>1. PICK t \in BOOLEAN, f \in BOOLEAN : t = TRUE /\ f = FALSE
  OBVIOUS
<1>2. Torn = [whole |-> f, rows |-> <<>>]
  BY <1>1, Zenon DEF Torn
<1>3. \A rows : Whole(rows) = [whole |-> t, rows |-> rows]
  BY <1>1, Zenon DEF Whole
<1>4. <<>> \in Seq(Row)
  OBVIOUS
<1>5. QED
  BY <1>2, <1>3, <1>4 DEF Files

LEMMA ServiceKeeps ==
  ASSUME InventoryIInv, Service PROVE InventoryIInv'
<1>1. InventoryTypes /\ \A rows \in Lists : Fit(rows)
  BY DEF InventoryIInv
<1>2. Torn \in [whole : BOOLEAN, rows : Seq(Row)] /\ Torn.rows = <<>>
  BY WrittenFiles DEF Files
<1>3. \A rows \in Seq(Row) : Whole(rows) \in [whole : BOOLEAN, rows : Seq(Row)] /\ Whole(rows).rows = rows
  BY WrittenFiles DEF Files
<1>4. \A h \in Https : http[h] \in [pc : {"idle", "open", "write"}, rows : Seq(Row)]
  BY <1>1 DEF InventoryTypes
<1>5. Idle \in [pc : {"idle", "open", "write"}, rows : Seq(Row)] /\ Idle.rows = <<>>
  BY DEF Idle
<1>6. ASSUME NEW h \in Https, NEW d \in Devices, Heartbeat(h, d) PROVE InventoryIInv'
  <2>1. PICK new : new = Merged(file.rows, d, at[d])
    OBVIOUS
  <2>2. Fit(new)
    BY <1>1, <2>1, FitMerged DEF Lists
  <2>3. /\ http' = [http EXCEPT ![h] = [pc |-> "open", rows |-> new]]
        /\ UNCHANGED <<at, moves, file, gui, saving, clicks, crashes, ever, enrolled>>
    BY <1>6, <2>1 DEF Heartbeat
  <2>4. PICK p : p = [pc |-> "open", rows |-> new]
    OBVIOUS
  <2>5. p \in [pc : {"idle", "open", "write"}, rows : Seq(Row)] /\ p.rows = new
    BY <2>2, <2>4 DEF Fit, GoodRows
  <2>6. http' = [http EXCEPT ![h] = p]
    BY <2>3, <2>4
  <2>7. /\ http' \in [Https -> [pc : {"idle", "open", "write"}, rows : Seq(Row)]]
        /\ \A g \in Https : http'[g] = IF g = h THEN p ELSE http[g]
    BY <1>1, <2>5, <2>6 DEF InventoryTypes
  <2>8. InventoryTypes'
    BY <1>1, <2>3, <2>7 DEF InventoryTypes
  <2>9. \A rows \in Lists' : rows \in Lists \/ rows = new
    BY <2>3, <2>5, <2>7 DEF Lists
  <2>10. QED
    BY <2>2, <2>3, <2>8, <2>9, ListsKeep
<1>7. ASSUME NEW h \in Https, OpenFile(h) PROVE InventoryIInv'
  <2>1. /\ http' = [http EXCEPT ![h].pc = "write"] /\ file' = Torn
        /\ UNCHANGED <<at, moves, gui, saving, clicks, crashes, ever, enrolled>>
    BY <1>7 DEF OpenFile
  <2>2. PICK p : p = [http[h] EXCEPT !.pc = "write"]
    OBVIOUS
  <2>3. p \in [pc : {"idle", "open", "write"}, rows : Seq(Row)] /\ p.rows = http[h].rows
    BY <1>4, <2>2
  <2>4. http' = [http EXCEPT ![h] = p]
    BY <2>1, <2>2
  <2>5. /\ http' \in [Https -> [pc : {"idle", "open", "write"}, rows : Seq(Row)]]
        /\ \A g \in Https : http'[g] = IF g = h THEN p ELSE http[g]
    BY <1>1, <2>3, <2>4 DEF InventoryTypes
  <2>6. InventoryTypes'
    BY <1>1, <1>2, <2>1, <2>5 DEF InventoryTypes
  <2>7. \A rows \in Lists' : rows \in Lists \/ rows = <<>>
    BY <1>2, <2>1, <2>3, <2>5 DEF Lists
  <2>8. QED
    BY <2>1, <2>6, <2>7, FitEmpty, ListsKeep
<1>8. ASSUME NEW h \in Https, WriteFile(h) PROVE InventoryIInv'
  <2>1. /\ file' \in {Whole(http[h].rows), Torn} /\ http' = [http EXCEPT ![h] = Idle]
        /\ UNCHANGED <<at, moves, gui, saving, clicks, crashes, ever, enrolled>>
    BY <1>8 DEF WriteFile, Written
  <2>2. /\ http' \in [Https -> [pc : {"idle", "open", "write"}, rows : Seq(Row)]]
        /\ \A g \in Https : http'[g] = IF g = h THEN Idle ELSE http[g]
    BY <1>1, <1>5, <2>1 DEF InventoryTypes
  <2>3. file' \in [whole : BOOLEAN, rows : Seq(Row)] /\ file'.rows \in {http[h].rows, <<>>}
    BY <1>2, <1>3, <1>4, <2>1
  <2>4. InventoryTypes'
    BY <1>1, <2>1, <2>2, <2>3 DEF InventoryTypes
  <2>5. \A rows \in Lists' : rows \in Lists \/ rows = <<>>
    BY <1>5, <2>1, <2>2, <2>3 DEF Lists
  <2>6. QED
    BY <2>1, <2>4, <2>5, FitEmpty, ListsKeep
<1>9. ASSUME Crash PROVE InventoryIInv'
  <2>1. /\ crashes' \in 0 .. MaxCrashes /\ http' = [h \in Https |-> Idle]
        /\ UNCHANGED <<at, moves, file, gui, saving, clicks, ever, enrolled>>
    BY <1>1, <1>9, FleetAssumption DEF Crash, InventoryTypes
  <2>2. http' \in [Https -> [pc : {"idle", "open", "write"}, rows : Seq(Row)]]
    BY <1>5, <2>1
  <2>3. InventoryTypes'
    BY <1>1, <2>1, <2>2 DEF InventoryTypes
  <2>4. \A rows \in Lists' : rows \in Lists \/ rows = <<>>
    BY <1>5, <2>1 DEF Lists
  <2>5. QED
    BY <2>1, <2>3, <2>4, FitEmpty, ListsKeep
<1>10. QED
  BY <1>6, <1>7, <1>8, <1>9 DEF Service

\* An action of the GUI that leaves it with other rows, saved or not.
LEMMA GuiKeeps ==
  ASSUME InventoryIInv, UNCHANGED <<at, moves, http, crashes>>,
         clicks' \in 0 .. MaxClicks, saving' \in BOOLEAN,
         file' \in Files, file'.rows \in {file.rows, gui, <<>>},
         ever \subseteq ever', ever' \subseteq Devices, enrolled' \subseteq ever',
         GoodRows(gui'), moves = 0 => Settled(gui', at, ever')
  PROVE  InventoryIInv'
<1>1. InventoryTypes
  BY DEF InventoryIInv
<1>2. InventoryTypes'
  BY <1>1 DEF InventoryTypes, Files
<1>3. \A rows \in Lists' : rows \in Lists \/ rows = <<>> \/ rows = gui'
  BY DEF Lists
<1>4. \A rows : GoodRows(rows) /\ (moves' = 0 => Settled(rows, at', ever')) => Fit(rows)'
  BY DEF Fit
<1>5. \A rows : rows = gui' => GoodRows(rows) /\ (moves' = 0 => Settled(rows, at', ever'))
  BY Zenon
<1>6. \A rows \in Lists' : rows \in Lists \/ Fit(rows) \/ Fit(rows)'
  BY <1>3, <1>4, <1>5, FitEmpty
<1>7. QED
  BY <1>2, <1>6, ListsKeep

LEMMA ClickSaves ==
  ASSUME InventoryIInv, Click, Save, ever \subseteq ever', ever' \subseteq Devices, enrolled' \subseteq ever',
         GoodRows(gui'), moves = 0 => Settled(gui', at, ever')
  PROVE  InventoryIInv'
<1>1. UNCHANGED <<at, moves, http, crashes>> /\ clicks' \in 0 .. MaxClicks
  BY FleetAssumption DEF Click, InventoryIInv, InventoryTypes
<1>2. saving' \in BOOLEAN
  BY Zenon DEF Save
<1>3. file' \in Files /\ file'.rows = <<>>
  BY WrittenFiles DEF Save
<1>4. QED
  BY <1>1, <1>2, <1>3, GuiKeeps

LEMMA ProbeKeeps ==
  ASSUME InventoryIInv, NEW d \in Devices, Probe(d) PROVE InventoryIInv'
<1>1. InventoryTypes /\ Fit(gui)
  BY DEF InventoryIInv, Lists
<1>2. PICK r : r = Merged(gui, d, at[d])
  OBVIOUS
<1>3. Fit(r)
  BY <1>1, <1>2, FitMerged
<1>4. Click /\ Save /\ gui' = r /\ ever' = ever /\ enrolled' = enrolled
  BY <1>2 DEF Probe
<1>5. GoodRows(gui') /\ (moves = 0 => Settled(gui', at, ever'))
  BY <1>3, <1>4 DEF Fit
<1>6. ever \subseteq ever' /\ ever' \subseteq Devices /\ enrolled' \subseteq ever'
  BY <1>1, <1>4 DEF InventoryTypes
<1>7. QED
  BY <1>4, <1>5, <1>6, ClickSaves

\* Rows with other trust are as good.
LEMMA TrustedRow ==
  ASSUME NEW row, GoodRow(row), NEW t \in BOOLEAN, NEW r, r = [row EXCEPT !.trusted = t]
  PROVE  /\ GoodRow(r) /\ r.dev = row.dev /\ r.address = row.address /\ r.trusted = t
<1>1. PICK dev \in Devices, a \in Addresses, u \in BOOLEAN, h \in Seq(Addresses) :
        row = [dev |-> dev, address |-> a, trusted |-> u, address_history |-> h]
  BY DEF GoodRow, Row
<1>2. r = [dev |-> dev, address |-> a, trusted |-> t, address_history |-> h]
  BY <1>1
<1>3. QED
  BY <1>1, <1>2 DEF GoodRow, Row

LEMMA RefreshKeeps ==
  ASSUME InventoryIInv, NEW i \in DOMAIN gui, NEW d \in Devices, RefreshDevice(i, d)
  PROVE  InventoryIInv'
<1>1. InventoryTypes /\ Fit(gui)
  BY DEF InventoryIInv, Lists
<1>2. PICK rows : rows = Merged(gui, d, at[d])
  OBVIOUS
<1>3. Fit(rows)
  BY <1>1, <1>2, FitMerged
<1>4. PICK now : now = gui'
  OBVIOUS
<1>5. PICK own : own = gui[i]
  OBVIOUS
<1>6. /\ Click /\ Save /\ ever' = ever /\ enrolled' = enrolled
      /\ now = [j \in DOMAIN rows |->
           [rows[j] EXCEPT !.trusted =
              @ \/ (SameFleetDevice(rows[j], own.dev, own.address) /\ own.trusted)]]
  BY <1>2, <1>4, <1>5, Zenon DEF RefreshDevice
<1>7. GoodRow(own) /\ (moves = 0 => own.address = at[own.dev] /\ (own.trusted => own.dev \in ever))
  BY <1>1, <1>5 DEF Fit, GoodRows, Settled
<1>8. ASSUME NEW j \in DOMAIN rows
      PROVE  /\ GoodRow(now[j]) /\ now[j].dev = rows[j].dev /\ now[j].address = rows[j].address
             /\ now[j].trusted => rows[j].trusted \/ (SameFleetDevice(rows[j], own.dev, own.address) /\ own.trusted)
  <2>1. GoodRow(rows[j])
    BY <1>3 DEF Fit, GoodRows
  <2>2. PICK t \in BOOLEAN :
          t = (rows[j].trusted \/ (SameFleetDevice(rows[j], own.dev, own.address) /\ own.trusted))
    BY Zenon
  <2>3. now[j] = [rows[j] EXCEPT !.trusted = t]
    BY <1>6, <2>2, Zenon
  <2>4. GoodRow(now[j]) /\ now[j].dev = rows[j].dev /\ now[j].address = rows[j].address /\ now[j].trusted = t
    BY <2>1, <2>3, TrustedRow
  <2>5. QED
    BY <2>2, <2>4, Zenon
<1>9. DOMAIN now = DOMAIN rows
  BY <1>6
<1>10. GoodRows(now)
  <2>1. PICK n \in Nat : DOMAIN rows = 1 .. n
    BY <1>3 DEF Fit, GoodRows
  <2>2. \A j \in 1 .. n : now[j] \in Row
    BY <1>8, <2>1 DEF GoodRow
  <2>3. now = [j \in 1 .. n |-> now[j]]
    BY <1>6, <1>9, <2>1
  <2>4. now \in Seq(Row)
    BY <2>2, <2>3
  <2>5. QED
    BY <1>8, <1>9, <2>4 DEF GoodRows
<1>11. ASSUME moves = 0 PROVE Settled(now, at, ever)
  <2>1. Settled(rows, at, ever)
    BY <1>3, <1>11 DEF Fit
  <2>2. ASSUME NEW j \in DOMAIN now, now[j].trusted PROVE now[j].dev \in ever
    <3>1. CASE rows[j].trusted
      BY <1>8, <1>9, <2>1, <3>1 DEF Settled
    <3>2. CASE SameFleetDevice(rows[j], own.dev, own.address) /\ own.trusted
      <4>1. own.dev \in Devices /\ rows[j].dev \in Devices
        BY <1>3, <1>7, <1>9 DEF GoodRow, GoodRows, Fit, Row
      <4>2. own.address = at[own.dev] /\ rows[j].address = at[rows[j].dev] /\ own.dev \in ever
        BY <1>7, <1>9, <1>11, <2>1, <3>2 DEF Settled
      <4>3. rows[j].dev = own.dev
        BY <1>1, <3>2, <4>1, <4>2 DEF SameFleetDevice, InventoryTypes, Injective
      <4>4. QED
        BY <1>8, <1>9, <4>2, <4>3
    <3>3. QED
      BY <1>8, <1>9, <2>2, <3>1, <3>2
  <2>3. QED
    BY <1>8, <1>9, <2>1, <2>2 DEF Settled
<1>12. GoodRows(gui') /\ (moves = 0 => Settled(gui', at, ever'))
  BY <1>4, <1>6, <1>10, <1>11
<1>13. ever \subseteq ever' /\ ever' \subseteq Devices /\ enrolled' \subseteq ever'
  BY <1>1, <1>6 DEF InventoryTypes
<1>14. QED
  BY <1>6, <1>12, <1>13, ClickSaves

LEMMA EnrollKeeps ==
  ASSUME InventoryIInv, NEW i \in DOMAIN gui, EnrollDevice(i) PROVE InventoryIInv'
<1>1. InventoryTypes /\ Fit(gui)
  BY DEF InventoryIInv, Lists
<1>2. GoodRows(gui) /\ GoodRow(gui[i])
  BY <1>1 DEF Fit, GoodRows
<1>3. PICK dev \in Devices, a \in Addresses, u \in BOOLEAN, h \in Seq(Addresses) :
        gui[i] = [dev |-> dev, address |-> a, trusted |-> u, address_history |-> h]
  BY <1>2 DEF GoodRow, Row
<1>4. PICK g : g = AppendUniqueAddress(h, a)
  OBVIOUS
<1>0. PICK t \in BOOLEAN : t = TRUE
  OBVIOUS
<1>5. g \in Seq(Addresses) /\ Len(g) <= HistoryMax /\ Contains(g, a)
  BY <1>2, <1>3, <1>4, AppendUniqueFacts DEF GoodRow
<1>6. PICK new : new = [dev |-> dev, address |-> a, trusted |-> t, address_history |-> g]
  OBVIOUS
<1>7. GoodRow(new) /\ new.dev = dev /\ new.address = a
  BY <1>5, <1>6 DEF GoodRow, Row
<1>8. PICK now : now = gui'
  OBVIOUS
<1>9. now = [gui EXCEPT ![i] = new]
  <2>1. now = [gui EXCEPT ![i].trusted = TRUE,
                          ![i].address_history = AppendUniqueAddress(@, gui[i].address)]
    BY <1>8 DEF EnrollDevice
  <2>2. PICK own : own = [gui[i] EXCEPT !.trusted = t]
    OBVIOUS
  <2>3. own = [dev |-> dev, address |-> a, trusted |-> t, address_history |-> h]
    BY <1>3, <2>2
  <2>4. [gui[i] EXCEPT !.trusted = TRUE] = own
    BY <1>0, <2>2, Zenon
  <2>5. now = [gui EXCEPT ![i] = [[gui[i] EXCEPT !.trusted = TRUE] EXCEPT !.address_history =
                 AppendUniqueAddress(@, gui[i].address)]]
    BY <1>2, <2>1 DEF GoodRows
  <2>6. now = [gui EXCEPT ![i] = [own EXCEPT !.address_history =
                 AppendUniqueAddress(@, gui[i].address)]]
    BY <2>4, <2>5, Zenon
  <2>7. gui[i].address = a /\ own.address_history = h /\ [own EXCEPT !.address_history = g] = new
    BY <1>3, <1>6, <2>3
  <2>8. QED
    BY <1>4, <2>6, <2>7
<1>10. /\ Click /\ Save /\ ever' = ever \cup {dev} /\ enrolled' = enrolled \cup {dev}
  BY <1>3 DEF EnrollDevice
<1>11. /\ GoodRows(now) /\ DOMAIN now = DOMAIN gui /\ now[i] = new
       /\ \A j \in DOMAIN gui \ {i} : now[j] = gui[j]
  <2>1. PICK rows : rows = gui
    OBVIOUS
  <2>2. Replaced(rows, i, new, now)
    BY <1>2, <1>7, <1>9, <2>1, ChangedRow
  <2>3. QED
    BY <2>1, <2>2 DEF Replaced
<1>12. ASSUME moves = 0 PROVE Settled(now, at, ever \cup {dev})
  <2>1. Settled(gui, at, ever)
    BY <1>1, <1>12 DEF Fit
  <2>2. gui[i].dev = dev /\ gui[i].address = a
    BY <1>3
  <2>3. QED
    BY <1>7, <1>11, <2>1, <2>2 DEF Settled
<1>13. GoodRows(gui') /\ (moves = 0 => Settled(gui', at, ever'))
  BY <1>8, <1>10, <1>11, <1>12
<1>14. ever \subseteq ever' /\ ever' \subseteq Devices /\ enrolled' \subseteq ever'
  BY <1>1, <1>10 DEF InventoryTypes
<1>15. QED
  BY <1>10, <1>13, <1>14, ClickSaves

LEMMA DeleteKeeps ==
  ASSUME InventoryIInv, NEW i \in DOMAIN gui, DeleteDevice(i) PROVE InventoryIInv'
<1>1. InventoryTypes /\ Fit(gui)
  BY DEF InventoryIInv, Lists
<1>2. PICK now : now = gui'
  OBVIOUS
<1>3. Click /\ Save /\ ever' = ever /\ enrolled' \subseteq enrolled /\ now = RemoveAt(gui, i)
  BY <1>2 DEF DeleteDevice
<1>4. gui \in Seq(Row) /\ i \in 1 .. Len(gui) /\ Len(gui) \in Nat /\ DOMAIN gui = 1 .. Len(gui)
  BY <1>1 DEF Fit, GoodRows
<1>5. /\ now \in Seq(Row) /\ Len(now) = Len(gui) - 1
      /\ \A k \in 1 .. Len(now) : now[k] = IF k < i THEN gui[k] ELSE gui[k + 1]
  <2>1. PICK rows : rows = gui
    OBVIOUS
  <2>2. rows \in Seq(Row) /\ i \in 1 .. Len(rows) /\ now = RemoveAt(rows, i)
    BY <1>3, <1>4, <2>1
  <2>3. IsWithout(now, Row, rows, i)
    BY <2>2, RemoveAtFacts
  <2>4. QED
    BY <2>1, <2>3 DEF IsWithout
<1>6. DOMAIN now = 1 .. Len(now)
  BY <1>5
<1>7. PICK old : old = [k \in DOMAIN now |-> IF k < i THEN k ELSE k + 1]
  OBVIOUS
<1>8. /\ \A k \in DOMAIN now : old[k] \in DOMAIN gui /\ now[k] = gui[old[k]]
      /\ \A k, m \in DOMAIN now : old[k] = old[m] => k = m
  BY <1>4, <1>5, <1>6, <1>7
<1>9. GoodRows(now)
  BY <1>1, <1>5, <1>8 DEF GoodRows, Fit
<1>10. ASSUME moves = 0 PROVE Settled(now, at, ever)
  <2>1. Settled(gui, at, ever)
    BY <1>1, <1>10 DEF Fit
  <2>2. QED
    BY <1>8, <2>1 DEF Settled
<1>11. GoodRows(gui') /\ (moves = 0 => Settled(gui', at, ever'))
  BY <1>2, <1>3, <1>9, <1>10
<1>12. ever \subseteq ever' /\ ever' \subseteq Devices /\ enrolled' \subseteq ever'
  BY <1>1, <1>3 DEF InventoryTypes
<1>13. QED
  BY <1>3, <1>11, <1>12, ClickSaves

LEMMA LoadKeeps ==
  ASSUME InventoryIInv, LoadDevices PROVE InventoryIInv'
<1>1. InventoryTypes /\ Fit(file.rows)
  BY DEF InventoryIInv, Lists
<1>2. PICK now : now = Loaded(file.rows)
  OBVIOUS
<1>3. GoodRows(now) /\ KeepsSettled(file.rows, now)
  BY <1>1, <1>2, LoadedFacts DEF Fit
<1>4. Click /\ gui' = now /\ UNCHANGED <<file, saving, ever, enrolled>>
  BY <1>2 DEF LoadDevices
<1>5. GoodRows(gui') /\ (moves = 0 => Settled(gui', at, ever'))
  BY <1>1, <1>3, <1>4 DEF Fit, KeepsSettled, InventoryTypes
<1>6. UNCHANGED <<at, moves, http, crashes>> /\ clicks' \in 0 .. MaxClicks
  BY <1>1, <1>4, FleetAssumption DEF Click, InventoryTypes
<1>7. /\ saving' \in BOOLEAN /\ file' \in Files /\ file'.rows = file.rows
      /\ ever \subseteq ever' /\ ever' \subseteq Devices /\ enrolled' \subseteq ever'
  BY <1>1, <1>4 DEF InventoryTypes, Files
<1>8. QED
  BY <1>5, <1>6, <1>7, GuiKeeps

LEMMA GuiStepKeeps == ASSUME InventoryIInv, Gui PROVE InventoryIInv'
<1>1. InventoryTypes /\ Fit(gui)
  BY DEF InventoryIInv, Lists
<1>2. ASSUME Failed PROVE InventoryIInv'
  <2>1. Click /\ Save /\ gui' = gui /\ ever' = ever /\ enrolled' = enrolled
    BY <1>2 DEF Failed
  <2>2. GoodRows(gui') /\ (moves = 0 => Settled(gui', at, ever'))
    BY <1>1, <2>1 DEF Fit
  <2>3. ever \subseteq ever' /\ ever' \subseteq Devices /\ enrolled' \subseteq ever'
    BY <1>1, <2>1 DEF InventoryTypes
  <2>4. QED
    BY <2>1, <2>2, <2>3, ClickSaves
<1>3. ASSUME SaveDevices PROVE InventoryIInv'
  <2>1. /\ UNCHANGED <<at, moves, http, gui, clicks, crashes, ever, enrolled>>
        /\ file' \in {Whole(gui), Torn}
    BY <1>3 DEF SaveDevices, Written
  <2>2. saving' \in BOOLEAN
    BY <1>3, Zenon DEF SaveDevices
  <2>3. file' \in Files /\ file'.rows \in {gui, <<>>}
    BY <1>1, <2>1, WrittenFiles DEF Fit, GoodRows
  <2>4. GoodRows(gui') /\ (moves = 0 => Settled(gui', at, ever'))
    BY <1>1, <2>1 DEF Fit
  <2>5. /\ ever \subseteq ever' /\ ever' \subseteq Devices /\ enrolled' \subseteq ever'
        /\ clicks' \in 0 .. MaxClicks
    BY <1>1, <2>1 DEF InventoryTypes
  <2>6. QED
    BY <2>1, <2>2, <2>3, <2>4, <2>5, GuiKeeps
<1>4. QED
  BY <1>2, <1>3, ProbeKeeps, RefreshKeeps, EnrollKeeps, DeleteKeeps, LoadKeeps DEF Gui

LEMMA InventoryInvariant == Spec => []InventoryIInv
<1>1. InventoryIInv /\ [Next]_vars => InventoryIInv'
  <2> SUFFICES ASSUME InventoryIInv, [Next]_vars PROVE InventoryIInv'
    OBVIOUS
  <2>1. CASE Sensor
    BY <2>1, MoveKeeps DEF Sensor
  <2>2. CASE Service
    BY <2>2, ServiceKeeps
  <2>3. CASE Gui
    BY <2>3, GuiStepKeeps
  <2>4. CASE UNCHANGED vars
    BY <2>4 DEF vars, InventoryIInv, InventoryTypes, Lists, Fit
  <2>5. QED
    BY <2>1, <2>2, <2>3, <2>4 DEF Next
<1>2. QED
  BY <1>1, InventoryInitial, PTL DEF Spec

\* Whoever of the two programs wrote the file last, and however often it was
\* found torn, no list has a history over its bound and, while the sensors keep
\* their addresses, two rows of one device (client/pages/fleet_page.cpp,
\* service/ipc/http_server.cpp).
THEOREM InventoryIsSound == Spec => []InventoryInv
<1>1. InventoryIInv => InventoryInv
  <2> SUFFICES ASSUME InventoryIInv PROVE InventoryInv
    OBVIOUS
  <2>1. InventoryTypes /\ \A rows \in Lists : Fit(rows)
    BY DEF InventoryIInv
  <2>2. \A rows \in Lists : /\ rows \in Seq(Row)
                            /\ \A i \in DOMAIN rows : Len(rows[i].address_history) <= HistoryMax
    BY <2>1 DEF Fit, GoodRows, GoodRow
  <2>3. TypeOK
    BY <2>1, <2>2 DEF InventoryTypes, TypeOK
  <2>4. OneRowPerDevice
    BY <2>1 DEF OneRowPerDevice, Fit, Settled
  <2>5. QED
    BY <2>3, <2>4 DEF InventoryInv
<1>2. QED
  BY <1>1, InventoryInvariant, PTL

\* While the sensors keep their addresses, no list, in the file, in a thread of
\* the service or in the GUI, trusts a device the operator never enrolled.
THEOREM TrustIsEnrolled == Spec => []TrustIsOperators
<1>1. InventoryIInv => TrustIsOperators
  BY DEF InventoryIInv, Fit, Settled, TrustIsOperators, TrustedWereEnrolled
<1>2. QED
  BY <1>1, InventoryInvariant, PTL

\* Also when they move: the address of a row is always in its history.
THEOREM HistoriesKnowAddresses == Spec => []HistoryKnowsAddress
<1>1. InventoryIInv => HistoryKnowsAddress
  BY DEF InventoryIInv, Fit, GoodRows, GoodRow, HistoryKnowsAddress
<1>2. QED
  BY <1>1, InventoryInvariant, PTL
=============================================================================
