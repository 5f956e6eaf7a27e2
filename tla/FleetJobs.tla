----------------------------- MODULE FleetJobs ------------------------------
(***************************************************************************)
(* Logging jobs of the fleet host's GUI (client/pages/fleet_page.cpp) and  *)
(* its one local logging session (client/window.cpp).  A job starts a      *)
(* session of the local service and, unless it is local only, one on every *)
(* trusted sensor; it remembers the remote ones by reference.  Everything  *)
(* is done by the window's thread, which waits for each answer in turn.    *)
(* Jobs and the logging toggle are saved at the end of every click; pages  *)
(* are thrown away and loaded again when the graphics device is lost.      *)
(***************************************************************************)
EXTENDS Integers, FiniteSets

CONSTANTS Jobs,         \* job ids
          Sensors,      \* trusted remote devices
          MaxSessions,  \* bound: sessions ever started
          MaxLosses,    \* bound: losses of the graphics device, ends of the GUI
          None, Local   \* no job; the local service

ASSUME JobsAssumption ==
  /\ MaxSessions \in Nat /\ MaxLosses \in Nat
  /\ None \notin Jobs \cup Sensors \cup {Local} /\ Local \notin Sensors

VARIABLES
  jobs, running,   \* m_jobs, by id, and m_running_job_id
  active, logging, \* m_active_log_session_id, 0 for none, and logging_enabled
  stored,          \* fleet_logging_jobs.json
  task,            \* what the thread is doing to which job, the requests still
                   \* to be made, and whether any session was started
  sessions,        \* for each session started: where, for whom, is it active?
  unreliable,      \* from now on requests and answers may get lost, and the
                   \* GUI may crash
  losses

jobVars == <<jobs, running, active, logging, stored, task, sessions, unreliable, losses>>

Ids    == 1 .. MaxSessions
NoTask   == [op |-> "none", job |-> None, todo |-> {}, any |-> FALSE]
NoJobs == [j \in {} |-> None]

JobsInit ==
  /\ jobs = NoJobs /\ running = None /\ active = 0 /\ logging = FALSE
  /\ stored = NoJobs /\ task = NoTask /\ unreliable = FALSE /\ losses = 0
  /\ sessions = [x \in Ids |-> [at |-> None, job |-> None, active |-> FALSE]]

-----------------------------------------------------------------------------
\* Requests to a session store, local or remote.

Fresh == {x \in Ids : sessions[x].at = None /\ \A y \in Ids : y < x => sessions[y].at # None}

Stopped(table, x) == [y \in Ids |-> [table[y] EXCEPT !.active = @ /\ y # x]]

\* The session tables a stop of x (0 for none) may leave.
Stops(x) == {Stopped(sessions, x)} \cup IF unreliable THEN {sessions} ELSE {}

(* The session table and the answer (0 for none) a start may leave: it may *)
(* be refused, or be carried out with the answer lost.                     *)
Starts(table, at, job) ==
  {<<table, 0>>} \cup
  UNION {{<<[table EXCEPT ![x] = [at |-> at, job |-> job, active |-> TRUE]], answer>> :
            answer \in {x} \cup IF unreliable THEN {0} ELSE {}} : x \in Fresh}

\* The id is forgotten whatever the answer is.
StopMetricLoggingSession == sessions' \in Stops(active) /\ active' = 0

\* Mutant: the session there is not stopped first.
StartLocalJobOver(j) ==
  \E result \in Starts(sessions, Local, j) :
    /\ sessions' = result[1] /\ active' = result[2]
    /\ logging' = (logging \/ active' # 0)

\* Mutant: the toggle not set.
StartLocalJobUnshown(j) ==
  \E stopped \in Stops(active) : \E result \in Starts(stopped, Local, j) :
    sessions' = result[1] /\ active' = result[2] /\ UNCHANGED logging

(* SetOnStartLocalJob: the session there is is stopped, then the job's     *)
(* started.  If that fails the toggle stays as it was.                     *)
StartLocalJob(j) ==
  \E stopped \in Stops(active) : \E result \in Starts(stopped, Local, j) :
    /\ sessions' = result[1] /\ active' = result[2]
    /\ logging' = (logging \/ active' # 0)

\* SetOnStopLocalJob.
StopLocalJob == StopMetricLoggingSession /\ logging' = FALSE

-----------------------------------------------------------------------------
\* Clicks on the Fleet page.

CreateDraftJob(j, remote) ==
  /\ task = NoTask /\ j \notin DOMAIN jobs
  /\ jobs' = [k \in DOMAIN jobs \cup {j} |->
               IF k = j THEN [status |-> IF remote THEN "Queued" ELSE "Ready",
                              remote |-> remote, refs |-> {}]
               ELSE jobs[k]]
  /\ stored' = jobs'
  /\ UNCHANGED <<running, active, logging, task, sessions, unreliable, losses>>

\* The row of a running job has Pause in the place of Start.
StartJob(j) ==
  /\ task = NoTask /\ jobs[j].status # "Running"
  /\ jobs' = [jobs EXCEPT ![j].refs = {}]
  /\ StartLocalJob(j)
  /\ task' = [op |-> "start", job |-> j, any |-> active' # 0,
              todo |-> IF jobs[j].remote THEN Sensors ELSE {}]
  /\ UNCHANGED <<running, stored, unreliable, losses>>

StartRemoteLabSession(s) ==
  /\ task.op = "start" /\ s \in task.todo
  /\ \E result \in Starts(sessions, s, task.job) :
       /\ sessions' = result[1]
       /\ jobs' = [jobs EXCEPT ![task.job].refs = @ \cup ({result[2]} \ {0})]
       /\ task' = [task EXCEPT !.todo = @ \ {s}, !.any = @ \/ result[2] # 0]
  /\ UNCHANGED <<running, active, logging, stored, unreliable, losses>>

\* The end of StartJob: whichever job was running becomes "Stopped".
EndStart ==
  /\ task.op = "start" /\ task.todo = {}
  /\ IF task.any
     THEN /\ jobs' = [j \in DOMAIN jobs |-> [jobs[j] EXCEPT !.status =
                        IF j = task.job THEN "Running"
                        ELSE IF j = running THEN "Stopped" ELSE @]]
          /\ running' = task.job
     ELSE /\ jobs' = [jobs EXCEPT ![task.job].status = "Failed"]
          /\ UNCHANGED running
  /\ stored' = jobs' /\ task' = NoTask
  /\ UNCHANGED <<active, logging, sessions, unreliable, losses>>

StopJob(j) ==
  /\ task = NoTask /\ jobs[j].status = "Running"
  /\ StopLocalJob
  /\ task' = [op |-> "stop", job |-> j, todo |-> jobs[j].refs, any |-> FALSE]
  /\ UNCHANGED <<jobs, running, stored, unreliable, losses>>

\* Mutant: only sessions of the job that m_running_job_id names are stopped.
DeleteJobIfRunning(j) ==
  /\ task = NoTask /\ j \in DOMAIN jobs
  /\ IF running = j THEN StopLocalJob ELSE UNCHANGED <<sessions, active, logging>>
  /\ task' = [op |-> "delete", job |-> j, any |-> FALSE,
              todo |-> IF running = j THEN jobs[j].refs ELSE {}]
  /\ UNCHANGED <<jobs, running, stored, unreliable, losses>>

DeleteJob(j) ==
  /\ task = NoTask /\ j \in DOMAIN jobs
  /\ IF running = j THEN StopLocalJob ELSE UNCHANGED <<sessions, active, logging>>
  /\ task' = [op |-> "delete", job |-> j, todo |-> jobs[j].refs, any |-> FALSE]
  /\ UNCHANGED <<jobs, running, stored, unreliable, losses>>

StopRemoteLabSessionRef(x) ==
  /\ task.op \in {"stop", "delete"} /\ x \in task.todo
  /\ sessions' \in Stops(x)
  /\ task' = [task EXCEPT !.todo = @ \ {x}]
  /\ UNCHANGED <<jobs, running, active, logging, stored, unreliable, losses>>

\* The end of StopJob; the references go whatever the answers were.
EndStop ==
  /\ task.op = "stop" /\ task.todo = {}
  /\ jobs' = [jobs EXCEPT ![task.job].refs = {}, ![task.job].status = "Paused"]
  /\ running' = IF running = task.job THEN None ELSE running
  /\ stored' = jobs' /\ task' = NoTask
  /\ UNCHANGED <<active, logging, sessions, unreliable, losses>>

EndDelete ==
  /\ task.op = "delete" /\ task.todo = {}
  /\ jobs' = [j \in DOMAIN jobs \ {task.job} |-> jobs[j]]
  /\ running' = IF running = task.job THEN None ELSE running
  /\ stored' = jobs' /\ task' = NoTask
  /\ UNCHANGED <<active, logging, sessions, unreliable, losses>>

-----------------------------------------------------------------------------
\* The rest of the window.

\* The toggle of the Metrics page and of the tray's menu.
ToggleLogging ==
  /\ task = NoTask
  /\ IF logging THEN StopLocalJob
     ELSE \E result \in Starts(sessions, Local, None) :
            /\ sessions' = result[1]
            /\ logging' = (result[2] # 0)
            /\ active' = IF result[2] = 0 THEN active ELSE result[2]
  /\ UNCHANGED <<jobs, running, stored, task, unreliable, losses>>

Loss == losses < MaxLosses /\ losses' = losses + 1

\* D2DERR_RECREATE_TARGET: new pages, the same window.
Recreate ==
  /\ task = NoTask /\ Loss
  /\ jobs' = stored /\ running' = None
  /\ UNCHANGED <<active, logging, stored, task, sessions, unreliable>>

\* The window is closed, and opened again later.
Reopen ==
  /\ task = NoTask /\ Loss
  /\ StopMetricLoggingSession
  /\ jobs' = stored /\ running' = None
  /\ UNCHANGED <<logging, stored, task, unreliable>>

\* Also while the jobs are saved, which leaves none.
GuiCrash ==
  /\ unreliable /\ Loss
  /\ active' = 0 /\ running' = None /\ task' = NoTask
  /\ stored' \in {stored} \cup IF task # NoTask /\ task.todo = {} THEN {NoJobs} ELSE {}
  /\ jobs' = stored'
  /\ UNCHANGED <<logging, sessions, unreliable>>

\* A session ends without the GUI: its service went down, or somebody stopped it.
End(x) ==
  /\ sessions[x].active /\ sessions' = Stopped(sessions, x)
  /\ UNCHANGED <<jobs, running, active, logging, stored, task, unreliable, losses>>

BecomeUnreliable ==
  /\ ~unreliable /\ unreliable' = TRUE
  /\ UNCHANGED <<jobs, running, active, logging, stored, task, sessions, losses>>

-----------------------------------------------------------------------------
Clicks == \/ \E j \in Jobs, remote \in BOOLEAN : CreateDraftJob(j, remote)
          \/ \E j \in DOMAIN jobs : StartJob(j) \/ StopJob(j) \/ DeleteJob(j)
          \/ ToggleLogging

Requests == \/ \E s \in Sensors : StartRemoteLabSession(s)
            \/ \E x \in Ids : StopRemoteLabSessionRef(x)
            \/ EndStart \/ EndStop \/ EndDelete

JobsNext == Clicks \/ Requests \/ Recreate \/ Reopen \/ GuiCrash \/ BecomeUnreliable
        \/ \E x \in Ids : End(x)

JobsSpec == JobsInit /\ [][JobsNext]_jobVars

-----------------------------------------------------------------------------
Job == [status : {"Ready", "Queued", "Running", "Stopped", "Paused", "Failed"},
        remote : BOOLEAN, refs : SUBSET Ids]

JobsTypeOK ==
  /\ \A list \in {jobs, stored} : DOMAIN list \subseteq Jobs /\ \A j \in DOMAIN list : list[j] \in Job
  /\ running \in DOMAIN jobs \cup {None}
  /\ active \in Ids \cup {0} /\ logging \in BOOLEAN
  /\ task.op \in {"none", "start", "stop", "delete"} /\ task.job \in DOMAIN jobs \cup {None}
  /\ task.todo \subseteq IF task.op = "start" THEN Sensors ELSE Ids
  /\ \A j \in DOMAIN jobs : \A x \in jobs[j].refs :
       sessions[x].at \in Sensors /\ sessions[x].job = j
  /\ unreliable \in BOOLEAN /\ losses \in 0 .. MaxLosses

(* A local session that the window has started and knows of can be stopped *)
(* from the Metrics page and the tray, whose toggle shows it, through      *)
(* failed starts, lost answers, crashes and lost pages.                    *)
SessionIsShown == active # 0 => logging

(* While services answer, the window never leaves a session of the local   *)
(* service running that it has lost the id of, whichever of its buttons,   *)
(* jobs and toggle started the next one.                                   *)
NoOrphanLocal ==
  ~unreliable => \A x \in Ids : sessions[x].at = Local /\ sessions[x].active => x = active

\* What a job refers to are its own sessions on sensors, and no local session is
\* left behind.
JobsInv == JobsTypeOK /\ NoOrphanLocal

OneJobOnly ==
  \A x, y \in Ids : {sessions[x].job, sessions[y].job} \subseteq Jobs => sessions[x].job = sessions[y].job

(* While sensors answer and no other job has been started, a job knows     *)
(* every session it has running on a sensor, also after pages or the       *)
(* window were loaded again, and none is left once it is deleted.          *)
RemoteKnown ==
  ~unreliable /\ OneJobOnly => \A x \in Ids : sessions[x].at \in Sensors /\ sessions[x].active =>
    sessions[x].job \in DOMAIN jobs /\ (x \in jobs[sessions[x].job].refs)

-----------------------------------------------------------------------------
(* What the documents say, and the code does not do.                       *)

(* README, "`Start`, `Pause`, and `Delete` can act on trusted remote       *)
(* sensors": a paused or deleted job has no session left on a sensor.      *)
PausedIsSilent ==
  task = NoTask => \A x \in Ids : sessions[x].at \in Sensors /\ sessions[x].active =>
    LET j == sessions[x].job IN j \in DOMAIN jobs /\ jobs[j].status # "Paused"

(* README, "live status in the Fleet page job list": of a local job that   *)
(* is shown as running the session is the one the window has.              *)
StatusIsLive ==
  task = NoTask => \A j \in DOMAIN jobs :
    jobs[j].status = "Running" /\ ~jobs[j].remote => active # 0
=============================================================================
