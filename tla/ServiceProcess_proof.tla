------------------------ MODULE ServiceProcess_proof ------------------------
(***************************************************************************)
(* Proofs about the process of the service: the order in which its threads *)
(* are started, joined and taken down, for any number of connections, and  *)
(* what a poll publishes of the machine's counters, for any devices, slots *)
(* and widths.                                                             *)
(***************************************************************************)
EXTENDS ServiceLifecycle, SensorPoll, Subsequences_proof

-----------------------------------------------------------------------------
(* The life cycle.                                                         *)

LifeTypes ==
  /\ stop \in BOOLEAN /\ stopEvent \in {"null", "unset", "set"}
  /\ pipePc \in {"none", "loop", "created", "waiting", "ending", "joining", "ended"}
  /\ offered \in SUBSET Conns /\ signalled \in BOOLEAN
  /\ client \in [Conns -> {"away", "open", "left", "dropped"}]
  /\ handler \in [Conns -> {"none", "started", "ended"}]
  /\ frames \subseteq Conns
  /\ mainPc \in {"start", "pipe_init", "report", "spawn", "join", "shutdown", "done"}
  /\ joined \in 0 .. 4 /\ (mainPc = "join" => joined < 4)
  /\ scm \in {"start_pending", "running", "paused", "stop_pending", "stopped"}
  /\ shm \in BOOLEAN /\ loop \in [Loops -> {"none", "running", "ended"}]
  /\ httpPc \in {"none", "starting", "listening", "deaf", "ended"} /\ httpStop \in BOOLEAN

\* One client at most is on the instance offered, and one that is connected is
\* on it or has a thread; none has once the pipe thread has ended.
PipeInv ==
  /\ \A c, d \in offered : c = d
  /\ offered # {} => pipePc \in {"created", "waiting"}
  /\ \A c \in Conns : client[c] = "open" => c \in offered \/ handler[c] = "started"
  /\ pipePc \in {"none", "ended"} => \A c \in Conns : handler[c] # "started"

\* No thread has been started.
Unstarted ==
  /\ pipePc = "none" /\ httpPc = "none" /\ loop["poll"] = "none" /\ loop["heartbeat"] = "none"

\* Where the main program is says which of the threads have ended.
MainInv ==
  /\ mainPc \in {"start", "pipe_init", "report", "spawn"} => Unstarted /\ joined = 0
  /\ mainPc \in {"start", "pipe_init", "report"} => scm = "start_pending"
  /\ scm = "stopped" <=> mainPc = "done"
  /\ shm <=> mainPc \notin {"start", "done"}
  /\ mainPc = "shutdown" => joined = 4
  /\ mainPc = "done" => Unstarted \/ joined = 4
  /\ joined > 0 => loop["poll"] = "ended"
  /\ joined > 1 => pipePc = "ended"
  /\ joined > 2 => httpPc = "ended"

LifeInv == LifeTypes /\ PipeInv /\ MainInv

LEMMA LifeInitial == Init => LifeInv
<1> SUFFICES ASSUME Init PROVE LifeInv
  OBVIOUS
<1>1. LifeTypes
  <2>1. stop \in BOOLEAN /\ signalled \in BOOLEAN /\ shm \in BOOLEAN /\ httpStop \in BOOLEAN
    BY Zenon DEF Init, PipeInit
  <2>2. QED
    BY <2>1 DEF Init, PipeInit, LifeTypes
<1>2. PipeInv
  BY DEF Init, PipeInit, PipeInv
<1>3. MainInv
  BY DEF Init, PipeInit, MainInv, Unstarted, Loops
<1>4. QED
  BY <1>1, <1>2, <1>3 DEF LifeInv

\* A step of the pipe or of its clients.
LEMMA PipeSteps ==
  ASSUME LifeInv, UNCHANGED <<mainVars, loop, httpPc, httpStop>>,
         PipeThread \/ \E c \in Conns : Handler(c) \/ Client(c)
  PROVE  LifeInv'
<1>1. LifeTypes /\ PipeInv /\ MainInv
  BY DEF LifeInv
<1>2. /\ UNCHANGED <<mainPc, joined, scm, shm, loop, httpPc, httpStop>>
  BY DEF mainVars
<1>3. ASSUME pipePc' = pipePc \/ (pipePc # "none" /\ pipePc # "ended"),
             pipePc' # "none" \/ pipePc = "none"
      PROVE  MainInv'
  BY <1>1, <1>2, <1>3 DEF MainInv, Unstarted, LifeTypes
<1>4. CASE CreateInstance \/ CreateInstanceFails \/ ConnectNamedPipe \/ EndLoop
  <2>1. /\ UNCHANGED <<stop, offered, signalled, client, handler, frames>>
        /\ stopEvent' \in {"null", "unset", "set"}
        /\ pipePc' = pipePc \/ (pipePc # "none" /\ pipePc # "ended")
        /\ pipePc' # "none" \/ pipePc = "none"
        /\ pipePc' \in {"none", "loop", "created", "waiting", "ending", "joining", "ended"}
        /\ offered # {} => pipePc' \in {"created", "waiting"}
        /\ pipePc' \in {"none", "ended"} => pipePc \in {"none", "ended"}
    BY <1>1, <1>4 DEF CreateInstance, CreateInstanceFails, ConnectNamedPipe, EndLoop, pipeVars,
                      EventAfterSet, LifeTypes, PipeInv
  <2>2. LifeTypes' /\ PipeInv'
    BY <1>1, <1>2, <2>1 DEF LifeTypes, PipeInv
  <2>3. QED
    BY <1>3, <2>1, <2>2 DEF LifeInv
<1>5. CASE Accept
  <2>1. /\ pipePc = "waiting" /\ pipePc' = "loop" /\ offered' = {} /\ signalled' = FALSE
        /\ UNCHANGED <<stop, stopEvent, client, frames>>
        /\ handler' = [c \in Conns |-> IF c \in offered THEN "started" ELSE handler[c]]
    BY <1>5 DEF Accept
  <2>2. /\ handler' \in [Conns -> {"none", "started", "ended"}]
        /\ signalled' \in BOOLEAN
    <3>1. handler' \in [Conns -> {"none", "started", "ended"}]
      BY <1>1, <2>1 DEF LifeTypes
    <3>2. signalled' \in BOOLEAN
      BY <2>1, Zenon
    <3>3. QED
      BY <3>1, <3>2
  <2>3. LifeTypes'
    BY <1>1, <1>2, <2>1, <2>2 DEF LifeTypes
  <2>4. PipeInv'
    BY <1>1, <2>1 DEF PipeInv, LifeTypes
  <2>5. QED
    BY <1>3, <2>1, <2>3, <2>4 DEF LifeInv
<1>6. CASE GiveUp
  <2>1. /\ pipePc = "waiting" /\ pipePc' = "ending" /\ offered' = {} /\ signalled' = FALSE
        /\ UNCHANGED <<stop, stopEvent, handler, frames>>
        /\ client' = [c \in Conns |->
                        IF c \in offered /\ client[c] = "open" THEN "dropped" ELSE client[c]]
    BY <1>6 DEF GiveUp
  <2>2. /\ client' \in [Conns -> {"away", "open", "left", "dropped"}]
        /\ signalled' \in BOOLEAN
    <3>1. client' \in [Conns -> {"away", "open", "left", "dropped"}]
      BY <1>1, <2>1 DEF LifeTypes
    <3>2. signalled' \in BOOLEAN
      BY <2>1, Zenon
    <3>3. QED
      BY <3>1, <3>2
  <2>3. LifeTypes'
    BY <1>1, <1>2, <2>1, <2>2 DEF LifeTypes
  <2>4. PipeInv'
    BY <1>1, <2>1 DEF PipeInv, LifeTypes
  <2>5. QED
    BY <1>3, <2>1, <2>3, <2>4 DEF LifeInv
<1>7. CASE Join
  <2>1. /\ pipePc = "joining" /\ pipePc' = "ended"
        /\ \A c \in Conns : handler[c] \in {"none", "ended"}
        /\ UNCHANGED <<stop, stopEvent, offered, signalled, client, handler, frames>>
    BY <1>7 DEF Join
  <2>2. LifeTypes' /\ PipeInv'
    BY <1>1, <1>2, <2>1 DEF LifeTypes, PipeInv
  <2>3. QED
    BY <1>3, <2>1, <2>2 DEF LifeInv
<1>8. ASSUME NEW c \in Conns, Handler(c) PROVE LifeInv'
  <2>1. CASE Push(c)
    <3>1. /\ UNCHANGED <<stop, stopEvent, pipePc, offered, signalled, client, handler>>
          /\ frames' \subseteq Conns
      BY <1>1, <2>1 DEF Push, LifeTypes
    <3>2. LifeTypes' /\ PipeInv'
      BY <1>1, <1>2, <3>1 DEF LifeTypes, PipeInv
    <3>3. QED
      BY <1>3, <3>1, <3>2 DEF LifeInv
  <2>2. CASE EndHandler(c)
    <3>1. /\ UNCHANGED <<stop, stopEvent, pipePc, offered, signalled, frames>>
          /\ handler' = [handler EXCEPT ![c] = "ended"]
          /\ client' = [client EXCEPT ![c] = IF @ = "open" THEN "dropped" ELSE @]
      BY <2>2 DEF EndHandler
    <3>2. LifeTypes' /\ PipeInv'
      BY <1>1, <1>2, <3>1 DEF LifeTypes, PipeInv
    <3>3. QED
      BY <1>3, <3>1, <3>2 DEF LifeInv
  <2>3. QED
    BY <1>8, <2>1, <2>2 DEF Handler
<1>9. ASSUME NEW c \in Conns, Client(c) PROVE LifeInv'
  <2>1. CASE Connect(c)
    <3>1. /\ UNCHANGED <<stop, stopEvent, pipePc, handler, frames>>
          /\ pipePc \in {"created", "waiting"} /\ offered' = {c} /\ signalled' \in BOOLEAN
          /\ client' = [client EXCEPT ![c] = "open"] /\ offered = {}
      BY <2>1 DEF Connect, Listening
    <3>2. LifeTypes' /\ PipeInv'
      BY <1>1, <1>2, <3>1 DEF LifeTypes, PipeInv
    <3>3. QED
      BY <1>3, <3>1, <3>2 DEF LifeInv
  <2>2. CASE Leave(c)
    <3>1. /\ UNCHANGED <<stop, stopEvent, pipePc, offered, signalled, handler, frames>>
          /\ client' = [client EXCEPT ![c] = "left"]
      BY <2>2 DEF Leave
    <3>2. LifeTypes' /\ PipeInv'
      BY <1>1, <1>2, <3>1 DEF LifeTypes, PipeInv
    <3>3. QED
      BY <1>3, <3>1, <3>2 DEF LifeInv
  <2>3. QED
    BY <1>9, <2>1, <2>2 DEF Client
<1>10. QED
  BY <1>4, <1>5, <1>6, <1>7, <1>8, <1>9 DEF PipeThread

\* The main program joins the threads in their order.
LEMMA JoinSteps == ASSUME LifeInv, JoinThread PROVE LifeInv'
<1>1. LifeTypes /\ PipeInv /\ MainInv
  BY DEF LifeInv
<1>2. /\ mainPc = "join" /\ joined \in 0 .. 3 /\ joined' = joined + 1
      /\ mainPc' = IF joined' = 4 THEN "shutdown" ELSE "join"
      /\ UNCHANGED <<stop, stopEvent, pipePc, offered, signalled, client, handler, frames,
                     scm, shm, loop, httpPc, httpStop>>
  BY <1>1 DEF JoinThread, JoinOrder, LifeTypes, pipeVars
<1>3. /\ joined = 0 => loop["poll"] = "ended"
      /\ joined = 1 => pipePc = "ended"
      /\ joined = 2 => httpPc = "ended"
  <2>1. Ended(JoinOrder[joined + 1])
    BY DEF JoinThread
  <2>2. JoinOrder[1] = "poll" /\ JoinOrder[2] = "pipe" /\ JoinOrder[3] = "http"
    BY DEF JoinOrder
  <2>3. /\ Ended("poll") => loop["poll"] = "ended"
        /\ Ended("pipe") => pipePc = "ended"
        /\ Ended("http") => httpPc = "ended"
    BY DEF Ended, Loops
  <2>4. QED
    BY <1>2, <2>1, <2>2, <2>3
<1>4. LifeTypes' /\ PipeInv'
  BY <1>1, <1>2 DEF LifeTypes, PipeInv
<1>5. MainInv'
  BY <1>1, <1>2, <1>3 DEF MainInv, Unstarted
<1>6. QED
  BY <1>4, <1>5 DEF LifeInv

LEMMA MainSteps == ASSUME LifeInv, MainThread PROVE LifeInv'
<1>1. LifeTypes /\ PipeInv /\ MainInv
  BY DEF LifeInv
<1>2. CASE InitSubsystems \/ ReportRunning
  <2>1. /\ UNCHANGED <<stop, stopEvent, pipePc, offered, signalled, client, handler, frames,
                       joined, loop, httpPc, httpStop>>
    BY <1>2 DEF InitSubsystems, ReportRunning, pipeVars
  <2>2. \/ mainPc = "start" /\ mainPc' = "pipe_init" /\ shm' = TRUE /\ scm' = scm
        \/ mainPc = "start" /\ mainPc' = "done" /\ scm' = "stopped" /\ shm' = shm
        \/ mainPc = "report" /\ mainPc' = "spawn" /\ scm' = "running" /\ shm' = shm
    BY <1>2 DEF InitSubsystems, ReportRunning
  <2>3. LifeTypes'
    <3>1. shm \in BOOLEAN
      BY <1>1 DEF LifeTypes
    <3>2. shm' \in BOOLEAN
      BY <2>2, <3>1, Zenon
    <3>3. QED
      BY <1>1, <2>1, <2>2, <3>2 DEF LifeTypes
  <2>4. PipeInv'
    BY <1>1, <2>1 DEF PipeInv
  <2>5. MainInv'
    BY <1>1, <2>1, <2>2 DEF MainInv, Unstarted
  <2>6. QED
    BY <2>3, <2>4, <2>5 DEF LifeInv
<1>3. CASE InitPipe
  <2>1. /\ UNCHANGED <<stop, pipePc, offered, signalled, client, handler, frames,
                       joined, scm, shm, loop, httpPc, httpStop>>
        /\ stopEvent' \in {"null", "unset"} /\ mainPc = "pipe_init" /\ mainPc' = "report"
    BY <1>3 DEF InitPipe, PipeServerInit
  <2>2. LifeTypes' /\ PipeInv'
    BY <1>1, <2>1 DEF LifeTypes, PipeInv
  <2>3. MainInv'
    BY <1>1, <2>1 DEF MainInv, Unstarted
  <2>4. QED
    BY <2>2, <2>3 DEF LifeInv
<1>4. CASE SpawnThreads
  <2>1. /\ UNCHANGED <<stop, stopEvent, offered, signalled, client, handler, frames,
                       joined, scm, shm, httpStop>>
        /\ mainPc = "spawn" /\ mainPc' = "join" /\ pipePc' = "loop" /\ httpPc' = "starting"
        /\ loop' = [t \in Loops |-> "running"]
    BY <1>4 DEF SpawnThreads
  <2>2. pipePc = "none" /\ joined = 0
    BY <1>1, <2>1 DEF MainInv, Unstarted
  <2>3. LifeTypes' /\ PipeInv'
    BY <1>1, <2>1, <2>2 DEF LifeTypes, PipeInv
  <2>4. MainInv'
    BY <1>1, <2>1, <2>2 DEF MainInv
  <2>5. QED
    BY <2>3, <2>4 DEF LifeInv
<1>5. CASE Shutdown
  <2>1. /\ UNCHANGED <<stop, pipePc, offered, signalled, client, handler, frames,
                       joined, loop, httpPc, httpStop>>
        /\ mainPc = "shutdown" /\ mainPc' = "done" /\ shm' = FALSE /\ stopEvent' = "null"
        /\ scm' = "stopped"
    BY <1>5 DEF Shutdown
  <2>2. LifeTypes' /\ PipeInv'
    BY <1>1, <2>1 DEF LifeTypes, PipeInv
  <2>3. MainInv'
    BY <1>1, <2>1 DEF MainInv, Unstarted
  <2>4. QED
    BY <2>2, <2>3 DEF LifeInv
<1>6. QED
  BY <1>2, <1>3, <1>4, <1>5, JoinSteps DEF MainThread

\* The service control manager and the threads besides the pipe's.
LEMMA OtherSteps ==
  ASSUME LifeInv, CtrlPause \/ CtrlStop \/ StopHttp \/ HttpThread \/ \E t \in Loops : EndOfLoop(t)
  PROVE  LifeInv'
<1>1. LifeTypes /\ PipeInv /\ MainInv
  BY DEF LifeInv
<1>2. CASE CtrlPause \/ CtrlStop
  <2>1. /\ UNCHANGED <<stopEvent, pipePc, offered, signalled, client, handler, frames,
                       mainPc, joined, shm, loop, httpPc, httpStop>>
        /\ stop' \in BOOLEAN /\ scm \in {"running", "paused"}
        /\ scm' \in {"running", "paused", "stop_pending"}
    BY <1>1, <1>2 DEF CtrlPause, CtrlStop, pipeVars, LifeTypes
  <2>2. LifeTypes' /\ PipeInv'
    BY <1>1, <2>1 DEF LifeTypes, PipeInv
  <2>3. MainInv'
    BY <1>1, <2>1 DEF MainInv, Unstarted
  <2>4. QED
    BY <2>2, <2>3 DEF LifeInv
<1>3. CASE StopHttp \/ HttpThread
  <2>1. /\ UNCHANGED <<stop, stopEvent, pipePc, offered, signalled, client, handler, frames,
                       mainPc, joined, scm, shm, loop>>
        /\ httpPc' \in {"starting", "listening", "deaf", "ended"} /\ httpStop' \in BOOLEAN
        /\ httpPc # "none" /\ (httpPc = "ended" => httpPc' = "ended")
    BY <1>1, <1>3 DEF StopHttp, HttpThread, Listen, EndHttp, pipeVars, mainVars, LifeTypes
  <2>2. LifeTypes' /\ PipeInv'
    BY <1>1, <2>1 DEF LifeTypes, PipeInv
  <2>3. MainInv'
    BY <1>1, <2>1 DEF MainInv, Unstarted
  <2>4. QED
    BY <2>2, <2>3 DEF LifeInv
<1>4. CASE \E t \in Loops : EndOfLoop(t)
  <2>1. PICK t \in Loops : EndOfLoop(t)
    BY <1>4
  <2>2. /\ UNCHANGED <<stop, stopEvent, pipePc, offered, signalled, client, handler, frames,
                       mainPc, joined, scm, shm, httpPc, httpStop>>
        /\ loop[t] = "running" /\ loop' = [loop EXCEPT ![t] = "ended"]
    BY <2>1 DEF EndOfLoop, pipeVars, mainVars
  <2>3. LifeTypes' /\ PipeInv'
    BY <1>1, <2>2 DEF LifeTypes, PipeInv
  <2>4. MainInv'
    BY <1>1, <2>2 DEF MainInv, Unstarted, LifeTypes, Loops
  <2>5. QED
    BY <2>3, <2>4 DEF LifeInv
<1>5. QED
  BY <1>2, <1>3, <1>4

LEMMA LifeSteps == LifeInv /\ [Next]_vars => LifeInv'
<1> SUFFICES ASSUME LifeInv, [Next]_vars PROVE LifeInv'
  OBVIOUS
<1>1. CASE Pipe(PipeThread) \/ \E c \in Conns : Pipe(Handler(c)) \/ Pipe(Client(c))
  BY <1>1, PipeSteps DEF Pipe
<1>2. CASE MainThread
  BY <1>2, MainSteps
<1>3. CASE CtrlPause \/ CtrlStop \/ StopHttp \/ HttpThread \/ \E t \in Loops : EndOfLoop(t)
  BY <1>3, OtherSteps
<1>4. CASE UNCHANGED vars
  BY <1>4 DEF vars, pipeVars, mainVars, LifeInv, LifeTypes, PipeInv, MainInv, Unstarted
<1>5. QED
  BY <1>1, <1>2, <1>3, <1>4 DEF Next, Finished

LEMMA LifeInvariant == Spec => []LifeInv
BY LifeInitial, LifeSteps, PTL DEF Spec

\* The block is unmapped and the event closed after the last thread that uses
\* them, the clients' own threads included, whenever the stop comes and however
\* many are connected (service/main.cpp).
THEOREM ThreadsEndFirst == Spec => []LifecycleInv
<1>1. ASSUME LifeInv PROVE LifecycleInv
  <2>1. LifeTypes /\ PipeInv /\ MainInv
    BY <1>1 DEF LifeInv
  <2>2. IsFiniteSet(offered) /\ Cardinality(offered) <= 1
    <3>1. CASE offered = {}
      BY <3>1, FS_EmptySet
    <3>2. CASE offered # {}
      <4>1. PICK c : offered = {c}
        BY <2>1, <3>2 DEF PipeInv
      <4>2. IsFiniteSet({c}) /\ Cardinality({c}) = 1
        BY FS_Singleton
      <4>3. QED
        BY <4>1, <4>2
    <3>3. QED
      BY <3>1, <3>2
  <2>3. TypeOK
    BY <2>1, <2>2 DEF LifeTypes, TypeOK, JoinOrder
  <2>4. NoUseAfterShutdown
    BY <2>1 DEF NoUseAfterShutdown, MainInv, PipeInv, Unstarted, LifeTypes
  <2>5. QED
    BY <2>3, <2>4 DEF LifecycleInv
<1>2. QED
  BY <1>1, LifeInvariant, PTL

\* When the service has stopped every client has been disconnected, the one
\* included that connected as the pipe thread gave up (ipc/pipe_server.cpp).
THEOREM ClientsAreLetGo == Spec => []NoClientLeftOpen
<1>1. LifeInv => NoClientLeftOpen
  BY DEF LifeInv, MainInv, PipeInv, Unstarted, NoClientLeftOpen, LifeTypes
<1>2. QED
  BY <1>1, LifeInvariant, PTL

-----------------------------------------------------------------------------
(* The sensors.                                                            *)

\* The remainder of a difference that leaves 0 .. w - 1 by one width at most.
LEMMA Wrapped ==
  ASSUME NEW x \in Int, NEW w \in Nat \ {0}
  PROVE  /\ 0 <= x /\ x < w => x % w = x
         /\ w <= x /\ x < 2 * w => x % w = x - w
         /\ -w <= x /\ x < 0 => x % w = x + w
<1>1. x = w * (x \div w) + (x % w) /\ x % w \in 0 .. w - 1 /\ x \div w \in Int
  OBVIOUS
<1>2. PICK q, r : q = x \div w /\ r = x % w
  OBVIOUS
<1>3. q \in Int /\ r \in 0 .. w - 1 /\ x = w * q + r
  BY <1>1, <1>2
<1>4. ASSUME 0 <= x, x < w PROVE q = 0
  <2>1. q >= 1 => w * q >= w
    BY <1>3
  <2>2. q <= -1 => w * q <= -w
    BY <1>3
  <2>3. QED
    BY <1>3, <1>4, <2>1, <2>2
<1>5. ASSUME w <= x, x < 2 * w PROVE q = 1
  <2>1. q >= 2 => w * q >= 2 * w
    BY <1>3
  <2>2. q <= 0 => w * q <= 0
    BY <1>3
  <2>3. QED
    BY <1>3, <1>5, <2>1, <2>2
<1>6. ASSUME -w <= x, x < 0 PROVE q = -1
  <2>1. q >= 0 => w * q >= 0
    BY <1>3
  <2>2. q <= -2 => w * q <= -2 * w
    BY <1>3
  <2>3. QED
    BY <1>3, <1>6, <2>1, <2>2
<1>7. QED
  BY <1>2, <1>3, <1>4, <1>5, <1>6

Bounds ==
  /\ Mod \in Nat /\ Mod \div 2 \in Nat /\ Mod = 2 * (Mod \div 2) /\ Mod >= 2
  /\ \A d \in Devices : WidthOf(d) \in 1 .. Mod /\ MaxMoved(d) \in Nat /\ MaxMoved(d) < WidthOf(d)

LEMMA BoundsHold == Bounds
<1>1. PICK h : h = Mod \div 2
  OBVIOUS
<1>2. Mod \in Nat /\ Mod >= 1 /\ Mod % 2 = 0 /\ Narrow \in 1 .. Mod
  BY SensorAssumption
<1>3. h \in Int /\ Mod = 2 * h + (Mod % 2)
  BY <1>1, <1>2
<1>4. h \in Nat /\ Mod = 2 * h /\ Mod >= 2
  BY <1>2, <1>3
<1>5. ASSUME NEW d \in Devices
      PROVE  WidthOf(d) \in 1 .. Mod /\ MaxMoved(d) \in Nat /\ MaxMoved(d) < WidthOf(d)
  <2>1. d \in Drives => d # Faults
    BY SensorAssumption
  <2>2. QED
    BY <1>1, <1>2, <1>4, <2>1 DEF WidthOf, MaxMoved
<1>6. QED
  BY <1>1, <1>4, <1>5 DEF Bounds

\* A counter stands where its sample and what has moved since put it, unless it
\* has started again; before the first sample nothing is owed.
Account(d) ==
  /\ raw[d] \in 0 .. WidthOf(d) - 1 /\ owed[d] \in 0 .. MaxMoved(d)
  /\ prev[d] \in 0 .. WidthOf(d) - 1 \cup {None}
  /\ ~HasSample(d) => owed[d] = 0
  /\ HasSample(d) /\ clean[d] =>
       /\ raw[d] = IF prev[d] + owed[d] < WidthOf(d) THEN prev[d] + owed[d]
                   ELSE prev[d] + owed[d] - WidthOf(d)
       /\ d = Faults => prev[d] + owed[d] < WidthOf(d)

LEMMA RateIsOwed ==
  ASSUME NEW d \in Devices, Account(d), clean[d]
  PROVE  Rate(d) = owed[d]
<1>1. /\ Mod \in Nat /\ Mod \div 2 \in Nat /\ Mod = 2 * (Mod \div 2) /\ Mod >= 2
      /\ WidthOf(d) \in 1 .. Mod /\ MaxMoved(d) \in Nat /\ MaxMoved(d) < WidthOf(d)
  BY BoundsHold DEF Bounds
<1>2. PICK h : h = Mod \div 2
  OBVIOUS
<1>3. PICK x : x = raw[d] - (IF HasSample(d) THEN prev[d] ELSE raw[d])
  OBVIOUS
<1>4. PICK o : o = owed[d]
  OBVIOUS
<1>5. o \in Nat /\ o <= MaxMoved(d) /\ h \in Nat /\ Mod = 2 * h
  BY <1>1, <1>2, <1>4 DEF Account
<1>6. x \in Int /\ (x = o \/ (x = o - WidthOf(d) /\ d # Faults))
  <2>1. CASE HasSample(d)
    <3>1. prev[d] \in 0 .. WidthOf(d) - 1
      BY <2>1 DEF HasSample, Account
    <3>2. QED
      BY <1>1, <1>3, <1>4, <2>1, <3>1 DEF Account
  <2>2. CASE ~HasSample(d)
    BY <1>1, <1>3, <1>4, <2>2 DEF Account
  <2>3. QED
    BY <2>1, <2>2
<1>7. d # Faults => WidthOf(d) = Mod
  BY DEF WidthOf
<1>8. x = o \/ x = o - Mod
  BY <1>6, <1>7
<1>9. CASE d \in Drives
  <2>1. o <= h - 1
    BY <1>2, <1>5, <1>9 DEF MaxMoved
  <2>2. (x + h) % Mod = o + h
    <3>1. PICK y : y = x + h
      OBVIOUS
    <3>2. y \in Int /\ Mod \in Nat \ {0}
      BY <1>1, <1>5, <1>6, <3>1
    <3>3. /\ 0 <= y /\ y < Mod => y % Mod = y
          /\ -Mod <= y /\ y < 0 => y % Mod = y + Mod
      BY <3>2, Wrapped
    <3>4. QED
      BY <1>5, <1>8, <2>1, <3>1, <3>2, <3>3
  <2>3. Rate(d) = ((x + h) % Mod) - h
    BY <1>2, <1>3, <1>9 DEF Rate, Signed
  <2>4. QED
    BY <1>4, <1>5, <2>2, <2>3
<1>10. CASE d \notin Drives
  <2>1. x % Mod = o
    <3>1. Mod \in Nat \ {0} /\ o < Mod
      BY <1>1, <1>5
    <3>2. /\ 0 <= x /\ x < Mod => x % Mod = x
          /\ -Mod <= x /\ x < 0 => x % Mod = x + Mod
      BY <1>6, <3>1, Wrapped
    <3>3. QED
      BY <1>5, <1>8, <3>1, <3>2
  <2>2. Rate(d) = x % Mod
    BY <1>3, <1>10 DEF Rate, Unsigned
  <2>3. QED
    BY <1>4, <2>1, <2>2
<1>11. QED
  BY <1>9, <1>10

Fair(s) == s.clean => s.rate = s.due

MachineTypes ==
  /\ raw \in [Devices -> 0 .. Mod - 1] /\ owed \in [Devices -> 0 .. Mod - 1]
  /\ present \subseteq Devices /\ clean \in [Devices -> BOOLEAN]
  /\ prev \in [Devices -> 0 .. Mod - 1 \cup {None}]

\* What the slots of the block hold, by slot.
BlockInv ==
  /\ DOMAIN block.disk = 0 .. DriveSlots - 1 /\ DOMAIN block.nic = 0 .. NicSlots - 1
  /\ \A k \in DOMAIN block.disk : Fair(block.disk[k])
  /\ \A k \in DOMAIN block.nic : Fair(block.nic[k])
  /\ Fair(block.faults)
  /\ SlotIsDrive /\ ActiveIsThisPoll
  /\ block.failed \subseteq {"VC-01", "VC-02", "VC-03", "VC-04", "VC-07",
                             "VC-08", "VC-09", "VC-10"}

SensorIInv == MachineTypes /\ (\A d \in Devices : Account(d)) /\ BlockInv

LEMMA SensorInitial == SensorInit => SensorIInv
<1> SUFFICES ASSUME SensorInit PROVE SensorIInv
  OBVIOUS
<1>1. Bounds
  BY BoundsHold
<1>2. MachineTypes
  BY <1>1 DEF SensorInit, MachineTypes, Bounds
<1>3. ASSUME NEW d \in Devices PROVE Account(d)
  <2>1. WidthOf(d) \in 1 .. Mod /\ MaxMoved(d) \in Nat
    BY <1>1 DEF Bounds
  <2>2. /\ raw[d] = WidthOf(d) - 1 /\ owed[d] = 0
        /\ prev[d] = IF d = Faults THEN None ELSE raw[d]
    BY DEF SensorInit
  <2>3. QED
    BY <2>1, <2>2 DEF Account, HasSample
<1>4. BlockInv
  <2>1. /\ block.disk = [k \in 0 .. DriveSlots - 1 |-> NoSample]
        /\ block.nic = [k \in 0 .. NicSlots - 1 |-> NoSample]
        /\ block.faults = NoSample /\ block.gpus = <<>> /\ block.failed = {}
        /\ block.active_disk_count = 0 /\ block.active_nic_count = 0
    BY DEF SensorInit
  <2>2. Fair(NoSample) /\ NoSample.dev = None /\ NoSample.fresh = FALSE
    BY DEF Fair, NoSample
  <2>3. SlotIsDrive
    BY <2>1, <2>2 DEF SlotIsDrive
  <2>4. ActiveIsThisPoll
    BY <2>1, <2>2, SensorAssumption DEF ActiveIsThisPoll
  <2>5. QED
    BY <2>1, <2>2, <2>3, <2>4 DEF BlockInv
<1>5. QED
  BY <1>2, <1>3, <1>4 DEF SensorIInv

\* The machine between two polls.
LEMMA MachineKeeps ==
  ASSUME SensorIInv,
         \/ \E d \in Devices : \E n \in 1 .. Mod - 1 : Moves(d, n)
         \/ \E d \in Devices : CounterRestarts(d) \/ PlugChanges(d)
  PROVE  SensorIInv'
<1>1. Bounds /\ MachineTypes /\ (\A d \in Devices : Account(d)) /\ BlockInv
  BY BoundsHold DEF SensorIInv
<1>2. UNCHANGED block => BlockInv'
  BY <1>1 DEF BlockInv, SlotIsDrive, ActiveIsThisPoll
<1>3. ASSUME NEW d \in Devices, NEW n \in 1 .. Mod - 1, Moves(d, n) PROVE SensorIInv'
  <2>1. /\ raw' = [raw EXCEPT ![d] = (@ + n) % WidthOf(d)]
        /\ owed' = [owed EXCEPT ![d] = IF HasSample(d) THEN @ + n ELSE 0]
        /\ clean' = [clean EXCEPT ![d] = @ /\ (d # Faults \/ raw[d] + n < Narrow)]
        /\ owed[d] + n <= MaxMoved(d) /\ UNCHANGED <<present, prev, block>>
    BY <1>3 DEF Moves
  <2>2. PICK w, m : w = WidthOf(d) /\ m = MaxMoved(d)
    OBVIOUS
  <2>3. w \in 1 .. Mod /\ w \in Nat \ {0} /\ Mod \in Nat /\ m \in Nat /\ m < w /\ n \in Nat
    BY <1>1, <2>2 DEF Bounds
  <2>4. PICK r, o, c : r = raw[d] /\ o = owed[d] /\ c = clean[d]
    OBVIOUS
  <2>5. r \in 0 .. w - 1 /\ o \in 0 .. m /\ o + n <= m /\ c \in BOOLEAN
    BY <1>1, <2>1, <2>2, <2>4 DEF Account, MachineTypes
  <2>6. PICK r1 : r1 = (r + n) % w
    OBVIOUS
  <2>7. r1 = (IF r + n < w THEN r + n ELSE r + n - w) /\ r1 \in 0 .. w - 1
    <3>1. PICK y : y = r + n
      OBVIOUS
    <3>2. y \in Int /\ 0 <= y /\ y < 2 * w
      BY <2>3, <2>5, <3>1
    <3>3. /\ 0 <= y /\ y < w => y % w = y
          /\ w <= y /\ y < 2 * w => y % w = y - w
      BY <2>3, <3>2, Wrapped
    <3>4. QED
      BY <2>3, <2>5, <2>6, <3>1, <3>2, <3>3
  <2>8. PICK o1 : o1 = IF HasSample(d) THEN o + n ELSE 0
    OBVIOUS
  <2>9. PICK c1 \in BOOLEAN : c1 = (c /\ (d # Faults \/ r + n < Narrow))
    OBVIOUS
  <2>10. raw' = [raw EXCEPT ![d] = r1] /\ owed' = [owed EXCEPT ![d] = o1] /\ clean' = [clean EXCEPT ![d] = c1]
    BY <2>1, <2>2, <2>4, <2>6, <2>8, <2>9
  <2>11. r1 \in 0 .. Mod - 1 /\ o1 \in 0 .. m /\ o1 \in 0 .. Mod - 1
    BY <2>3, <2>5, <2>7, <2>8
  <2>12. MachineTypes'
    BY <1>1, <2>1, <2>10, <2>11 DEF MachineTypes
  <2>13. raw'[d] = r1 /\ owed'[d] = o1 /\ clean'[d] = c1 /\ prev' = prev
         /\ \A e \in Devices \ {d} : raw'[e] = raw[e] /\ owed'[e] = owed[e] /\ clean'[e] = clean[e]
    BY <1>1, <2>1, <2>10 DEF MachineTypes
  <2>14. \A e \in Devices : HasSample(e)' <=> HasSample(e)
    BY <2>1 DEF HasSample
  <2>15. Account(d)'
    <3>1. ASSUME HasSample(d), c1
          PROVE  /\ r1 = IF prev[d] + o1 < w THEN prev[d] + o1 ELSE prev[d] + o1 - w
                 /\ d = Faults => prev[d] + o1 < w
      <4>1. /\ prev[d] \in 0 .. w - 1 /\ o1 = o + n /\ c
            /\ r = IF prev[d] + o < w THEN prev[d] + o ELSE prev[d] + o - w
            /\ d = Faults => prev[d] + o < w
        BY <1>1, <2>2, <2>4, <2>8, <2>9, <3>1 DEF Account, HasSample
      <4>2. d = Faults => w = Narrow /\ r + n < w
        BY <2>2, <2>9, <3>1 DEF WidthOf
      <4>3. PICK q : q = prev[d]
        OBVIOUS
      <4>4. q + o1 < 2 * w
        BY <2>3, <2>5, <4>1, <4>3
      <4>5. r1 = IF q + o1 < w THEN q + o1 ELSE q + o1 - w
        BY <2>3, <2>5, <2>7, <4>1, <4>3, <4>4
      <4>6. d = Faults => q + o1 < w
        BY <2>3, <2>5, <4>1, <4>2, <4>3
      <4>7. QED
        BY <4>3, <4>5, <4>6
    <3>2. prev[d] \in 0 .. w - 1 \cup {None}
      BY <1>1, <2>2 DEF Account
    <3>3. ~HasSample(d) => o1 = 0
      BY <2>8
    <3>4. QED
      BY <2>2, <2>7, <2>11, <2>13, <2>14, <3>1, <3>2, <3>3 DEF Account
  <2>16. ASSUME NEW e \in Devices \ {d} PROVE Account(e)'
    BY <1>1, <2>13, <2>14 DEF Account
  <2>17. QED
    BY <1>2, <2>1, <2>12, <2>15, <2>16 DEF SensorIInv
<1>4. ASSUME NEW d \in Devices, CounterRestarts(d) PROVE SensorIInv'
  <2>1. PICK c1 \in BOOLEAN :
          /\ raw' = [raw EXCEPT ![d] = 0] /\ owed' = [owed EXCEPT ![d] = 0]
          /\ clean' = [clean EXCEPT ![d] = c1] /\ c1 = ~HasSample(d)
          /\ UNCHANGED <<present, prev, block>>
    BY <1>4 DEF CounterRestarts
  <2>2. 0 \in 0 .. Mod - 1 /\ WidthOf(d) \in 1 .. Mod /\ MaxMoved(d) \in Nat
    BY <1>1 DEF Bounds
  <2>3. MachineTypes'
    BY <1>1, <2>1, <2>2 DEF MachineTypes
  <2>4. raw'[d] = 0 /\ owed'[d] = 0 /\ clean'[d] = c1 /\ prev' = prev
        /\ \A e \in Devices \ {d} : raw'[e] = raw[e] /\ owed'[e] = owed[e] /\ clean'[e] = clean[e]
    BY <1>1, <2>1 DEF MachineTypes
  <2>5. \A e \in Devices : HasSample(e)' <=> HasSample(e)
    BY <2>1 DEF HasSample
  <2>6. Account(d)'
    <3>1. ~(HasSample(d)' /\ clean'[d])
      BY <2>1, <2>4, <2>5, Zenon
    <3>2. prev'[d] \in 0 .. WidthOf(d) - 1 \cup {None}
      BY <1>1, <2>4 DEF Account
    <3>3. QED
      BY <2>2, <2>4, <3>1, <3>2 DEF Account
  <2>7. ASSUME NEW e \in Devices \ {d} PROVE Account(e)'
    BY <1>1, <2>4, <2>5 DEF Account
  <2>8. QED
    BY <1>2, <2>1, <2>3, <2>6, <2>7 DEF SensorIInv
<1>5. ASSUME NEW d \in Devices, PlugChanges(d) PROVE SensorIInv'
  <2>1. present' \subseteq Devices /\ UNCHANGED <<raw, owed, clean, prev, block>>
    BY <1>1, <1>5 DEF PlugChanges, MachineTypes
  <2>2. MachineTypes'
    BY <1>1, <2>1 DEF MachineTypes
  <2>3. ASSUME NEW e \in Devices PROVE Account(e)'
    BY <1>1, <2>1 DEF Account, HasSample
  <2>4. QED
    BY <1>2, <2>1, <2>2, <2>3 DEF SensorIInv
<1>6. QED
  BY <1>3, <1>4, <1>5

\* A table of the block after a poll.
LEMMA PublishedFacts ==
  ASSUME NEW slots, NEW list, NEW p, p = Published(slots, list),
         \A k \in DOMAIN slots : k < Len(list) => list[k + 1] \in Devices,
         \A d \in Devices : Account(d)
  PROVE  /\ DOMAIN p = DOMAIN slots
         /\ \A k \in DOMAIN p :
              /\ Fair(p[k])
              /\ p[k].fresh <=> k < Len(list)
              /\ p[k].dev = IF k < Len(list) THEN list[k + 1] ELSE slots[k].dev
<1>1. DOMAIN p = DOMAIN slots
  BY DEF Published
<1>2. ASSUME NEW k \in DOMAIN p
      PROVE  /\ Fair(p[k])
             /\ p[k].fresh <=> k < Len(list)
             /\ p[k].dev = IF k < Len(list) THEN list[k + 1] ELSE slots[k].dev
  <2>1. CASE k < Len(list)
    <3>1. PICK d \in Devices : d = list[k + 1]
      BY <1>1, <2>1
    <3>2. p[k] = [dev |-> d, rate |-> Rate(d), due |-> owed[d], clean |-> clean[d], fresh |-> TRUE]
      BY <1>1, <2>1, <3>1 DEF Published, Sample
    <3>3. clean[d] => Rate(d) = owed[d]
      BY RateIsOwed
    <3>4. QED
      BY <2>1, <3>1, <3>2, <3>3 DEF Fair
  <2>2. CASE ~(k < Len(list))
    <3>1. p[k] = [NoSample EXCEPT !.dev = slots[k].dev]
      BY <1>1, <2>2 DEF Published
    <3>2. p[k] = [dev |-> slots[k].dev, rate |-> 0, due |-> 0, clean |-> TRUE, fresh |-> FALSE]
      BY <3>1 DEF NoSample
    <3>3. QED
      BY <2>2, <3>2 DEF Fair
  <2>3. QED
    BY <2>1, <2>2
<1>3. QED
  BY <1>1, <1>2

\* The drives of a poll are numbered as in their list, the adapters are listed
\* once.
LEMMA ListFacts ==
  /\ \A l \in DriveList : /\ Len(l) \in Nat
                          /\ \A i \in 1 .. Len(l) : l[i] \in Drives /\ l[i] = i - 1
  /\ \A l \in NicList \cup {<<>>} :
       /\ Len(l) \in Nat /\ (\A i \in 1 .. Len(l) : l[i] \in Nics)
       /\ \A i, j \in 1 .. Len(l) : i # j => l[i] # l[j]
<1>1. ASSUME NEW l \in DriveList
      PROVE  Len(l) \in Nat /\ (\A i \in 1 .. Len(l) : l[i] \in Drives /\ l[i] = i - 1)
  <2>1. PICK n \in 0 .. MaxDrives : l = [k \in 1 .. n |-> k - 1]
    BY DEF DriveList
  <2>2. Len(l) = n /\ n \in Nat
    BY <2>1, SensorAssumption
  <2>3. QED
    BY <2>1, <2>2, SensorAssumption DEF Drives
<1>2. ASSUME NEW l \in NicList
      PROVE  /\ Len(l) \in Nat /\ (\A i \in 1 .. Len(l) : l[i] \in Nics)
             /\ \A i, j \in 1 .. Len(l) : i # j => l[i] # l[j]
  <2>1. PICK P : P = {i \in DOMAIN NicTable : NicTable[i] \in present}
    OBVIOUS
  <2>2. NicTable \in Seq(Nics) /\ P \in SUBSET DOMAIN NicTable /\ l \in Kept(NicTable, P)
    BY <2>1, SensorAssumption DEF NicList
  <2>3. /\ l \in Seq(Nics)
        /\ \A i, j \in DOMAIN l : i # j => \E k, m \in P : k # m /\ l[i] = NicTable[k] /\ l[j] = NicTable[m]
    BY <2>2, KeptFacts
  <2>4. DOMAIN l = 1 .. Len(l) /\ Len(l) \in Nat /\ (\A i \in 1 .. Len(l) : l[i] \in Nics)
    BY <2>3
  <2>5. \A k, m \in P : k # m => NicTable[k] # NicTable[m]
    BY <2>2, SensorAssumption
  <2>6. QED
    BY <2>3, <2>4, <2>5
<1>3. QED
  BY <1>1, <1>2

\* The libraries number on.
Cards   == {Gpus[i] : i \in 1 .. Len(Gpus)}
Entries == [gpu : Cards, index : Int]
Numbered(l) == l \in Seq(Entries) /\ \A i \in 1 .. Len(l) : l[i].index = i - 1

LEMMA AppendedFacts ==
  ASSUME NEW l, Numbered(l), NEW v, NEW silent, NEW r \in AppendGpus(l, v, silent)
  PROVE  Numbered(r)
<1>1. PICK P : P = {i \in DOMAIN Gpus : Gpus[i].vendor = v /\ Gpus[i].name \notin silent}
  OBVIOUS
<1>2. PICK own \in Kept(Gpus, P) :
        r = l \o [i \in 1 .. Len(own) |-> [gpu |-> own[i], index |-> Len(l) + i - 1]]
  BY <1>1 DEF AppendGpus
<1>3. Gpus \in Seq(Cards) /\ P \in SUBSET DOMAIN Gpus
  BY <1>1, SensorAssumption DEF Cards
<1>4. own \in Seq(Cards) /\ l \in Seq(Entries)
  BY <1>2, <1>3, KeptFacts DEF Numbered
<1>5. PICK b : b = [i \in 1 .. Len(own) |-> [gpu |-> own[i], index |-> Len(l) + i - 1]]
  OBVIOUS
<1>6. Len(l) \in Nat /\ Len(own) \in Nat /\ (\A i \in 1 .. Len(own) : own[i] \in Cards)
  BY <1>4
<1>7. b \in Seq(Entries) /\ DOMAIN b = 1 .. Len(own)
      /\ \A i \in DOMAIN b : b[i].index = Len(l) + i - 1
  <2>1. \A i \in 1 .. Len(own) : b[i] \in Entries /\ b[i].index = Len(l) + i - 1
    BY <1>5, <1>6 DEF Entries
  <2>2. QED
    BY <1>5, <1>6, <2>1
<1>8. /\ r \in Seq(Entries)
      /\ \A i \in DOMAIN r :
           \/ i \in DOMAIN l /\ r[i] = l[i]
           \/ i \notin DOMAIN l /\ i - Len(l) \in DOMAIN b /\ r[i] = b[i - Len(l)]
  <2>1. r = l \o b
    BY <1>2, <1>5
  <2>2. QED
    BY <1>4, <1>7, <2>1, Joined
<1>9. DOMAIN l = 1 .. Len(l) /\ DOMAIN r = 1 .. Len(r)
  BY <1>4, <1>8
<1>10. ASSUME NEW i \in 1 .. Len(r) PROVE r[i].index = i - 1
  <2>1. CASE i \in DOMAIN l /\ r[i] = l[i]
    BY <1>9, <2>1 DEF Numbered
  <2>2. CASE i - Len(l) \in DOMAIN b /\ r[i] = b[i - Len(l)]
    <3>1. r[i].index = Len(l) + (i - Len(l)) - 1
      BY <1>7, <2>2
    <3>2. QED
      BY <1>6, <3>1
  <2>3. QED
    BY <1>8, <1>9, <2>1, <2>2
<1>11. QED
  BY <1>8, <1>10 DEF Numbered

LEMMA GpuFacts ==
  ASSUME NEW silent, NEW g \in GpuPoll(silent), NEW engines, NEW l, l = InjectEngines(g, engines)
  PROVE  \A i \in 1 .. Len(l) : l[i].index = i - 1
<1>1. PICK first, both : /\ first \in AppendGpus(<<>>, "NVIDIA", silent)
                         /\ both \in AppendGpus(first, "AMD", silent)
                         /\ g \in AppendGpus(both, "Intel", silent)
  BY DEF GpuPoll, NvmlPoll, AdlPoll, IgclPoll
<1>2. Numbered(<<>>)
  BY DEF Numbered
<1>3. Numbered(first)
  BY <1>1, <1>2, AppendedFacts
<1>4. Numbered(both)
  BY <1>1, <1>3, AppendedFacts
<1>5. Numbered(g)
  BY <1>1, <1>4, AppendedFacts
<1>6. Len(g) \in Nat /\ DOMAIN l = 1 .. Len(g) /\ Len(l) = Len(g)
  BY <1>5 DEF Numbered, InjectEngines
<1>7. \A i \in 1 .. Len(g) : l[i].index = g[i].index
  BY DEF InjectEngines
<1>8. QED
  BY <1>5, <1>6, <1>7 DEF Numbered

\* The account of a device that a poll may have sampled.
LEMMA AccountAfterPoll ==
  ASSUME SensorIInv, NEW d \in Devices, NEW sampled, raw' = raw, Faults \in sampled,
         prev'  = [e \in Devices |-> IF e \in sampled THEN raw[e] ELSE prev[e]],
         owed'  = [e \in Devices |-> IF e \in sampled THEN 0 ELSE owed[e]],
         clean' = [e \in Devices |-> e \in sampled \/ clean[e]]
  PROVE  Account(d)'
<1>1. Bounds /\ Account(d)
  BY BoundsHold DEF SensorIInv
<1>2. WidthOf(d) \in 1 .. Mod /\ MaxMoved(d) \in Nat /\ Mod \in Nat
  BY <1>1 DEF Bounds
<1>3. CASE d \in sampled
  <2>1. raw'[d] = raw[d] /\ prev'[d] = raw[d] /\ owed'[d] = 0
    BY <1>3
  <2>2. raw[d] \in 0 .. WidthOf(d) - 1
    BY <1>1 DEF Account
  <2>3. QED
    BY <1>2, <2>1, <2>2 DEF Account
<1>4. CASE d \notin sampled
  <2>1. raw'[d] = raw[d] /\ prev'[d] = prev[d] /\ owed'[d] = owed[d]
    BY <1>4
  <2>2. clean'[d] <=> clean[d]
    BY <1>4, Zenon
  <2>3. HasSample(d)' <=> HasSample(d)
    BY <2>1 DEF HasSample
  <2>4. QED
    BY <1>1, <2>1, <2>2, <2>3 DEF Account
<1>5. QED
  BY <1>3, <1>4

LEMMA PollKeeps == ASSUME SensorIInv, Poll PROVE SensorIInv'
<1>1. Bounds /\ MachineTypes /\ (\A d \in Devices : Account(d)) /\ BlockInv
  BY BoundsHold DEF SensorIInv
<1>2. PICK tableRead \in BOOLEAN, r \in Readings, silent \in SUBSET OtherGpus, drives \in DriveList :
      \E nics \in (IF tableRead THEN NicList ELSE {<<>>}), gpus \in GpuPoll(silent) :
        /\ block' = [disk |-> Published(block.disk, drives),
                     nic  |-> Published(block.nic, nics),
                     faults |-> Sample(Faults),
                     gpus |-> InjectEngines(gpus, r.engines),
                     active_disk_count |-> Len(drives),
                     active_nic_count |-> Len(nics),
                     failed |-> RunValidations(r)]
        /\ prev'  = [d \in Devices |-> IF d \in Sampled(drives, nics) THEN raw[d] ELSE prev[d]]
        /\ owed'  = [d \in Devices |-> IF d \in Sampled(drives, nics) THEN 0 ELSE owed[d]]
        /\ clean' = [d \in Devices |-> d \in Sampled(drives, nics) \/ clean[d]]
        /\ UNCHANGED <<raw, present, busy>>
  BY DEF Poll
<1>3. PICK nics \in NicList \cup {<<>>}, gpus \in GpuPoll(silent) :
        /\ block' = [disk |-> Published(block.disk, drives),
                     nic  |-> Published(block.nic, nics),
                     faults |-> Sample(Faults),
                     gpus |-> InjectEngines(gpus, r.engines),
                     active_disk_count |-> Len(drives),
                     active_nic_count |-> Len(nics),
                     failed |-> RunValidations(r)]
        /\ prev'  = [d \in Devices |-> IF d \in Sampled(drives, nics) THEN raw[d] ELSE prev[d]]
        /\ owed'  = [d \in Devices |-> IF d \in Sampled(drives, nics) THEN 0 ELSE owed[d]]
        /\ clean' = [d \in Devices |-> d \in Sampled(drives, nics) \/ clean[d]]
        /\ UNCHANGED <<raw, present, busy>>
  BY <1>2
<1>4. /\ Len(drives) \in Nat /\ Len(nics) \in Nat
      /\ \A i \in 1 .. Len(drives) : drives[i] \in Drives /\ drives[i] = i - 1
      /\ \A i \in 1 .. Len(nics) : nics[i] \in Nics
      /\ \A i, j \in 1 .. Len(nics) : i # j => nics[i] # nics[j]
  BY ListFacts
<1>5. Drives \subseteq Devices /\ Nics \subseteq Devices /\ Faults \in Devices
  BY DEF Devices
<1>6. MachineTypes'
  <2>1. 0 \in 0 .. Mod - 1
    BY <1>1 DEF Bounds
  <2>2. raw' = raw /\ present' = present
    BY <1>3
  <2>3. /\ raw' \in [Devices -> 0 .. Mod - 1] /\ present' \subseteq Devices
    BY <1>1, <2>2 DEF MachineTypes
  <2>4. owed' \in [Devices -> 0 .. Mod - 1]
    BY <1>1, <1>3, <2>1 DEF MachineTypes
  <2>5. clean' \in [Devices -> BOOLEAN]
    BY <1>1, <1>3, Zenon DEF MachineTypes
  <2>6. prev' \in [Devices -> 0 .. Mod - 1 \cup {None}]
    BY <1>1, <1>3 DEF MachineTypes
  <2>7. QED
    BY <2>3, <2>4, <2>5, <2>6 DEF MachineTypes
<1>7. ASSUME NEW d \in Devices PROVE Account(d)'
  <2>1. PICK sampled : sampled = Sampled(drives, nics)
    OBVIOUS
  <2>2. /\ raw' = raw /\ Faults \in sampled
        /\ prev'  = [e \in Devices |-> IF e \in sampled THEN raw[e] ELSE prev[e]]
        /\ owed'  = [e \in Devices |-> IF e \in sampled THEN 0 ELSE owed[e]]
        /\ clean' = [e \in Devices |-> e \in sampled \/ clean[e]]
    BY <1>3, <2>1 DEF Sampled
  <2>3. QED
    BY <2>2, AccountAfterPoll
<1>8. BlockInv'
  <2>1. PICK disk, nic, faults, gpu, failed :
          /\ disk = Published(block.disk, drives) /\ nic = Published(block.nic, nics)
          /\ faults = Sample(Faults) /\ gpu = InjectEngines(gpus, r.engines)
          /\ failed = RunValidations(r)
    OBVIOUS
  <2>2. /\ block'.disk = disk /\ block'.nic = nic /\ block'.faults = faults
        /\ block'.gpus = gpu /\ block'.failed = failed
        /\ block'.active_disk_count = Len(drives) /\ block'.active_nic_count = Len(nics)
    BY <1>3, <2>1
  <2>3. DOMAIN block.disk = 0 .. DriveSlots - 1 /\ DOMAIN block.nic = 0 .. NicSlots - 1
    BY <1>1 DEF BlockInv
  <2>4. /\ DOMAIN disk = 0 .. DriveSlots - 1
        /\ \A k \in DOMAIN disk :
             /\ Fair(disk[k])
             /\ disk[k].fresh <=> k < Len(drives)
             /\ disk[k].dev = IF k < Len(drives) THEN drives[k + 1] ELSE block.disk[k].dev
    <3>1. \A k \in DOMAIN block.disk : k < Len(drives) => drives[k + 1] \in Devices
      BY <1>4, <1>5, <2>3
    <3>2. PICK slots : slots = block.disk
      OBVIOUS
    <3>3. /\ disk = Published(slots, drives) /\ \A d \in Devices : Account(d)
          /\ \A k \in DOMAIN slots : k < Len(drives) => drives[k + 1] \in Devices
      BY <1>1, <2>1, <3>1, <3>2
    <3>4. /\ DOMAIN disk = DOMAIN slots
          /\ \A k \in DOMAIN disk :
               /\ Fair(disk[k])
               /\ disk[k].fresh <=> k < Len(drives)
               /\ disk[k].dev = IF k < Len(drives) THEN drives[k + 1] ELSE slots[k].dev
      BY <3>3, PublishedFacts
    <3>5. QED
      BY <2>3, <3>2, <3>4
  <2>5. /\ DOMAIN nic = 0 .. NicSlots - 1
        /\ \A k \in DOMAIN nic :
             /\ Fair(nic[k])
             /\ nic[k].fresh <=> k < Len(nics)
             /\ nic[k].dev = IF k < Len(nics) THEN nics[k + 1] ELSE block.nic[k].dev
    <3>1. \A k \in DOMAIN block.nic : k < Len(nics) => nics[k + 1] \in Devices
      BY <1>4, <1>5, <2>3
    <3>2. PICK slots : slots = block.nic
      OBVIOUS
    <3>3. /\ nic = Published(slots, nics) /\ \A d \in Devices : Account(d)
          /\ \A k \in DOMAIN slots : k < Len(nics) => nics[k + 1] \in Devices
      BY <1>1, <2>1, <3>1, <3>2
    <3>4. /\ DOMAIN nic = DOMAIN slots
          /\ \A k \in DOMAIN nic :
               /\ Fair(nic[k])
               /\ nic[k].fresh <=> k < Len(nics)
               /\ nic[k].dev = IF k < Len(nics) THEN nics[k + 1] ELSE slots[k].dev
      BY <3>3, PublishedFacts
    <3>5. QED
      BY <2>3, <3>2, <3>4
  <2>6. Fair(faults)
    <3>1. clean[Faults] => Rate(Faults) = owed[Faults]
      BY <1>1, <1>5, RateIsOwed
    <3>2. QED
      BY <2>1, <3>1 DEF Fair, Sample
  <2>7. failed \subseteq {"VC-01", "VC-02", "VC-03", "VC-04", "VC-07",
                          "VC-08", "VC-09", "VC-10"}
    BY <2>1 DEF RunValidations
  <2>8. SlotIsDrive'
    <3>1. \A k \in DOMAIN block.disk : block.disk[k].dev \in {None, k}
      BY <1>1 DEF BlockInv, SlotIsDrive
    <3>2. \A k \in DOMAIN disk : disk[k].dev \in {None, k}
      BY <1>4, <2>3, <2>4, <3>1
    <3>3. QED
      BY <2>2, <3>2 DEF SlotIsDrive
  <2>9. \A i \in 1 .. Len(gpu) : gpu[i].index = i - 1
    BY <2>1, GpuFacts
  <2>10. ASSUME NEW j \in DOMAIN nic, NEW k \in DOMAIN nic, nic[j].fresh, nic[k].fresh, j # k
         PROVE  nic[j].dev # nic[k].dev
    <3>1. j \in Nat /\ k \in Nat /\ j < Len(nics) /\ k < Len(nics)
      BY <2>5, <2>10, SensorAssumption
    <3>2. nic[j].dev = nics[j + 1] /\ nic[k].dev = nics[k + 1]
      BY <2>5, <3>1
    <3>3. QED
      BY <1>4, <2>10, <3>1, <3>2
  <2>11. ActiveIsThisPoll'
    BY <2>2, <2>4, <2>5, <2>9, <2>10 DEF ActiveIsThisPoll
  <2>12. QED
    BY <2>2, <2>4, <2>5, <2>6, <2>7, <2>8, <2>11 DEF BlockInv
<1>9. QED
  BY <1>6, <1>7, <1>8 DEF SensorIInv

LEMMA SensorSteps == SensorIInv /\ [SensorNext]_sensorVars => SensorIInv'
<1> SUFFICES ASSUME SensorIInv, [SensorNext]_sensorVars PROVE SensorIInv'
  OBVIOUS
<1>1. CASE \/ \E d \in Devices : \E n \in 1 .. Mod - 1 : Moves(d, n)
           \/ \E d \in Devices : CounterRestarts(d) \/ PlugChanges(d)
  BY <1>1, MachineKeeps
<1>2. CASE Poll
  BY <1>2, PollKeeps
<1>3. CASE UNCHANGED sensorVars
  <2>1. UNCHANGED <<raw, present, owed, clean, prev, block>>
    BY <1>3 DEF sensorVars
  <2>2. MachineTypes' /\ (\A d \in Devices : Account(d)')
    BY <2>1 DEF SensorIInv, MachineTypes, Account, HasSample
  <2>3. BlockInv'
    BY <2>1 DEF SensorIInv, BlockInv, SlotIsDrive, ActiveIsThisPoll
  <2>4. QED
    BY <2>2, <2>3 DEF SensorIInv
<1>4. QED
  BY <1>1, <1>2, <1>3 DEF SensorNext

LEMMA SensorInvariant == SensorSpec => []SensorIInv
BY SensorInitial, SensorSteps, PTL DEF SensorSpec

\* Whatever wraps, is unplugged or misses polls, a rate is what its device has
\* moved since the sample before, unless its counter has started again
\* (sensors/disk.cpp, network.cpp, memory.cpp).
THEOREM RatesAreTraffic == SensorSpec => []RateIsTraffic
<1>1. SensorIInv => RateIsTraffic
  BY DEF SensorIInv, BlockInv, RateIsTraffic, AllSlots, Fair
<1>2. QED
  BY <1>1, SensorInvariant, PTL

\* The slots below the counts of the header are of this poll, a drive has the
\* slot of its number, no adapter has two, and the number a display adapter
\* carries is its position (sensors/disk.cpp, network.cpp, gpu.cpp).
THEOREM SlotsAreSound == SensorSpec => []SlotsInv
<1>1. SensorIInv => SlotsInv
  BY DEF SensorIInv, MachineTypes, BlockInv, SlotsInv, SensorTypeOK
<1>2. QED
  BY <1>1, SensorInvariant, PTL
=============================================================================
