-------------------------- MODULE ServiceLifecycle --------------------------
(***************************************************************************)
(* The service process (service/main.cpp): ServiceMain sets the parts up,  *)
(* starts the poll, pipe, HTTP and heartbeat threads, joins them in this   *)
(* order and takes the parts down; the control handler runs on a thread of *)
(* the service control manager and only sets the flag.  The console modes  *)
(* do the same with another flag.  The pipe server is PipeServer's; the    *)
(* other threads are what the order of starting and stopping needs of      *)
(* them.                                                                   *)
(***************************************************************************)
EXTENDS PipeServer, Sequences

CONSTANT LateListen  \* does a listen() after stop() wait for ever?

ASSUME ServiceAssumption == LateListen \in BOOLEAN

VARIABLES
  mainPc,    \* where ServiceMain is
  joined,    \* how many of the threads it has joined
  scm,       \* the state last reported
  shm,       \* is the block mapped?
  loop,      \* the poll loop and the heartbeat: "none", "running", "ended"
  httpPc,    \* HttpServerRun: "none", "starting", "listening", "ended"
  httpStop   \* has the stopper thread called s_svr->stop()?

mainVars == <<mainPc, joined, scm, shm>>
vars == <<pipeVars, mainVars, loop, httpPc, httpStop>>

Loops == {"poll", "heartbeat"}

\* The order in which the threads are joined.
JoinOrder == <<"poll", "pipe", "http", "heartbeat">>

Init ==
  /\ PipeInit
  /\ mainPc = "start" /\ joined = 0 /\ scm = "start_pending" /\ shm = FALSE
  /\ loop = [t \in Loops |-> "none"]
  /\ httpPc = "none" /\ httpStop = FALSE

-----------------------------------------------------------------------------
\* ServiceMain.

\* InitStores and PollLoopInit, which maps the block.
InitSubsystems ==
  /\ mainPc = "start"
  /\ \/ mainPc' = "pipe_init" /\ shm' = TRUE /\ UNCHANGED scm
     \/ mainPc' = "done" /\ scm' = "stopped" /\ UNCHANGED shm
  /\ UNCHANGED <<pipeVars, joined, loop, httpPc, httpStop>>

InitPipe ==
  /\ mainPc = "pipe_init"
  /\ PipeServerInit /\ UNCHANGED pipePc
  /\ mainPc' = "report"
  /\ UNCHANGED <<joined, scm, shm, loop, httpPc, httpStop>>

ReportRunning ==
  /\ mainPc = "report"
  /\ scm' = "running" /\ mainPc' = "spawn"
  /\ UNCHANGED <<pipeVars, joined, shm, loop, httpPc, httpStop>>

SpawnThreads ==
  /\ mainPc = "spawn"
  /\ loop' = [t \in Loops |-> "running"]
  /\ pipePc' = "loop" /\ httpPc' = "starting"
  /\ mainPc' = "join"
  /\ UNCHANGED <<stop, stopEvent, offered, signalled, client, handler, frames,
                 joined, scm, shm, httpStop>>

Ended(t) == CASE t \in Loops -> loop[t] = "ended"
              [] t = "pipe" -> pipePc = "ended"
              [] t = "http" -> httpPc = "ended"

\* Mutant: the poll thread is the only one that is waited for.
JoinThreadPollOnly ==
  /\ mainPc = "join" /\ Ended("poll")
  /\ joined' = joined + 1
  /\ mainPc' = IF joined' = Len(JoinOrder) THEN "shutdown" ELSE "join"
  /\ UNCHANGED <<pipeVars, scm, shm, loop, httpPc, httpStop>>

JoinThread ==
  /\ mainPc = "join" /\ Ended(JoinOrder[joined + 1])
  /\ joined' = joined + 1
  /\ mainPc' = IF joined' = Len(JoinOrder) THEN "shutdown" ELSE "join"
  /\ UNCHANGED <<pipeVars, scm, shm, loop, httpPc, httpStop>>

\* PollLoopShutdown unmaps the block, PipeServerShutdown closes the event.
Shutdown ==
  /\ mainPc = "shutdown"
  /\ shm' = FALSE /\ stopEvent' = "null"
  /\ scm' = "stopped" /\ mainPc' = "done"
  /\ UNCHANGED <<stop, pipePc, offered, signalled, client, handler, frames,
                 joined, loop, httpPc, httpStop>>

(* CtrlHandler.  Controls are accepted once RUNNING has been reported, and *)
(* none is delivered after a stop.  PAUSE and CONTINUE only report.        *)
CtrlPause ==
  /\ scm \in {"running", "paused"}
  /\ scm' \in {"running", "paused"}
  /\ UNCHANGED <<pipeVars, mainPc, joined, shm, loop, httpPc, httpStop>>

CtrlStop ==
  /\ scm \in {"running", "paused"}
  /\ scm' = "stop_pending" /\ stop' = TRUE
  /\ UNCHANGED <<stopEvent, pipePc, offered, signalled, client, handler, frames,
                 mainPc, joined, shm, loop, httpPc, httpStop>>

-----------------------------------------------------------------------------
\* PollLoopRun and FleetHeartbeatRun look at the flag after every bounded sleep.
EndOfLoop(t) ==
  /\ loop[t] = "running" /\ stop
  /\ loop' = [loop EXCEPT ![t] = "ended"]
  /\ UNCHANGED <<pipeVars, mainVars, httpPc, httpStop>>

\* The stopper thread of HttpServerRun.
StopHttp ==
  /\ httpPc # "none" /\ stop /\ ~httpStop
  /\ httpStop' = TRUE
  /\ UNCHANGED <<pipeVars, mainVars, loop, httpPc>>

\* s_svr->listen(): it returns at once if the port cannot be bound.
Listen ==
  /\ httpPc = "starting"
  /\ httpPc' = IF httpStop /\ LateListen THEN "deaf" ELSE "listening"
  /\ UNCHANGED <<pipeVars, mainVars, loop, httpStop>>

EndHttp ==
  /\ httpPc = "listening" /\ httpStop
  /\ httpPc' = "ended"
  /\ UNCHANGED <<pipeVars, mainVars, loop, httpStop>>

-----------------------------------------------------------------------------
Pipe(A) == A /\ UNCHANGED <<mainVars, loop, httpPc, httpStop>>

MainThread == InitSubsystems \/ InitPipe \/ ReportRunning \/ SpawnThreads \/ JoinThread \/ Shutdown
HttpThread == Listen \/ EndHttp

\* The service has ended: nothing more happens in it.
Finished == mainPc = "done" /\ UNCHANGED vars

Next ==
  \/ MainThread \/ CtrlPause \/ CtrlStop
  \/ \E t \in Loops : EndOfLoop(t)
  \/ StopHttp \/ HttpThread
  \/ Pipe(PipeThread)
  \/ \E c \in Conns : Pipe(Handler(c)) \/ Pipe(Client(c))
  \/ Finished

Spec == Init /\ [][Next]_vars

(* The threads are scheduled, CreateNamedPipe works sooner or later, a     *)
(* client that stays reads what it is sent, and not every frame is torn.   *)
FairSpec ==
  /\ Spec
  /\ WF_vars(MainThread) /\ WF_vars(StopHttp) /\ WF_vars(HttpThread)
  /\ \A t \in Loops : WF_vars(EndOfLoop(t))
  /\ PipeFairness

-----------------------------------------------------------------------------
TypeOK ==
  /\ stop \in BOOLEAN /\ stopEvent \in {"null", "unset", "set"}
  /\ pipePc \in {"none", "loop", "created", "waiting", "ending", "joining", "ended"}
  /\ offered \in SUBSET Conns /\ Cardinality(offered) <= 1 /\ signalled \in BOOLEAN
  /\ client \in [Conns -> {"away", "open", "left", "dropped"}]
  /\ handler \in [Conns -> {"none", "started", "ended"}]
  /\ frames \subseteq Conns
  /\ mainPc \in {"start", "pipe_init", "report", "spawn", "join", "shutdown", "done"}
  /\ joined \in 0 .. Len(JoinOrder) /\ (mainPc = "join" => joined < Len(JoinOrder))
  /\ scm \in {"start_pending", "running", "paused", "stop_pending", "stopped"}
  /\ shm \in BOOLEAN /\ loop \in [Loops -> {"none", "running", "ended"}]
  /\ httpPc \in {"none", "starting", "listening", "deaf", "ended"} /\ httpStop \in BOOLEAN

(* The block is unmapped and the event's handle closed only when no thread *)
(* is left that uses them: the poll loop, an HTTP worker, or one of the    *)
(* clients' threads, which the main program does not know of.              *)
NoUseAfterShutdown ==
  /\ (~shm \/ scm = "stopped") =>
       /\ loop["poll"] # "running" /\ httpPc \in {"none", "ended"}
       /\ \A c \in Conns : handler[c] # "started"
  /\ mainPc = "done" => pipePc \in {"none", "ended"}

\* The states of the main program, its threads and the pipe are what their types
\* say (the joins go through JoinOrder and end, one instance is offered at a
\* time), and nothing is taken down too early.
LifecycleInv == TypeOK /\ NoUseAfterShutdown

(* Nobody who is connected is left behind: when the service has stopped,   *)
(* no client still holds an open pipe.                                     *)
NoClientLeftOpen == scm = "stopped" => \A c \in Conns : client[c] # "open"

(* Once the pipe thread has left its loop after a stop, by whatever way,   *)
(* the service stops, however many clients are connected.                  *)
StopsOnceWoken ==
  (stop /\ pipePc \in {"ending", "joining"} /\ httpPc = "listening") ~> scm = "stopped"

-----------------------------------------------------------------------------
(* What comments and documents say, and the code does not do.              *)

\* pipe_server.cpp:112, "Overlapped connect so we can honor stop": the pipe
\* thread ends after a stop.
StopIsHonored == (stop /\ pipePc # "none") ~> pipePc = "ended"

\* README, "Each connected client receives a binary frame ~1Hz": who has
\* connected gets a frame, unless it leaves or is disconnected.
ConnectedGetsFrame ==
  \A c \in Conns : client[c] = "open" ~> c \in frames \/ client[c] # "open"
=============================================================================
