--------------------------- MODULE WatchedSession ---------------------------
(***************************************************************************)
(* A logging session with stop_when_watch_empty beside the process watcher *)
(* (log_session.cpp:336-345 and watcher.cpp): after WriteToShm the poll    *)
(* thread ends the session when it has seen a watched process and the      *)
(* count in the block is zero.  What the session can see of the watcher is *)
(* that count only; the processes it saw are kept here beside it.          *)
(***************************************************************************)
EXTENDS ProcessWatcher

VARIABLES
  session,    \* the session's status, or "none"
  watch_seen,
  due,        \* the poll thread has yet to call OnPollTick
  saw,        \* the processes that had a slot at one of the session's rows
  removed     \* has a watch been removed since the session was started, or
              \* shortly before it?

swVars == <<vars, session, watch_seen, due, saw, removed>>

SWInit == /\ Init
          /\ session = "none" /\ watch_seen = FALSE /\ due = FALSE
          /\ saw = {} /\ removed = FALSE

\* Start: watches are added before or after it.
StartSession ==
  /\ session = "none"
  /\ session' = "active"
  /\ removed' = \E i \in DOMAIN entries : ~entries[i].alive
  /\ UNCHANGED <<vars, watch_seen, due, saw>>

Removal == \/ \E exe \in Exes : RemoveWatch(exe)
           \/ \E p \in Pids : RemovePid(p)

WatcherStep ==
  /\ System \/ Api \/ ((~due) /\ PollThread)
  /\ removed' = (removed \/ Removal)
  /\ due' = (due \/ WriteToShm)
  /\ UNCHANGED <<session, watch_seen, saw>>

\* Mutant: an empty count is enough.
WatchedDoneUnseen(seen) == slots = <<>>

\* watched_done, with what watch_seen has just become.
WatchedDone(seen) == seen /\ slots = <<>>

OnPollTick ==
  /\ due
  /\ due' = FALSE
  /\ IF session # "active" THEN UNCHANGED <<session, watch_seen, saw>>
     ELSE /\ watch_seen' = (watch_seen \/ slots # <<>>)
          /\ session' = IF WatchedDone(watch_seen') THEN "stopped" ELSE "active"
          /\ saw' = saw \cup {slots[i].birth : i \in DOMAIN slots}
  /\ UNCHANGED <<vars, removed>>

SWNext == StartSession \/ WatcherStep \/ OnPollTick

SWSpec == SWInit /\ [][SWNext]_swVars

SWFairSpec == SWSpec /\ WF_swVars(OnPollTick \/ (~due /\ PollThread /\ WatcherStep))

-----------------------------------------------------------------------------
Runs(b) == \E p \in Pids : proc[p] # Absent /\ proc[p].birth = b

(* While nobody removes a watch, the session is not ended before it has    *)
(* seen a watched process and every one it has seen is over, whatever pids *)
(* are reused and however polls fall between the ends and starts.          *)
SessionOutlivesWatched ==
  session = "stopped" /\ ~removed => saw # {} /\ \A b \in saw : ~Runs(b)

\* A session that has seen a watched process ends once no process that could
\* be watched runs any more.
SessionEndsWithWatched ==
  (session = "active" /\ watch_seen) /\ [](\A p \in Pids : proc[p] = Absent)
    ~> session = "stopped"
=============================================================================
