---------------------------- MODULE LogSessions -----------------------------
(***************************************************************************)
(* The store of logging sessions (service/log_session.cpp): HTTP threads   *)
(* start, stop and delete sessions while the poll thread writes one row to *)
(* each active one after every poll.  Everything is under one mutex, but   *)
(* the poll thread takes it once to collect raw pointers to the active     *)
(* sessions and then again for each of them, so a step below is one        *)
(* critical section, and the poll thread's position between two of them is *)
(* part of the state.  A session is an object at an address (a cell of the *)
(* heap), which is free again as soon as the session is deleted.           *)
(***************************************************************************)
EXTENDS Integers, Sequences, FiniteSets, SequencesExt, Subsequences

CONSTANTS Ids,         \* the session ids GenerateId hands out, in any order
          Cells,       \* addresses
          Https,       \* HTTP threads that start sessions
          Requests,    \* <<duration_ms in polls, stop_when_watch_empty>>
          FlushEvery,  \* 10 rows in the code
          DiskFills,   \* may the disk become full?
          RowsThrow,   \* may building a row throw (json::dump)?
          MaxRows,     \* bound: rows of a session
          MaxClock,    \* bound: the clock
          MaxCrashes,  \* bound: ends of the service process
          Free, None

VARIABLES
  up, crashes,   \* is the process running, and how often it has died
  full,          \* the disk is full: writing a file may fail
  heap,          \* the LogSession objects, by address
  store,         \* m_sessions: the addresses the store owns
  http,          \* per HTTP thread: the session it is about to store, or None
  ppc, active,   \* the poll thread: where it is, the pointers it has yet to visit
  clock,         \* NowMs(), which here advances with the polls
  watchCount,    \* shm->hdr.active_watch_count
  taken,             \* the ids handed out so far
  log, meta, index   \* the files: rows of <id>.jsonl, <id>.meta.json, index.jsonl

memory == <<heap, store, http, ppc, active>>
world  == <<up, crashes, full, clock, watchCount>>
files  == <<log, meta, index>>
vars   == <<memory, world, taken, files>>

Session == [id : Ids, status : {"active", "stopped", "failed"}, open : BOOLEAN,
            bad : BOOLEAN,            \* the stream has failed: it drops what it gets
            limit : Nat, stop_when_watch_empty : BOOLEAN, watch_seen : BOOLEAN,
            started : Nat, rows : Nat, buffered : Nat]

ASSUME SessionsAssumption ==
  /\ FlushEvery \in Nat \ {0} /\ Requests \subseteq Int \X BOOLEAN
  /\ MaxRows \in Nat /\ MaxClock \in Nat /\ MaxCrashes \in Nat
  /\ DiskFills \in BOOLEAN /\ RowsThrow \in BOOLEAN
  /\ None \notin Cells /\ Free \notin Session

Listed   == Range(store)
NoMeta   == [status |-> "none", rows |-> 0]
Running(c) == heap[c].status = "active" /\ heap[c].open

Init ==
  /\ up = TRUE /\ crashes = 0 /\ full = FALSE /\ clock = 0 /\ watchCount = 0
  /\ heap = [c \in Cells |-> Free] /\ store = <<>>
  /\ http = [h \in Https |-> None]
  /\ ppc = "idle" /\ active = <<>>
  /\ taken = {}
  /\ log = [id \in Ids |-> 0] /\ meta = [id \in Ids |-> NoMeta] /\ index = <<>>

-----------------------------------------------------------------------------
(* Streams.  Each operator yields the session and the rows that reached the *)
(* disk, for every way the write may go.                                    *)

\* What is buffered goes to disk, or the stream goes bad and it is lost.
Flushed(s) ==
  {[sess |-> [s EXCEPT !.buffered = 0], out |-> s.buffered]}
  \cup IF full /\ s.buffered > 0
       THEN {[sess |-> [s EXCEPT !.buffered = 0, !.bad = TRUE], out |-> 0]} ELSE {}

\* Mutant: the flush every FlushEvery rows forgotten.
RowWrittenNoFlush(s) ==
  IF s.bad THEN {[sess |-> [s EXCEPT !.rows = @ + 1], out |-> 0]}
  ELSE {[sess |-> [s EXCEPT !.rows = @ + 1, !.buffered = @ + 1], out |-> 0]}

(* WriteRow: the row goes to the buffer, which may spill at any time and is *)
(* flushed with every FlushEvery-th row.  A bad stream takes it silently.   *)
RowWritten(s) ==
  LET t == [s EXCEPT !.rows = @ + 1, !.buffered = @ + 1]
  IN  IF s.bad THEN {[sess |-> [s EXCEPT !.rows = @ + 1], out |-> 0]}
      ELSE Flushed(t) \cup IF t.rows % FlushEvery = 0 THEN {} ELSE {[sess |-> t, out |-> 0]}

MetaOf(s) == [status |-> s.status, rows |-> s.rows]

\* WriteMeta truncates the file and rewrites it; a failure is not noticed.
MetaWritten(s) ==
  {MetaOf(s)} \cup IF full THEN {[status |-> "torn", rows |-> 0]} ELSE {}

\* AppendIndex.
IndexWritten(s) ==
  {Append(index, [id |-> s.id, rows |-> s.rows])} \cup IF full THEN {index} ELSE {}

\* Mutant: the index entry forgotten.
StopLockedNoIndex(c, s) ==
  \E f \in Flushed([s EXCEPT !.status = "stopped", !.open = FALSE]) :
    \E m \in MetaWritten(f.sess) :
      /\ heap' = [heap EXCEPT ![c] = f.sess]
      /\ log'  = [log EXCEPT ![s.id] = @ + f.out]
      /\ meta' = [meta EXCEPT ![s.id] = m]
      /\ UNCHANGED index

\* StopLocked: the session s at c is flushed, closed and entered in the index.
StopLocked(c, s) ==
  \E f \in Flushed([s EXCEPT !.status = "stopped", !.open = FALSE]) :
    \E m \in MetaWritten(f.sess), ix \in IndexWritten(f.sess) :
      /\ heap' = [heap EXCEPT ![c] = f.sess]
      /\ log'  = [log EXCEPT ![s.id] = @ + f.out]
      /\ meta' = [meta EXCEPT ![s.id] = m]
      /\ index' = ix

-----------------------------------------------------------------------------
(* HTTP threads. *)

\* duration_ms > 0 ? duration_ms : 0; zero means no limit.
Limit(duration) == IF duration > 0 THEN duration ELSE 0

(* Start, before the lock: the object is built and its file opened.  When  *)
(* the open fails the object goes away and nothing has changed.            *)
OpenLog(h, c, id, duration, swe) ==
  /\ up /\ http[h] = None /\ heap[c] = Free /\ id \notin taken
  /\ clock + duration <= MaxClock
  /\ heap' = [heap EXCEPT ![c] =
       [id |-> id, status |-> "active", open |-> TRUE, bad |-> FALSE,
        limit |-> Limit(duration), stop_when_watch_empty |-> swe, watch_seen |-> FALSE,
        started |-> clock, rows |-> 0, buffered |-> 0]]
  /\ http' = [http EXCEPT ![h] = c]
  /\ taken' = taken \cup {id}
  /\ UNCHANGED <<store, ppc, active, world, files>>

\* Start, under the lock.
Start(h) ==
  /\ http[h] # None
  /\ LET c == http[h]
     IN  /\ \E m \in MetaWritten(heap[c]) : meta' = [meta EXCEPT ![heap[c].id] = m]
         /\ store' = Append(store, c)
  /\ http' = [http EXCEPT ![h] = None]
  /\ UNCHANGED <<heap, ppc, active, world, taken, log, index>>

Stop(c) ==
  /\ up /\ c \in Listed /\ heap[c].status = "active"
  /\ StopLocked(c, heap[c])
  /\ UNCHANGED <<store, http, ppc, active, world, taken>>

(* Delete: any session, also an active one; its object is freed at once.   *)
Delete(c) ==
  /\ up /\ c \in Listed
  /\ heap' = [heap EXCEPT ![c] = Free]
  /\ \E i \in DOMAIN store : store[i] = c /\ store' = RemoveAt(store, i)
  /\ log'  = [log EXCEPT ![heap[c].id] = 0]
  /\ meta' = [meta EXCEPT ![heap[c].id] = [status |-> "deleted", rows |-> 0]]
  /\ UNCHANGED <<http, ppc, active, world, taken, index>>

-----------------------------------------------------------------------------
(* The poll thread. *)

\* A poll: time passes, and WriteToShm publishes n watched processes.
Poll(n) ==
  /\ up /\ ppc = "idle"
  /\ \A c \in Cells : heap[c] # Free => heap[c].rows < MaxRows
  /\ clock' = IF clock < MaxClock THEN clock + 1 ELSE clock
  /\ watchCount' = n
  /\ ppc' = "tick"
  /\ UNCHANGED <<heap, store, http, active, up, crashes, full, taken, files>>

\* OnPollTick collects the pointers.
Collect ==
  /\ up /\ ppc = "tick"
  /\ active' \in Kept(store, {i \in DOMAIN store : Running(store[i])})
  /\ ppc' = IF active' = <<>> THEN "idle" ELSE "walk"
  /\ UNCHANGED <<heap, store, http, world, taken, files>>

\* Mutant: only the very poll at which the time is over is recognised.
DurationDoneExactly(s) == s.limit > 0 /\ clock = s.started + s.limit

\* The tests that end a session after its row.
DurationDone(s) == s.limit > 0 /\ clock >= s.started + s.limit
WatchedDone(s)  == s.stop_when_watch_empty /\ s.watch_seen /\ watchCount = 0

\* Mutant: WriteRow and the rest without another look at the status.
TickNoRecheck(c) ==
  \E r \in RowWritten(heap[c]) :
    LET s == [r.sess EXCEPT !.watch_seen = @ \/ watchCount > 0]
    IN  IF DurationDone(s) \/ WatchedDone(s)
        THEN StopLocked(c, [s EXCEPT !.buffered = @ + r.out])
        ELSE /\ heap' = [heap EXCEPT ![c] = s]
             /\ log' = [log EXCEPT ![s.id] = @ + r.out]
             /\ UNCHANGED <<meta, index>>

(* What the loop body does to the session at c: nothing if it has ended,   *)
(* otherwise a row, and StopLocked if its time is over or the watched      *)
(* processes are gone; or the row throws and the session has failed.       *)
Tick(c) ==
  \/ ~Running(c) /\ UNCHANGED <<heap, files>>
  \/ Running(c) /\ \E r \in RowWritten(heap[c]) :
       LET s == [r.sess EXCEPT !.watch_seen = @ \/ watchCount > 0]
       IN  IF DurationDone(s) \/ WatchedDone(s)
           THEN StopLocked(c, [s EXCEPT !.buffered = @ + r.out])
           ELSE /\ heap' = [heap EXCEPT ![c] = s]
                /\ log' = [log EXCEPT ![s.id] = @ + r.out]
                /\ UNCHANGED <<meta, index>>
  \/ /\ Running(c) /\ RowsThrow
     /\ \E f \in Flushed([heap[c] EXCEPT !.status = "failed", !.open = FALSE]) :
          /\ heap' = [heap EXCEPT ![c] = f.sess]
          /\ log' = [log EXCEPT ![f.sess.id] = @ + f.out]
     /\ UNCHANGED <<meta, index>>

NextPointer ==
  /\ active' = Tail(active)
  /\ ppc' = IF active' = <<>> THEN "idle" ELSE "walk"

\* One round of the loop over the collected pointers.
Visit ==
  /\ up /\ ppc = "walk" /\ heap[Head(active)] # Free
  /\ Tick(Head(active))
  /\ NextPointer
  /\ UNCHANGED <<store, http, world, taken>>

(* The pointer dangles.  The destructor has closed the stream, so what is  *)
(* left of the object mostly reads as ended; or the process dies (Crash).  *)
VisitFreed ==
  /\ up /\ ppc = "walk" /\ heap[Head(active)] = Free
  /\ NextPointer
  /\ UNCHANGED <<heap, store, http, world, taken, files>>

-----------------------------------------------------------------------------
(* The process dies: memory and buffers are gone, the files stay.          *)
Crash ==
  /\ up /\ crashes < MaxCrashes
  /\ up' = FALSE /\ crashes' = crashes + 1
  /\ heap' = [c \in Cells |-> Free] /\ store' = <<>>
  /\ http' = [h \in Https |-> None]
  /\ ppc' = "idle" /\ active' = <<>>
  /\ UNCHANGED <<full, clock, watchCount, taken, files>>

(* Init of the next process: the directory is made sure of, no file in it  *)
(* is read.                                                                *)
Restart ==
  /\ ~up
  /\ up' = TRUE
  /\ UNCHANGED <<memory, crashes, full, clock, watchCount, taken, files>>

FillDisk ==
  /\ DiskFills /\ ~full
  /\ full' = TRUE
  /\ UNCHANGED <<memory, up, crashes, clock, watchCount, taken, files>>

-----------------------------------------------------------------------------
Request == \E h \in Https :
             \/ \E c \in Cells, id \in Ids, r \in Requests : OpenLog(h, c, id, r[1], r[2])
             \/ Start(h)

PollThread == (\E n \in 0 .. 1 : Poll(n)) \/ Collect \/ Visit \/ VisitFreed

Next == Request \/ (\E c \in Cells : Stop(c) \/ Delete(c)) \/ PollThread
        \/ Crash \/ Restart \/ FillDisk

Spec == Init /\ [][Next]_vars

-----------------------------------------------------------------------------
TypeOK ==
  /\ up \in BOOLEAN /\ full \in BOOLEAN /\ crashes \in Nat /\ clock \in Nat /\ watchCount \in Nat
  /\ heap \in [Cells -> Session \cup {Free}]
  /\ store \in Seq(Cells) /\ active \in Seq(Cells)
  /\ http \in [Https -> Cells \cup {None}]
  /\ ppc \in {"idle", "tick", "walk"}
  /\ taken \subseteq Ids
  /\ log \in [Ids -> Nat]
  /\ meta \in [Ids -> [status : {"none", "active", "stopped", "failed", "torn", "deleted"},
                       rows : Nat]]
  /\ index \in Seq([id : Ids, rows : Nat])

Indexed(id) == {i \in 1 .. Len(index) : index[i].id = id}

(* README, "One line appended per completed (stopped) session", and the    *)
(* stop route "flushes + closes file": whoever stops a session, and        *)
(* whatever the poll thread is doing with it, its log then holds every row *)
(* the store has counted, and meta and index (one line) say that number;   *)
(* as long as the disk has room.                                           *)
StoppedIsComplete ==
  ~full => \A id \in Ids : meta[id].status = "stopped" =>
    /\ log[id] = meta[id].rows
    /\ Cardinality(Indexed(id)) = 1
    /\ \A i \in Indexed(id) : index[i].rows = meta[id].rows

\* A session never gets a second line, even when files cannot be written,
\* and none of the lines is of a session that still runs.
IndexedOnce ==
  \A id \in Ids : /\ Cardinality(Indexed(id)) <= 1
                  /\ Indexed(id) # {} => \A c \in Listed : heap[c].id = id => ~Running(c)

\* The objects, the pointers and the files are what their types say, and the
\* index has each session once (also a duration below zero is a limit of none).
SessionsInv == TypeOK /\ IndexedOnce

\* log_session.cpp:460: a death of the process costs an active session at
\* most the FlushEvery - 1 rows since the last flush, as long as the disk has
\* room.
FlushBound ==
  ~full => \A c \in Listed : Running(c) /\ ~heap[c].bad =>
    heap[c].rows - log[heap[c].id] < FlushEvery

\* A session whose time is over gets one more row at the most, however late
\* polls are, however long its start has taken, and also when its address is
\* one the poll thread collected for another.
OverdueIsStopped ==
  [][\A c \in Cells :
       /\ heap[c] # Free /\ heap'[c] # Free /\ heap'[c].rows > heap[c].rows
       /\ heap[c].limit > 0 /\ clock >= heap[c].started + heap[c].limit
       => heap'[c].status # "active"]_vars

-----------------------------------------------------------------------------
Phase(id) ==
  LET of == {c \in Listed : heap[c].id = id}
  IN  IF of # {} THEN heap[CHOOSE c \in of : TRUE].status
      ELSE IF meta[id] = NoMeta THEN "unborn" ELSE "gone"

Ledger == INSTANCE SessionLedger WITH
            phase  <- [id \in Ids |-> Phase(id)],
            ledger <- [i \in 1 .. Len(index) |-> index[i].id],
            room   <- ~full

\* The store with its two-step start, its pointers and its crashes is the
\* ledger: every session is started once and ends once.
ImplementsLedger == Ledger!Spec

-----------------------------------------------------------------------------
(* What the code's comments and documents say, and the code does not do.   *)

\* log_session.cpp:332: "Lock only to check the session is still active":
\* a collected pointer is still that of a session when it is looked at.
PointersStayValid ==
  ppc = "walk" => heap[Head(active)] # Free

\* log_session.cpp:347: "If file write fails, mark session failed so we stop
\* trying".
FailedWriteMarksFailed ==
  \A c \in Listed : heap[c].bad /\ ppc = "idle" => heap[c].status # "active"

\* README.md:1382: "Sessions survive service restarts (existing active
\* sessions are re-opened on start)".
SessionsSurviveRestarts ==
  \A id \in Ids : up /\ meta[id].status = "active" =>
    \E c \in Listed : heap[c].id = id
=============================================================================
