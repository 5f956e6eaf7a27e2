----------------------------- MODULE SeqlockShm -----------------------------
(***************************************************************************)
(* The shared memory block of the telemetry service and the seqlock that   *)
(* guards it: the poll loop as its only writer, and every kind of reader   *)
(* the code has, each access to the block a step of its own.               *)
(*                                                                         *)
(*   client readers    ShmReadMetric, ShmReadHistory (client/ipc): another *)
(*                     process; 8 tries, an odd sequence number costs one  *)
(*   SnapshotReaders   ReadShm (http_server.cpp), 8 tries as well          *)
(*   SpinReaders       BuildFrame (pipe_server.cpp) and BuildPrometheus:   *)
(*                     spin while the number is odd, give up if torn       *)
(*   RawReaders        GET /api/v1/history, which takes no seqlock at all  *)
(*                                                                         *)
(* Values pushed are the stamp of their poll, so that data of two polls    *)
(* never look alike.  x64 keeps loads and stores of one thread in order    *)
(* (and the writer fences), so memory is sequentially consistent here.     *)
(***************************************************************************)
EXTENDS MetricRing

CONSTANTS NumMetrics,      \* the metrics every poll pushes
          MetricReaders, HistoryReaders, SnapshotReaders, SpinReaders, RawReaders,
          MaxRetries,      \* retries = 8 in the code
          MaxPolls,        \* bound: polls of the loop
          MaxCrashes,      \* bound: ends of the service process
          CrashMidWrite,   \* may the process die inside the write section
                           \* while the client keeps the block alive?
          NoAnswer, Refused

ClientReaders  == MetricReaders \cup HistoryReaders
ServiceReaders == SnapshotReaders \cup SpinReaders \cup RawReaders
Readers        == ClientReaders \cup ServiceReaders
RetryReaders   == ClientReaders \cup SnapshotReaders

ASSUME SeqlockAssumption ==
  /\ NumMetrics \in Nat \ {0} /\ MaxRetries \in Nat \ {0}
  /\ MaxPolls \in Nat /\ MaxCrashes \in Nat
  /\ CrashMidWrite \in BOOLEAN

VARIABLES
  write_seq, ts, ring,   \* the block: hdr.write_seq, hdr.ts_poll_ms, metrics[]
  wpc, wi,               \* the poll loop: where it is, which metric
  polls,                 \* polls so far: the clock that stamps them
  crashes,
  clientOpen,            \* the client has the block mapped
  rpc, req, tries, seq0, buf,   \* each reader: its locals
  answer,                \* what its last call returned
  pub                    \* history: the block when a write section last ended

block   == <<write_seq, ts, ring>>
writer  == <<wpc, wi, polls>>
process == <<crashes, clientOpen>>
locals  == <<rpc, req, tries, seq0, buf>>
vars    == <<block, writer, process, locals, answer, pub>>

Board == INSTANCE TelemetryBoard WITH board <- pub, answer <- answer

Metrics  == Board!Metrics
Requests == Board!Requests
NoRequest == [what |-> "none", metric |-> 0, n |-> 0]
\* The block exists while a process has it open.
Mapped   == clientOpen \/ wpc # "down"
Writing  == wpc \notin {"down", "idle"}

-----------------------------------------------------------------------------
Init ==
  /\ write_seq = 0 /\ ts = 0 /\ ring = [m \in Metrics |-> EmptyRing]
  /\ wpc = "down" /\ wi = 1 /\ polls = 0
  /\ crashes = 0 /\ clientOpen = FALSE
  /\ rpc   = [r \in Readers |-> "idle"]
  /\ req   = [r \in Readers |-> NoRequest]
  /\ tries = [r \in Readers |-> 0]
  /\ seq0  = [r \in Readers |-> 0]
  /\ buf   = [r \in Readers |-> <<>>]
  /\ answer = [r \in Readers |-> NoAnswer]
  /\ pub = Board!EmptyBlock

\* Mutant: memset and ring reset left out of the first-time initialisation.
ShmOpenNoReset ==
  /\ wpc = "down"
  /\ wpc' = "idle"
  /\ write_seq' = 0
  /\ UNCHANGED <<ts, ring, pub, wi, polls, process, locals, answer>>

(* ShmOpen: the mapping already exists when the client still has it open   *)
(* (ERROR_ALREADY_EXISTS), and then nothing in it is initialised.          *)
ShmOpen ==
  /\ wpc = "down"
  /\ wpc' = "idle"
  /\ IF clientOpen
     THEN UNCHANGED <<block, pub>>
     ELSE /\ write_seq' = 0 /\ ts' = 0 /\ ring' = [m \in Metrics |-> EmptyRing]
          /\ pub' = Board!EmptyBlock
  /\ UNCHANGED <<wi, polls, process, locals, answer>>

(* One poll writes the block: ShmBeginWrite, the header, the four stores   *)
(* of push for each metric in turn, ShmEndWrite.                           *)
ShmBeginWrite ==
  /\ wpc = "idle" /\ polls < MaxPolls
  /\ polls' = polls + 1
  /\ write_seq' = write_seq + 1
  /\ wpc' = "header"
  /\ UNCHANGED <<ts, ring, wi, process, locals, answer, pub>>

WriteHeader ==
  /\ wpc = "header"
  /\ ts' = polls
  /\ wpc' = "head" /\ wi' = 1
  /\ UNCHANGED <<write_seq, ring, polls, process, locals, answer, pub>>

WriteRing(from, to, newRing) ==
  /\ wpc = from
  /\ wpc' = to
  /\ ring' = [ring EXCEPT ![wi] = newRing]
  /\ UNCHANGED <<write_seq, ts, wi, polls, process, locals, answer, pub>>

WriteHead    == WriteRing("head", "value", PushHead(ring[wi]))
WriteValue   == WriteRing("value", "current", PushValue(ring[wi], polls))
WriteCurrent == WriteRing("current", "extremes", PushCurrent(ring[wi], polls))

WriteExtremes ==
  /\ wpc = "extremes"
  /\ ring' = [ring EXCEPT ![wi] = PushExtremes(@, polls)]
  /\ IF wi < NumMetrics THEN wi' = wi + 1 /\ wpc' = "head"
                        ELSE wi' = wi /\ wpc' = "end"
  /\ UNCHANGED <<write_seq, ts, polls, process, locals, answer, pub>>

ShmEndWrite ==
  /\ wpc = "end"
  /\ write_seq' = write_seq + 1
  /\ wpc' = "idle"
  /\ pub' = [ts |-> ts, ring |-> ring]
  /\ UNCHANGED <<ts, ring, wi, polls, process, locals, answer>>

-----------------------------------------------------------------------------
(* The process ends: in order (the loop between two polls and every thread *)
(* of the service joined), or by a crash that takes its readers with it.   *)
(* The block stays in memory for as long as the client maps it.            *)
ServiceStop ==
  /\ wpc = "idle" /\ crashes < MaxCrashes
  /\ \A r \in ServiceReaders : rpc[r] = "idle"
  /\ wpc' = "down" /\ crashes' = crashes + 1
  /\ UNCHANGED <<block, wi, polls, clientOpen, locals, answer, pub>>

ServiceCrash ==
  /\ wpc # "down" /\ crashes < MaxCrashes
  /\ Writing /\ clientOpen => CrashMidWrite
  /\ wpc' = "down" /\ crashes' = crashes + 1
  /\ rpc'    = [r \in Readers |-> IF r \in ServiceReaders THEN "idle" ELSE rpc[r]]
  /\ req'    = [r \in Readers |-> IF r \in ServiceReaders THEN NoRequest ELSE req[r]]
  /\ tries'  = [r \in Readers |-> IF r \in ServiceReaders THEN 0 ELSE tries[r]]
  /\ seq0'   = [r \in Readers |-> IF r \in ServiceReaders THEN 0 ELSE seq0[r]]
  /\ buf'    = [r \in Readers |-> IF r \in ServiceReaders THEN <<>> ELSE buf[r]]
  /\ answer' = [r \in Readers |-> IF r \in ServiceReaders THEN NoAnswer ELSE answer[r]]
  /\ UNCHANGED <<block, wi, polls, clientOpen, pub>>

(* OpenFileMapping finds the block only while somebody holds it. *)
ShmReaderOpen ==
  /\ ~clientOpen /\ wpc # "down"
  /\ clientOpen' = TRUE
  /\ UNCHANGED <<block, writer, crashes, locals, answer, pub>>

ShmReaderClose ==
  /\ clientOpen
  /\ \A r \in ClientReaders : rpc[r] = "idle"
  /\ clientOpen' = FALSE
  /\ UNCHANGED <<block, writer, crashes, locals, answer, pub>>

-----------------------------------------------------------------------------
\* What the routines a reader runs ask for; the client's one thread runs both
\* of the client's.
Asks(r) == {what \in {"current", "history", "all"} :
              CASE what = "current" -> r \in MetricReaders
                [] what = "history" -> r \in HistoryReaders \cup RawReaders
                [] what = "all"     -> r \in SnapshotReaders \cup SpinReaders}

Attached(r) == IF r \in ClientReaders THEN clientOpen ELSE wpc # "down"

Begin(r, q) ==
  /\ rpc[r] = "idle" /\ Attached(r)
  /\ q.what \in Asks(r)
  /\ req'   = [req EXCEPT ![r] = q]
  /\ tries' = [tries EXCEPT ![r] = MaxRetries]
  /\ rpc'   = [rpc EXCEPT ![r] = IF r \in RawReaders THEN "copy" ELSE "load"]
  /\ answer' = [answer EXCEPT ![r] = NoAnswer]
  /\ UNCHANGED <<block, writer, process, seq0, buf, pub>>

(* The call returns a, and its locals are gone. *)
Return(r, a) ==
  /\ answer' = [answer EXCEPT ![r] = a]
  /\ rpc'   = [rpc EXCEPT ![r] = "idle"]
  /\ req'   = [req EXCEPT ![r] = NoRequest]
  /\ tries' = [tries EXCEPT ![r] = 0]
  /\ seq0'  = [seq0 EXCEPT ![r] = 0]
  /\ buf'   = [buf EXCEPT ![r] = <<>>]

(* One of the tries is used up, and with the last of them the call fails.  *)
Retry(r) ==
  IF tries[r] = 1 THEN Return(r, Refused)
  ELSE /\ tries' = [tries EXCEPT ![r] = @ - 1]
       /\ rpc'   = [rpc EXCEPT ![r] = "load"]
       /\ buf'   = [buf EXCEPT ![r] = <<>>]
       /\ seq0'  = [seq0 EXCEPT ![r] = 0]
       /\ UNCHANGED <<req, answer>>

\* Mutant: the test of the low bit forgotten.
StableUntested(s) == TRUE

\* shm_stable: the low bit is clear.
Stable(s) == s % 2 = 0

\* Mutant: the second look at the number dropped.
ConsistentUnchecked(r) == TRUE

\* shm_consistent: the number is what it was.
Consistent(r) == write_seq = seq0[r]

(* seq0 = write_seq.  A spinning reader simply loads again while it is odd. *)
LoadEven(r) ==
  /\ rpc[r] = "load" /\ Stable(write_seq)
  /\ seq0' = [seq0 EXCEPT ![r] = write_seq]
  /\ rpc'  = [rpc EXCEPT ![r] = "copy"]
  /\ UNCHANGED <<block, writer, process, req, tries, buf, answer, pub>>

LoadOdd(r) ==
  /\ rpc[r] = "load" /\ ~Stable(write_seq)
  /\ r \in RetryReaders
  /\ Retry(r)
  /\ UNCHANGED <<block, writer, process, pub>>

(* The words a request loads from the block, in order.  read_last loads    *)
(* count and head first and computes the slots from what it has loaded.    *)
WordsOf(q, b) ==
  CASE q.what = "current" -> 1
    [] q.what = "all"     -> NumMetrics + 1
    [] q.what = "history" -> IF b = <<>> THEN 2 ELSE 2 + Available(b[1], q.n)

Word(q, b, i) ==
  CASE q.what = "current" -> ring[q.metric].current
    [] q.what = "all"     -> IF i = 1 THEN ts ELSE ring[i - 1].current
    [] q.what = "history" ->
         IF i = 1 THEN ring[q.metric].count
         ELSE IF i = 2 THEN ring[q.metric].head
         ELSE ring[q.metric].values[SlotOf(b[2], Available(b[1], q.n), i - 3)]

(* What the caller gets from the words loaded. *)
Result(q, b) == IF q.what = "history" THEN [i \in 1 .. Len(b) - 2 |-> b[i + 2]] ELSE b

CopyWord(r) ==
  /\ rpc[r] = "copy"
  /\ LET q == req[r]
         b == Append(buf[r], Word(q, buf[r], Len(buf[r]) + 1))
     IN  /\ buf' = [buf EXCEPT ![r] = b]
         /\ rpc' = [rpc EXCEPT ![r] = IF Len(b) < WordsOf(q, b) THEN @ ELSE "check"]
  /\ UNCHANGED <<block, writer, process, req, tries, seq0, answer, pub>>

(* seq1 = write_seq: the words are used only if it is what it was. *)
Accept(r) ==
  /\ rpc[r] = "check"
  /\ Consistent(r) \/ r \in RawReaders
  /\ Return(r, Result(req[r], buf[r]))
  /\ UNCHANGED <<block, writer, process, pub>>

TornRead(r) ==
  /\ rpc[r] = "check" /\ ~Consistent(r)
  /\ \/ r \in RetryReaders /\ Retry(r)
     \/ r \in SpinReaders  /\ Return(r, Refused)
  /\ UNCHANGED <<block, writer, process, pub>>

-----------------------------------------------------------------------------
Write == ShmBeginWrite \/ WriteHeader \/ WriteHead \/ WriteValue \/ WriteCurrent
         \/ WriteExtremes \/ ShmEndWrite

Lifecycle == ShmOpen \/ ServiceStop \/ ServiceCrash \/ ShmReaderOpen \/ ShmReaderClose

Read(r) == (\E q \in Requests : Begin(r, q)) \/ LoadEven(r) \/ LoadOdd(r)
           \/ CopyWord(r) \/ Accept(r) \/ TornRead(r)

Next == Write \/ Lifecycle \/ \E r \in Readers : Read(r)

Spec == Init /\ [][Next]_vars

-----------------------------------------------------------------------------
Phases == {"down", "idle", "header", "head", "value", "current", "extremes", "end"}

TypeOK ==
  /\ write_seq \in Nat /\ ts \in Nat /\ ring \in [Metrics -> Ring]
  /\ wpc \in Phases /\ wi \in Metrics /\ polls \in Nat
  /\ crashes \in Nat /\ clientOpen \in BOOLEAN
  /\ rpc \in [Readers -> {"idle", "load", "copy", "check"}]
  /\ req \in [Readers -> Requests \cup {NoRequest}]
  /\ tries \in [Readers -> 0 .. MaxRetries]
  /\ seq0 \in [Readers -> Nat]
  /\ buf \in [Readers -> Seq(Int)]
  /\ pub \in Board!Block

\* shm_layout.h:27: "odd during write, even (and stable) when readable".
OddDuringWrite == Mapped => ((write_seq % 2 = 1) <=> Writing)

\* Whenever the sequence number is even the block is the work of one whole
\* poll: every ring has as many values as the others, and ends at the poll
\* that stamped the header.
EvenBlockIsOnePoll ==
  Mapped /\ write_seq % 2 = 0 =>
    \A m \in Metrics : /\ ring[m].current = ts
                       /\ ring[m].count = ring[1].count
                       /\ ring[m].count > 0 => ring[m].values[ring[m].head] = ts

\* A reader about to find write_seq unchanged holds what the block says now:
\* values of one poll, never a mix of two, whatever the writer did between
\* its two looks at the number.
AcceptedReadIsCurrent ==
  \A r \in Readers \ RawReaders :
    rpc[r] = "check" /\ write_seq = seq0[r] =>
      Result(req[r], buf[r]) = Board!AnswerTo([ts |-> ts, ring |-> ring], req[r])

\* ring_buffer.h:40: read_last answers oldest first, so the stamps a history
\* request is answered with increase: no sample is older than the one before it.
HistoryOldestFirst ==
  \A r \in HistoryReaders \cup RawReaders :
    answer[r] \notin {NoAnswer, Refused} =>
      \A i \in 1 .. Len(answer[r]) - 1 : answer[r][i] < answer[r][i + 1]

\* Readers see an atomic board (module TelemetryBoard).
ImplementsBoard == Board!Spec
=============================================================================
