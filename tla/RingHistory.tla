---------------------------- MODULE RingHistory -----------------------------
(***************************************************************************)
(* What a ring promises: after any sequence of pushes it answers as if it  *)
(* had kept every value.  history is the whole sequence of values pushed   *)
(* since reset(); the service never keeps it, it is the reference the ring *)
(* is compared with.                                                       *)
(***************************************************************************)
EXTENDS MetricRing

CONSTANTS Values,        \* the values pushed
          MaxPushes      \* bound of the runs: pushes since reset()

ASSUME RingHistoryAssumption == Values \subseteq Int /\ MaxPushes \in Nat

VARIABLES kept, history

ringVars == <<kept, history>>

RingInit == kept = EmptyRing /\ history = <<>>

Store(v) ==
  /\ Len(history) < MaxPushes
  /\ kept' = Push(kept, v)
  /\ history' = Append(history, v)

Clear ==
  /\ history # <<>>
  /\ kept' = EmptyRing
  /\ history' = <<>>

RingNext == (\E v \in Values : Store(v)) \/ Clear

RingSpec == RingInit /\ [][RingNext]_ringVars

-----------------------------------------------------------------------------
\* The last n values of the history, oldest first (all of them if fewer).
Suffix(n) ==
  LET k == Available(Len(history), n)
  IN  [i \in 1 .. k |-> history[Len(history) - k + i]]

RingTypeOK == kept \in Ring /\ history \in Seq(Values)

\* head and count place the newest count values in the slots that end at
\* head: slot head - j (modulo Depth) holds the j-th newest value.
RingHoldsSuffix ==
  /\ kept.count = Available(Len(history), Depth)
  /\ \A j \in 0 .. kept.count - 1 :
       kept.values[(kept.head + Depth - j) % Depth] = history[Len(history) - j]

\* read_last (ring_buffer.h:41): whatever was pushed, and however often the
\* ring has wrapped, a request for n values gets exactly the n newest ones
\* (at most Depth) in the order they were pushed.
ReadLastIsSuffix ==
  \A n \in 0 .. Depth + 1 : ReadLast(kept, n) = Suffix(Available(Depth, n))

\* avg_last (ring_buffer.h:51) is the mean of those same values.
MeanIsOfSuffix ==
  \A n \in 1 .. Depth + 1 :
    LET avg == AvgLast(kept, n)
        s   == Suffix(Available(Depth, n))
    IN  /\ avg.over > 0
        /\ avg.sum = SumOf(s)
        /\ history # <<>> => avg.over = Len(s)

ExtremesAreOfHistory ==
  history # <<>> =>
    /\ kept.current = history[Len(history)]
    /\ \A i \in 1 .. Len(history) :
         kept.min_session <= history[i] /\ history[i] <= kept.max_session
    /\ {kept.min_session, kept.max_session}
         \subseteq {history[i] : i \in 1 .. Len(history)}

\* The mean never counts a slot that was not written since reset(), and
\* min_session and max_session are the extremes of the whole session: of the
\* values the ring has overwritten too, and never the zeros of reset().
StatisticsMatchHistory == MeanIsOfSuffix /\ ExtremesAreOfHistory
=============================================================================
