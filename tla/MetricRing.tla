----------------------------- MODULE MetricRing -----------------------------
(***************************************************************************)
(* The fixed-depth circular buffer that keeps the history of one metric    *)
(* (shared/ring_buffer.h).  This module is pure: a ring is a record with   *)
(* the fields of struct MetricRing, and each operator is the effect or the *)
(* result of one member function.                                          *)
(*                                                                         *)
(* The poll loop calls push while readers of other threads and of other    *)
(* processes may be inside read_last, so push is also given as the four    *)
(* memory writes it consists of (module SeqlockShm interleaves them).      *)
(***************************************************************************)
EXTENDS Integers, Sequences

CONSTANT Depth        \* MetricRing::DEPTH, 300 in the code

ASSUME DepthAssumption == Depth \in Nat \ {0}

Slots == 0 .. Depth - 1

Ring == [head : Slots, count : 0 .. Depth, current : Int,
         min_session : Int, max_session : Int, values : [Slots -> Int]]

\* reset(): everything zero.
EmptyRing == [head |-> 0, count |-> 0, current |-> 0,
              min_session |-> 0, max_session |-> 0,
              values |-> [s \in Slots |-> 0]]

-----------------------------------------------------------------------------
(* push(v), write by write and in the order of the source. *)

\* Mutant: the wrap forgotten.
PushHeadNoWrap(ring) == [ring EXCEPT !.head = @ + 1]

PushHead(ring)       == [ring EXCEPT !.head = (@ + 1) % Depth]

PushValue(ring, v)   == [ring EXCEPT !.values[ring.head] = v]

PushCurrent(ring, v) == [ring EXCEPT !.current = v]

\* Mutant: the first value compared with the zeros of reset().
PushExtremesNoFirst(ring, v) ==
  [ring EXCEPT
     !.min_session = IF v < @ THEN v ELSE @,
     !.max_session = IF v > @ THEN v ELSE @,
     !.count       = IF @ < Depth THEN @ + 1 ELSE @]

PushExtremes(ring, v) ==
  [ring EXCEPT
     !.min_session = IF ring.count = 0 \/ v < @ THEN v ELSE @,
     !.max_session = IF ring.count = 0 \/ v > @ THEN v ELSE @,
     !.count       = IF @ < Depth THEN @ + 1 ELSE @]

Push(ring, v) ==
  PushExtremes(PushCurrent(PushValue(PushHead(ring), v), v), v)

-----------------------------------------------------------------------------
(* read_last(out, n) and avg_last(n). *)

\* How many values a request for n of them gets.
Available(count, n) == IF count < n THEN count ELSE n

\* Mutant: one slot too old.
SlotOfOffByOne(head, avail, i) == (head + Depth - avail + i) % Depth

\* The slot of the i-th (0-based, oldest first) of the last avail values.
SlotOf(head, avail, i) == (head + Depth - avail + 1 + i) % Depth

ReadLast(ring, n) ==
  LET avail == Available(ring.count, n)
  IN  [i \in 1 .. avail |-> ring.values[SlotOf(ring.head, avail, i - 1)]]

\* The running sum of a sequence; sums are exact, doubles are not modelled.
SumOf(s) ==
  LET sum[i \in 0 .. Len(s)] == IF i = 0 THEN 0 ELSE sum[i - 1] + s[i]
  IN  sum[Len(s)]

\* avg_last as the fraction sum / avail; an empty ring answers 0.
AvgLast(ring, n) ==
  IF ring.count = 0 THEN [sum |-> 0, over |-> 1]
  ELSE [sum |-> SumOf(ReadLast(ring, n)), over |-> Available(ring.count, n)]

=============================================================================
