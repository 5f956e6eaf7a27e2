--------------------------- MODULE TelemetryBoard ---------------------------
(***************************************************************************)
(* What the shared memory block promises its readers, with no seqlock in   *)
(* sight: the board shows one poll at a time.  A poll replaces the whole   *)
(* board in one step, and an answer is computed from the board in one      *)
(* step.  Module SeqlockShm implements this.                               *)
(***************************************************************************)
EXTENDS MetricRing

CONSTANTS NumMetrics,    \* the metrics every poll pushes
          Readers,       \* everything that reads the block
          MaxPolls,      \* bound of the runs: polls, which stamp the boards
          NoAnswer, Refused

Metrics == 1 .. NumMetrics

VARIABLES board, answer

vars == <<board, answer>>

\* A board: the stamp of the poll that published it, and every ring.
Block == [ts : Nat, ring : [Metrics -> Ring]]

EmptyBlock == [ts |-> 0, ring |-> [m \in Metrics |-> EmptyRing]]

\* What the readers ask for: one current value, the last n values of a
\* metric, or the stamp with every current value.
Requests == [what : {"current"}, metric : Metrics, n : {0}]
       \cup [what : {"history"}, metric : Metrics, n : 1 .. Depth]
       \cup [what : {"all"}, metric : {0}, n : {0}]

AnswerTo(block, req) ==
  CASE req.what = "current" -> <<block.ring[req.metric].current>>
    [] req.what = "history" -> ReadLast(block.ring[req.metric], req.n)
    [] req.what = "all"     -> [i \in 1 .. NumMetrics + 1 |->
                                  IF i = 1 THEN block.ts
                                  ELSE block.ring[i - 1].current]

Init == board = EmptyBlock /\ answer = [r \in Readers |-> NoAnswer]

\* One poll: a later stamp, and one more value in every ring.
Publish ==
  /\ \E t \in 1 .. MaxPolls :
       /\ t > board.ts
       /\ board' = [ts |-> t,
                    ring |-> [m \in Metrics |-> Push(board.ring[m], t)]]
  /\ UNCHANGED answer

\* A reader is answered from the board as it is, or is refused.
Answer(r) ==
  /\ \/ \E req \in Requests : answer' = [answer EXCEPT ![r] = AnswerTo(board, req)]
     \/ answer' = [answer EXCEPT ![r] = Refused]
  /\ UNCHANGED board

\* Readers that take their answer away, or vanish with their process.
Forget(R) ==
  /\ answer' = [r \in Readers |-> IF r \in R THEN NoAnswer ELSE answer[r]]
  /\ UNCHANGED board

\* The block is created anew when nobody had kept it.
Recreate ==
  /\ board' = EmptyBlock
  /\ UNCHANGED answer

Next == \/ Publish
        \/ \E r \in Readers : Answer(r)
        \/ \E R \in SUBSET Readers : Forget(R)
        \/ Recreate

Spec == Init /\ [][Next]_vars
=============================================================================
