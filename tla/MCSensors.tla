------------------------------ MODULE MCSensors ------------------------------
(***************************************************************************)
(* The two ends of a metric's way through the service for TLC: what a poll *)
(* takes from the counters of the machine, and what a ring of the block    *)
(* keeps of the values pushed. Neither reads the other's state, so a       *)
(* behaviour is one of either, as part says.                               *)
(***************************************************************************)
EXTENDS MCSensorPoll, RingHistory

VARIABLE part

Init ==
  /\ part \in {"poll", "ring"}
  /\ RingInit
  /\ SensorInit

Next ==
  \/ part = "poll" /\ SensorNext /\ UNCHANGED <<part, ringVars>>
  \/ part = "ring" /\ RingNext /\ UNCHANGED <<part, sensorVars>>

Spec == Init /\ [][Next]_<<part, sensorVars, ringVars>>
=============================================================================
