----------------------------- MODULE MCFleetJobs ----------------------------
(***************************************************************************)
(* FleetJobs for TLC: nothing tells one job or sensor from another.        *)
(***************************************************************************)
EXTENDS FleetJobs, TLC

Symmetry == Permutations(Jobs) \cup Permutations(Sensors)
=============================================================================
