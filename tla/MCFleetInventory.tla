-------------------------- MODULE MCFleetInventory --------------------------
(***************************************************************************)
(* FleetInventory for TLC: nothing tells one device, address or thread     *)
(* from another.                                                           *)
(***************************************************************************)
EXTENDS FleetInventory, TLC

Symmetry == Permutations(Devices) \cup Permutations(Addresses) \cup Permutations(Https)
=============================================================================
