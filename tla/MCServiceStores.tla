--------------------------- MODULE MCServiceStores ---------------------------
(***************************************************************************)
(* The two files the service opens at every start (InitStores), the keys   *)
(* of its API and the identity of the sensor, for TLC. Their handlers share*)
(* nothing but the process, so a behaviour is one of either, as part says. *)
(* HTTP threads and hosts are alike.                                       *)
(***************************************************************************)
EXTENDS ApiKeyStore, SensorIdentity, TLC

VARIABLE part

Symmetry ==
  Permutations(Https) \cup Permutations(EnrolThreads) \cup Permutations(Hosts)

Init == part \in {"keys", "identity"} /\ KeysInit /\ IdentityInit

Next ==
  \/ part = "keys" /\ KeysNext /\ UNCHANGED <<part, identityVars>>
  \/ part = "identity" /\ IdentityNext /\ UNCHANGED <<part, keyVars>>

Spec == Init /\ [][Next]_<<part, keyVars, identityVars>>
=============================================================================
