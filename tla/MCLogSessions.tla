--------------------------- MODULE MCLogSessions ----------------------------
(***************************************************************************)
(* LogSessions for TLC: session ids are handed out, and addresses are      *)
(* used, in any order, so that behaviours that differ in their names are   *)
(* the same.                                                               *)
(***************************************************************************)
EXTENDS LogSessions, TLC

\* Without a limit, which a negative duration asks for too, or with one.
MCRequests == {<<0, TRUE>>, <<-1, TRUE>>, <<1, FALSE>>}

Symmetry == Permutations(Ids) \cup Permutations(Cells)
=============================================================================
