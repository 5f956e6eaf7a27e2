--------------------------- MODULE SessionLedger ----------------------------
(***************************************************************************)
(* What the logging sessions promise the callers of the API, without       *)
(* locks, pointers, files or polls: a session is started once, runs, ends  *)
(* once, and may be deleted; the ledger (index.jsonl) gets one entry for   *)
(* each session that is stopped, as long as the disk has room.  Module     *)
(* LogSessions implements this.                                            *)
(***************************************************************************)
EXTENDS Sequences

CONSTANT Ids       \* session ids

VARIABLES phase,   \* where in its life each session is
          ledger,  \* the sessions stopped so far, in order
          room     \* is there room for more lines?

vars == <<phase, ledger, room>>

Phases == {"unborn", "active", "stopped", "failed", "gone"}

Init == phase = [id \in Ids |-> "unborn"] /\ ledger = <<>> /\ room = TRUE

\* A session enters the books running, or already failed.
Start(id) ==
  /\ phase[id] = "unborn"
  /\ \E p \in {"active", "failed"} : phase' = [phase EXCEPT ![id] = p]
  /\ UNCHANGED <<ledger, room>>

\* Its line is lost only for want of room.
Stop(id) ==
  /\ phase[id] = "active"
  /\ phase' = [phase EXCEPT ![id] = "stopped"]
  /\ ledger' = Append(ledger, id) \/ (~room /\ ledger' = ledger)
  /\ UNCHANGED room

Fail(id) ==
  /\ phase[id] = "active"
  /\ phase' = [phase EXCEPT ![id] = "failed"]
  /\ UNCHANGED <<ledger, room>>

Delete(id) ==
  /\ phase[id] \in {"active", "stopped", "failed"}
  /\ phase' = [phase EXCEPT ![id] = "gone"]
  /\ UNCHANGED <<ledger, room>>

\* A new process knows nothing of the sessions of the one before.
Restart ==
  /\ phase' = [id \in Ids |-> IF phase[id] = "unborn" THEN "unborn" ELSE "gone"]
  /\ UNCHANGED <<ledger, room>>

FillsUp == room' = FALSE /\ UNCHANGED <<phase, ledger>>

Next ==
  \/ Restart \/ FillsUp
  \/ \E id \in Ids : Start(id) \/ Stop(id) \/ Fail(id) \/ Delete(id)

Spec == Init /\ [][Next]_vars
=============================================================================
