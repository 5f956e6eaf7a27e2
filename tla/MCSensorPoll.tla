---------------------------- MODULE MCSensorPoll -----------------------------
(***************************************************************************)
(* SensorPoll for TLC: two adapters, and two display adapters, of which the*)
(* second takes its usage from the engine counters.                        *)
(***************************************************************************)
EXTENDS SensorPoll

CONSTANTS n1, n2

MCNicTable == <<n1, n2>>

MCGpus == <<[name |-> "g1", vendor |-> "NVIDIA", usage |-> 0],
            [name |-> "g2", vendor |-> "Intel", usage |-> 0]>>

Nominal == [cpu |-> 50, mem |-> 50, gpu |-> {50}, disk_busy |-> {100},
            core_sum_ok |-> TRUE, poll_ms |-> 60, temps |-> {40}, self_cpu |-> 1,
            engines |-> [i \in 0 .. 1 |-> 30 + i]]

MCReadings == {Nominal}
=============================================================================
