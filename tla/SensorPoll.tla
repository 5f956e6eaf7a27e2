----------------------------- MODULE SensorPoll -----------------------------
(***************************************************************************)
(* The sensors behind one poll (service/sensors/*, poll_loop.cpp).  The    *)
(* system keeps counters that only grow until they wrap or a driver starts *)
(* them again; a sensor keeps the previous sample of each device and       *)
(* publishes the difference.  Devices come and go between two polls, and   *)
(* what is published goes to a numbered slot of the block: the number of a *)
(* drive, the position of an adapter in the list of this poll.             *)
(*                                                                         *)
(* One interval is one time unit, so a rate is the difference itself.      *)
(* owed and clean are not the service's: they record what a device has     *)
(* moved since its last sample, and whether its counter went on without    *)
(* starting again meanwhile.                                               *)
(***************************************************************************)
EXTENDS Subsequences

CONSTANTS NicTable,      \* the adapters, in the order GetIfTable2 lists them
          MaxDrives,     \* drive numbers tried, 16 in the code
          DriveSlots,    \* DISK_MAX_COUNT, 8 in the code
          NicSlots,      \* NET_MAX_COUNT, 8 in the code
          Gpus,          \* sequence of [name, vendor, usage]
          Mod,           \* 2^64: counters of drives and adapters
          Narrow,        \* 2^32: PageFaultCount
          Readings,      \* the values of the sensors that keep no sample
          Faults, None,
          MaxBusy        \* bound of the runs: devices whose counters move

Drives  == 0 .. MaxDrives - 1
Nics    == {NicTable[i] : i \in 1 .. Len(NicTable)}
Devices == Drives \cup Nics \cup {Faults}
\* The adapters whose library asks them anew in every poll; NVML's are listed
\* once, by NvmlInit.
OtherGpus == {Gpus[i].name : i \in {j \in 1 .. Len(Gpus) : Gpus[j].vendor # "NVIDIA"}}

\* GetIfTable2 lists an adapter once.
ASSUME SensorAssumption ==
  /\ MaxDrives \in Nat /\ DriveSlots \in Nat /\ NicSlots \in Nat
  /\ Mod \in Nat /\ Mod % 2 = 0 /\ Narrow \in 1 .. Mod
  /\ NicTable \in Seq(Nics) /\ Gpus \in Seq({Gpus[i] : i \in 1 .. Len(Gpus)})
  /\ \A i, j \in 1 .. Len(NicTable) : i # j => NicTable[i] # NicTable[j]
  /\ Faults \notin Drives /\ None \notin Nat

VARIABLES raw, present, owed, clean,     \* the machine
          busy,                          \* bound of the runs
          prev,                          \* s_prev of disk.cpp, network.cpp, memory.cpp
          block                          \* the slots, the counts, the failed checks

machineVars == <<raw, present, owed, clean, busy>>
sensorVars  == <<raw, present, owed, clean, busy, prev, block>>

-----------------------------------------------------------------------------
(* The counters. *)

WidthOf(d) == IF d = Faults THEN Narrow ELSE Mod

\* LONGLONG differences are signed, ULONG64 ones are not.
Signed(x) == ((x + Mod \div 2) % Mod) - Mod \div 2
Unsigned(x) == x % Mod

\* The most a device may move between two samples for its rate to fit.
MaxMoved(d) == IF d \in Drives THEN Mod \div 2 - 1 ELSE WidthOf(d) - 1

\* Mutant: the baseline of a device seen for the first time is zero.
RateFromZero(d) ==
  LET base  == IF prev[d] = None THEN 0 ELSE prev[d]
      delta == raw[d] - base
  IN  IF d \in Drives THEN Signed(delta) ELSE Unsigned(delta)

\* A sample of 0 page faults is taken for none.
HasSample(d) == prev[d] # None /\ (d = Faults => prev[d] > 0)

\* The published rate of a device: 0 when this sample is its first.
Rate(d) ==
  LET delta == raw[d] - (IF HasSample(d) THEN prev[d] ELSE raw[d])
  IN  IF d \in Drives THEN Signed(delta) ELSE Unsigned(delta)

Sample(d) ==
  [dev |-> d, rate |-> Rate(d), due |-> owed[d], clean |-> clean[d],
   fresh |-> TRUE]

NoSample == [dev |-> None, rate |-> 0, due |-> 0, clean |-> TRUE, fresh |-> FALSE]

\* Mutant: DiskPoll skips a missing drive instead of stopping there.
DriveListGaps ==
  Kept([k \in 1 .. MaxDrives |-> k - 1], {k \in 1 .. MaxDrives : k - 1 \in present})

\* The drives of a poll (a set of one list): DiskPoll stops at the first number
\* that does not open.
DriveList ==
  {[k \in 1 .. n |-> k - 1] :
     n \in {k \in 0 .. MaxDrives : 0 .. k - 1 \subseteq present
                                /\ (k = MaxDrives \/ k \notin present)}}

\* The adapters of a poll (a set of one list).
NicList == Kept(NicTable, {i \in DOMAIN NicTable : NicTable[i] \in present})

-----------------------------------------------------------------------------
(* The display adapters keep no counter: each library appends the ones it  *)
(* reports to the list of this poll, numbering them on. silent are those   *)
(* that do not answer.                                                     *)

AppendGpus(list, vendor, silent) ==
  {list \o [i \in 1 .. Len(own) |-> [gpu |-> own[i], index |-> Len(list) + i - 1]] :
     own \in Kept(Gpus, {i \in DOMAIN Gpus :
                          Gpus[i].vendor = vendor /\ Gpus[i].name \notin silent})}

NvmlPoll(list, silent) == AppendGpus(list, "NVIDIA", silent)
AdlPoll(list, silent)  == AppendGpus(list, "AMD", silent)
IgclPoll(list, silent) == AppendGpus(list, "Intel", silent)

GpuPoll(silent) ==
  UNION {UNION {IgclPoll(both, silent) : both \in AdlPoll(first, silent)} :
           first \in NvmlPoll(<<>>, silent)}

\* The engine counters of the system are joined by the number; they replace
\* a usage of 0, never NVIDIA's.
InjectEngines(list, engines) ==
  [i \in 1 .. Len(list) |->
     LET g == list[i]
     IN  [gpu |-> g.gpu.name, index |-> g.index,
          usage |-> IF g.gpu.vendor # "NVIDIA" /\ g.gpu.usage = 0
                    THEN engines[g.index] ELSE g.gpu.usage]]

\* RunValidations: the checks that fail; VC-05 and VC-06 always pass.
RunValidations(r) ==
     (IF r.cpu \in 0 .. 100 THEN {} ELSE {"VC-01"})
  \cup (IF r.mem \in 1 .. 100 THEN {} ELSE {"VC-02"})
  \cup (IF \A g \in r.gpu : g \in 0 .. 100 THEN {} ELSE {"VC-03"})
  \cup (IF \A b \in r.disk_busy : b \in 0 .. 100 THEN {} ELSE {"VC-04"})
  \cup (IF r.core_sum_ok THEN {} ELSE {"VC-07"})
  \cup (IF r.poll_ms \in 0 .. 199 THEN {} ELSE {"VC-08"})
  \cup (IF \A t \in r.temps : t \in -10 .. 150 THEN {} ELSE {"VC-09"})
  \cup (IF r.self_cpu < 5 THEN {} ELSE {"VC-10"})

-----------------------------------------------------------------------------
\* The seeds of DiskInit and NetInit; MemInit takes no sample.
SensorInit ==
  /\ busy \in {b \in SUBSET Devices : Cardinality(b) <= MaxBusy}
  \* about to wrap
  /\ raw = [d \in Devices |-> WidthOf(d) - 1]
  /\ present = Devices
  /\ owed = [d \in Devices |-> 0]
  /\ clean = [d \in Devices |-> TRUE]
  /\ prev = [d \in Devices |-> IF d = Faults THEN None ELSE raw[d]]
  /\ block = [disk |-> [k \in 0 .. DriveSlots - 1 |-> NoSample],
              nic  |-> [k \in 0 .. NicSlots - 1 |-> NoSample],
              faults |-> NoSample, gpus |-> <<>>,
              active_disk_count |-> 0, active_nic_count |-> 0,
              failed |-> {}]

\* A device does n units of work; its counter wraps at its width.
Moves(d, n) ==
  /\ d \in busy /\ d \in present
  /\ owed[d] + n <= MaxMoved(d)
  /\ raw' = [raw EXCEPT ![d] = (@ + n) % WidthOf(d)]
  /\ owed' = [owed EXCEPT ![d] = IF HasSample(d) THEN @ + n ELSE 0]
  \* the faults are widened before they are subtracted: a wrap shows
  /\ clean' = [clean EXCEPT ![d] = @ /\ (d # Faults \/ raw[d] + n < Narrow)]
  /\ UNCHANGED <<present, busy, prev, block>>

\* A driver is restarted, a drive is replaced: the counter starts again.
CounterRestarts(d) ==
  /\ d \in busy \ {Faults} /\ raw[d] # 0
  /\ raw' = [raw EXCEPT ![d] = 0]
  /\ owed' = [owed EXCEPT ![d] = 0]
  /\ clean' = [clean EXCEPT ![d] = ~HasSample(d)]
  /\ UNCHANGED <<present, busy, prev, block>>

PlugChanges(d) ==
  /\ d # Faults
  /\ present' = IF d \in present THEN present \ {d} ELSE present \cup {d}
  /\ UNCHANGED <<raw, owed, clean, busy, prev, block>>

\* ShmPush into the slots below the count of this poll and the table's size;
\* of an older push only the device is kept here.
Published(slots, list) ==
  [k \in DOMAIN slots |->
     IF k < Len(list) THEN Sample(list[k + 1])
     ELSE [NoSample EXCEPT !.dev = slots[k].dev]]

\* The devices of a poll.
Sampled(drives, nics) ==
  {drives[i] : i \in 1 .. Len(drives)} \cup {nics[i] : i \in 1 .. Len(nics)} \cup {Faults}

\* One poll: tableRead is whether GetIfTable2 answers, silent the display
\* adapters that do not answer, r.engines the engine counters of the system.
Poll ==
  \E tableRead \in BOOLEAN, r \in Readings, silent \in SUBSET OtherGpus, drives \in DriveList :
  \E nics \in (IF tableRead THEN NicList ELSE {<<>>}), gpus \in GpuPoll(silent) :
    /\ block' = [disk |-> Published(block.disk, drives),
                 nic  |-> Published(block.nic, nics),
                 faults |-> Sample(Faults),
                 gpus |-> InjectEngines(gpus, r.engines),
                 active_disk_count |-> Len(drives),
                 active_nic_count |-> Len(nics),
                 failed |-> RunValidations(r)]
    /\ prev'  = [d \in Devices |-> IF d \in Sampled(drives, nics) THEN raw[d] ELSE prev[d]]
    /\ owed'  = [d \in Devices |-> IF d \in Sampled(drives, nics) THEN 0 ELSE owed[d]]
    /\ clean' = [d \in Devices |-> d \in Sampled(drives, nics) \/ clean[d]]
    /\ UNCHANGED <<raw, present, busy>>

SensorNext ==
  \/ \E d \in Devices : \E n \in 1 .. Mod - 1 : Moves(d, n)
  \/ \E d \in Devices : CounterRestarts(d) \/ PlugChanges(d)
  \/ Poll

SensorSpec == SensorInit /\ [][SensorNext]_sensorVars

-----------------------------------------------------------------------------
SensorTypeOK ==
  /\ raw \in [Devices -> 0 .. Mod - 1] /\ owed \in [Devices -> 0 .. Mod - 1]
  /\ present \subseteq Devices /\ clean \in [Devices -> BOOLEAN]
  /\ prev \in [Devices -> 0 .. Mod - 1 \cup {None}]
  /\ block.failed \subseteq {"VC-01", "VC-02", "VC-03", "VC-04", "VC-07",
                             "VC-08", "VC-09", "VC-10"}

AllSlots == {block.disk[k] : k \in DOMAIN block.disk}
              \cup {block.nic[k] : k \in DOMAIN block.nic} \cup {block.faults}

\* A published rate (disk.cpp, network.cpp, memory.cpp) is what the device has
\* moved since the sample before, also when the counter has wrapped, when the
\* device has missed polls in between or is seen for the first time, unless
\* its counter has started again.
RateIsTraffic == \A s \in AllSlots : s.clean => s.rate = s.due

\* DiskPoll gives a drive the slot of its own number whatever is unplugged:
\* the history of a slot never mixes two drives.
SlotIsDrive == \A k \in DOMAIN block.disk : block.disk[k].dev \in {None, k}

\* What the counts of the header announce (and the table has room for) was
\* pushed by this very poll, no device twice, and the number a display adapter
\* carries, which the engine counters are joined by, is its position.
ActiveIsThisPoll ==
  /\ \A k \in DOMAIN block.disk :
       k < block.active_disk_count <=> block.disk[k].fresh
  /\ \A k \in DOMAIN block.nic :
       k < block.active_nic_count <=> block.nic[k].fresh
  /\ \A j, k \in DOMAIN block.nic :
       block.nic[j].fresh /\ block.nic[k].fresh /\ j # k
         => block.nic[j].dev # block.nic[k].dev
  /\ \A i \in 1 .. Len(block.gpus) : block.gpus[i].index = i - 1

\* The numbered slots of the block mean what their readers take them for.
SlotsInv == SensorTypeOK /\ SlotIsDrive /\ ActiveIsThisPoll

\* validation.cpp:47-48: a network counter that goes back is caught by VC-05,
\* because "network.cpp clamps at 0".
WrapIsCaught ==
  \A k \in DOMAIN block.nic :
    \/ block.nic[k].clean
    \/ block.nic[k].rate = 0
    \/ "VC-05" \in block.failed
=============================================================================
