--------------------------- MODULE ProcessWatcher ---------------------------
(***************************************************************************)
(* The process watcher (service/process_watcher/watcher.cpp): HTTP threads *)
(* change the list of executables and pids to watch, and the poll thread   *)
(* turns it into entries, samples them, sweeps the dead ones and writes    *)
(* the rest to the watch slots of the shared block.  The mutex is held     *)
(* over a whole Poll, but the operating system starts and ends processes   *)
(* and reuses their pids meanwhile, so a Poll is three steps: the snapshot *)
(* of the process list, the opening of the processes it found, and the     *)
(* sampling of each entry.  A process is known by its creation time.       *)
(***************************************************************************)
EXTENDS Integers, Sequences, FiniteSets, SequencesExt, Subsequences

CONSTANTS Pids,        \* process ids, which the system hands out again
          Exes,        \* executables (their names in lower case)
          WatchMax,    \* the watch slots of the block, 8 in the code
          MaxProcs,    \* bound: processes ever started
          MaxCalls,    \* bound: API calls that change the configuration
          Absent

ASSUME WatcherAssumption ==
  IsFiniteSet(Pids) /\ WatchMax \in Nat /\ MaxProcs \in Nat /\ MaxCalls \in Nat

VARIABLES
  proc, procs,    \* the process behind each pid, and how many there were
  names, pids,    \* m_cfg.exe_names and m_cfg.pids
  entries,        \* m_entries
  ppc, running,   \* the poll thread, and the process list it has taken
  slots,          \* whose values the watch slots hold (their length: the count)
  calls           \* API calls so far

config == <<names, pids>>
os     == <<proc, procs>>
vars   == <<os, config, entries, ppc, running, slots, calls>>

\* What OpenProcess grants: "full" for query and VM_READ, "limited" for query.
Access  == {"full", "limited", "none"}
Process == [exe : Exes, birth : 1 .. MaxProcs, access : Access]

(* sampled stands for the accumulators of the previous tick: the processes *)
(* whose counters have gone into them.                                     *)
Entry   == [exe : Exes, pid : Pids, birth : 1 .. MaxProcs, alive : BOOLEAN,
            sampled : SUBSET (1 .. MaxProcs)]

Opens(pid, access) == proc[pid] # Absent /\ proc[pid].access \in access
Locked == ppc \in {"snapshot", "discovered"}

Init ==
  /\ proc = [p \in Pids |-> Absent] /\ procs = 0
  /\ names = {} /\ pids = <<>> /\ entries = <<>>
  /\ ppc = "idle" /\ running = {} /\ slots = <<>> /\ calls = 0

-----------------------------------------------------------------------------
\* The operating system.

ProcessStart(p, exe, access) ==
  /\ proc[p] = Absent /\ procs < MaxProcs
  /\ procs' = procs + 1
  /\ proc' = [proc EXCEPT ![p] = [exe |-> exe, birth |-> procs', access |-> access]]
  /\ UNCHANGED <<config, entries, ppc, running, slots, calls>>

ProcessExit(p) ==
  /\ proc[p] # Absent
  /\ proc' = [proc EXCEPT ![p] = Absent]
  /\ UNCHANGED <<procs, config, entries, ppc, running, slots, calls>>

-----------------------------------------------------------------------------
\* HTTP threads.

Call ==
  /\ ~Locked /\ calls < MaxCalls
  /\ calls' = calls + 1
  /\ UNCHANGED <<os, ppc, running, slots>>

\* The entries for which Hit holds are dead from now on.
Killed(Hit(_)) ==
  [i \in DOMAIN entries |->
     IF Hit(entries[i]) THEN [entries[i] EXCEPT !.alive = FALSE] ELSE entries[i]]

AddWatch(exe) ==
  /\ Call /\ exe \notin names
  /\ names' = names \cup {exe}
  /\ UNCHANGED <<pids, entries>>

RemoveWatch(exe) ==
  /\ Call /\ exe \in names
  /\ names' = names \ {exe}
  /\ entries' = Killed(LAMBDA e : e.exe = exe)
  /\ UNCHANGED pids

AddPid(p) ==
  /\ Call /\ p \notin Range(pids)
  /\ pids' = Append(pids, p)
  /\ UNCHANGED <<names, entries>>

RemovePid(p) ==
  /\ Call
  /\ \E i \in DOMAIN pids : pids[i] = p /\ pids' = RemoveAt(pids, i)
  /\ entries' = Killed(LAMBDA e : e.pid = p)
  /\ UNCHANGED names

-----------------------------------------------------------------------------
\* The poll thread.

\* Mutant: the list of entries not looked at.
AlreadyTrackedNever(pid, list) == FALSE

\* A dead entry that has not been swept yet counts.
AlreadyTracked(pid, list) == \E i \in DOMAIN list : list[i].pid = pid

NewEntry(exe, pid) ==
  [exe |-> exe, pid |-> pid, birth |-> proc[pid].birth, alive |-> TRUE, sampled |-> {}]

\* The processes of the snapshot, in its order, that are watched by name.
FoundByName(snapshot) ==
  {[i \in DOMAIN new |-> NewEntry(new[i].exe, new[i].pid)] :
     new \in Kept(snapshot, {i \in DOMAIN snapshot :
                              /\ snapshot[i].exe \in names
                              /\ ~AlreadyTracked(snapshot[i].pid, entries)
                              /\ Opens(snapshot[i].pid, {"full"})})}

\* The pids watched as such; for these the snapshot is not needed.
FoundByPid(list) ==
  {[i \in DOMAIN new |-> NewEntry(proc[new[i]].exe, new[i])] :
     new \in Kept(pids, {i \in DOMAIN pids : /\ ~AlreadyTracked(pids[i], list)
                                            /\ Opens(pids[i], {"full", "limited"})})}

\* Mutant: a process that cannot be opened keeps its entry.
UpdateEntryKeepsClosed(e) ==
  IF ~Opens(e.pid, {"full"}) THEN e
  ELSE IF proc[e.pid].birth = e.birth THEN [e EXCEPT !.sampled = @ \cup {e.birth}]
  ELSE [e EXCEPT !.alive = FALSE]

\* The entry of a process that is gone, or whose pid is another's, is dead.
UpdateEntry(e) ==
  IF Opens(e.pid, {"full"}) /\ proc[e.pid].birth = e.birth
  THEN [e EXCEPT !.sampled = @ \cup {proc[e.pid].birth}]
  ELSE [e EXCEPT !.alive = FALSE]

\* Mutant: the dead stay.
RemoveDeadEntriesNot(list) == {list}

RemoveDeadEntries(list) == Kept(list, {i \in DOMAIN list : list[i].alive})

\* The births are not in the code's list; only DetectedOnNextPoll looks at them.
SnapshotProcesses ==
  /\ ppc = "idle"
  /\ ppc' = "snapshot"
  /\ running' = {[exe |-> proc[p].exe, pid |-> p, birth |-> proc[p].birth] :
                    p \in {q \in Pids : proc[q] # Absent}}
  /\ UNCHANGED <<os, config, entries, slots, calls>>

\* The process list comes in any order.
DiscoverNewProcesses ==
  /\ ppc = "snapshot"
  /\ ppc' = "discovered"
  /\ \E snapshot \in SetToSeqs(running) : \E found \in FoundByName(snapshot) :
       LET named == entries \o found
       IN  entries' \in {named \o more : more \in FoundByPid(named)}
  /\ UNCHANGED <<os, config, running, slots, calls>>

\* The rest of Poll.
Poll ==
  /\ ppc = "discovered"
  /\ ppc' = "polled"
  /\ entries' \in RemoveDeadEntries([i \in DOMAIN entries |-> UpdateEntry(entries[i])])
  /\ UNCHANGED <<os, config, running, slots, calls>>

\* The entries before the first dead one, as many as there are slots.
Writable ==
  {i \in DOMAIN entries : i <= WatchMax /\ \A j \in 1 .. i : entries[j].alive}

WriteToShm ==
  /\ ppc = "polled"
  /\ ppc' = "idle" /\ running' = {}
  /\ slots' = [i \in 1 .. Cardinality(Writable) |->
                 [pid |-> entries[i].pid, birth |-> entries[i].birth]]
  /\ UNCHANGED <<os, config, entries, calls>>

PollThread == SnapshotProcesses \/ DiscoverNewProcesses \/ Poll \/ WriteToShm

System == \E p \in Pids :
            \/ \E exe \in Exes, access \in Access : ProcessStart(p, exe, access)
            \/ ProcessExit(p)

Api == \/ \E exe \in Exes : AddWatch(exe) \/ RemoveWatch(exe)
       \/ \E p \in Pids : AddPid(p) \/ RemovePid(p)

Next == System \/ Api \/ PollThread

Spec == Init /\ [][Next]_vars

-----------------------------------------------------------------------------
TypeOK ==
  /\ proc \in [Pids -> Process \cup {Absent}] /\ procs \in 0 .. MaxProcs
  /\ names \subseteq Exes /\ pids \in Seq(Pids) /\ entries \in Seq(Entry)
  /\ ppc \in {"idle", "snapshot", "discovered", "polled"}
  /\ running \subseteq [exe : Exes, pid : Pids, birth : 1 .. MaxProcs]
  /\ slots \in Seq([pid : Pids, birth : 1 .. MaxProcs]) /\ Len(slots) <= WatchMax
  /\ calls \in 0 .. MaxCalls

(* A pid has one entry, however it came to be watched (by name, as a pid,  *)
(* both, removed and added again) and whoever had the pid before.          *)
NoTwin == \A i, j \in DOMAIN entries : entries[i].pid = entries[j].pid => i = j

(* A live entry is still asked for: after a removal nothing but dead       *)
(* entries is left of what was watched only through it.                    *)
LiveIsConfigured ==
  \A i \in DOMAIN entries :
    entries[i].alive => entries[i].exe \in names \/ entries[i].pid \in Range(pids)

(* "PID reuse guard": the counters a rate is computed from are always those *)
(* of one process, although pids are handed out again at any moment.       *)
OneProcessPerEntry == \A i \in DOMAIN entries : entries[i].sampled \subseteq {entries[i].birth}

\* What the list of entries promises the block and the rates, between any two
\* steps of a poll and of the API.
EntriesAreSound == TypeOK /\ NoTwin /\ LiveIsConfigured /\ OneProcessPerEntry

Watched(p) == /\ Opens(p, {"full"})
              /\ proc[p].exe \in names \/ p \in Range(pids)
Tracked(p) == \E i \in DOMAIN entries :
                /\ entries[i].alive /\ entries[i].pid = p
                /\ proc[p] # Absent /\ entries[i].birth = proc[p].birth

(* A process that stays watched and may be opened is tracked again and     *)
(* again, though dead entries stand in the way of discovery.               *)
WatchedGetsTracked == \A p \in Pids : <>[]Watched(p) => []<>Tracked(p)

-----------------------------------------------------------------------------
(* What comments and documents say, and the code does not do.              *)

(* watcher.h:74, "Write live entries into SHM WATCH_BASE slots": while     *)
(* there are slots enough, every live entry has one after WriteToShm.      *)
PublishesLiveEntries ==
  [][WriteToShm => \A i \in DOMAIN entries :
       entries[i].alive /\ Len(entries) <= WatchMax =>
         \E s \in DOMAIN slots' : slots'[s].birth = entries[i].birth]_vars

(* README, "Each is assigned a stable SHM slot (slots 0-7) for the         *)
(* duration it is alive": who keeps having a slot keeps the same one.      *)
SlotsAreStable ==
  [][\A s \in DOMAIN slots, t \in DOMAIN slots' :
       slots[s].birth = slots'[t].birth => s = t]_vars

(* README, "will detect it on the next poll tick after it starts": what    *)
(* is in a poll's process list under a watched name, and still runs and    *)
(* may be opened when the poll ends, has an entry then.                    *)
DetectedOnNextPoll ==
  [][Poll => \A r \in running :
       r.exe \in names /\ Opens(r.pid, {"full"}) /\ proc[r.pid].birth = r.birth =>
         \E i \in DOMAIN entries' : entries'[i].birth = r.birth]_vars
=============================================================================
