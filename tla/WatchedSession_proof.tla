------------------------ MODULE WatchedSession_proof ------------------------
(***************************************************************************)
(* Proofs about the process watcher, and about a session that is to end    *)
(* with the processes it watches: the list of entries is sound between any *)
(* two steps, and the session outlives every process it has seen.          *)
(***************************************************************************)
EXTENDS WatchedSession, Subsequences_proof

\* The process with creation time b has the pid p.
Alive(p, b) == proc[p] # Absent /\ proc[p].birth = b

\* No pid is configured or listed by the system twice.
ListedOnce ==
  /\ \A i, j \in DOMAIN pids : pids[i] = pids[j] => i = j
  /\ \A r, s \in running : r.pid = s.pid => r = s

\* Creation times are not used again.
BirthsOnce ==
  /\ \A p \in Pids : proc[p] # Absent => proc[p].birth <= procs
  /\ \A p, q \in Pids : proc[p] # Absent /\ Alive(q, proc[p].birth) => p = q

Good(e) ==
  /\ e.alive => e.exe \in names \/ e.pid \in Range(pids)
  /\ e.sampled \subseteq {e.birth}
  /\ e.birth <= procs
  /\ \A p \in Pids : Alive(p, e.birth) => p = e.pid

Sound(list) == list \in Seq(Entry) /\ \A i \in DOMAIN list : Good(list[i])

Twinless(list) == \A i, j \in DOMAIN list : list[i].pid = list[j].pid => i = j

\* An entry found by its pid may be one the watcher cannot sample; it is swept
\* by the same poll.
FullyOpen(b) == \A p \in Pids : Alive(p, b) => proc[p].access = "full"

Sampleable == ppc # "discovered" => \A i \in DOMAIN entries : FullyOpen(entries[i].birth)

WatcherInv ==
  /\ TypeOK /\ ListedOnce /\ BirthsOnce
  /\ Sound(entries) /\ Twinless(entries) /\ Sampleable

-----------------------------------------------------------------------------
\* The system starts and ends processes; none of those known comes back.
Ages ==
  /\ procs <= procs'
  /\ \A p \in Pids : \A b \in 1 .. MaxProcs :
       b <= procs /\ Alive(p, b)' => Alive(p, b) /\ proc'[p] = proc[p]

\* What stays of an entry when the system goes on.
LEMMA AgedEntry ==
  ASSUME TypeOK, Ages, procs' \in Nat, UNCHANGED config, NEW e \in Entry, Good(e)
  PROVE  Good(e)' /\ (FullyOpen(e.birth) => FullyOpen(e.birth)')
<1>1. e.birth \in 1 .. MaxProcs /\ e.birth <= procs /\ procs \in Nat
  BY WatcherAssumption DEF Good, TypeOK, Entry
<1>2. \A p \in Pids : Alive(p, e.birth)' => Alive(p, e.birth) /\ proc'[p] = proc[p]
  BY <1>1 DEF Ages
<1>3. e.birth <= procs'
  BY <1>1 DEF Ages
<1>4. QED
  BY <1>2, <1>3 DEF Good, FullyOpen, config

LEMMA StartKeeps ==
  ASSUME WatcherInv, NEW p \in Pids, NEW exe \in Exes, NEW access \in Access,
         ProcessStart(p, exe, access)
  PROVE  TypeOK' /\ BirthsOnce' /\ Ages /\ procs' \in Nat
<1> DEFINE r == [exe |-> exe, birth |-> procs', access |-> access]
<1>1. /\ procs \in 0 .. MaxProcs /\ procs < MaxProcs /\ procs' = procs + 1 /\ MaxProcs \in Nat
      /\ proc \in [Pids -> Process \cup {Absent}] /\ proc' = [proc EXCEPT ![p] = r]
  BY WatcherAssumption DEF WatcherInv, TypeOK, ProcessStart
<1>2. procs' \in 1 .. MaxProcs /\ procs' \in Nat
  BY <1>1
<1>3. r \in Process /\ r.birth = procs'
  BY <1>2 DEF Process
<1>4. proc' \in [Pids -> Process \cup {Absent}] /\ proc'[p] = r
      /\ \A q \in Pids : q # p => proc'[q] = proc[q]
  BY <1>1, <1>3
<1> HIDE DEF r
<1>5. TypeOK'
  BY <1>2, <1>4 DEF WatcherInv, TypeOK, ProcessStart, config
<1>6. \A q \in Pids : proc[q] # Absent => proc[q].birth \in 1 .. MaxProcs /\ proc[q].birth <= procs
  BY <1>1 DEF WatcherInv, BirthsOnce, Process
<1>7. Ages
  BY <1>1, <1>3, <1>4 DEF Ages, Alive
<1>8. BirthsOnce'
  <2>1. \A q \in Pids : proc'[q] # Absent => proc'[q].birth <= procs'
    BY <1>1, <1>3, <1>4, <1>6
  <2>2. ASSUME NEW q1 \in Pids, NEW q2 \in Pids, proc'[q1] # Absent, proc'[q2] # Absent,
               proc'[q2].birth = proc'[q1].birth
        PROVE  q1 = q2
    <3>1. CASE q1 = p /\ q2 = p
      BY <3>1
    <3>2. CASE q1 = p /\ q2 # p
      BY <2>2, <3>2, <1>1, <1>3, <1>4, <1>6
    <3>3. CASE q1 # p /\ q2 = p
      BY <2>2, <3>3, <1>1, <1>3, <1>4, <1>6
    <3>4. CASE q1 # p /\ q2 # p
      BY <2>2, <3>4, <1>4 DEF WatcherInv, BirthsOnce, Alive
    <3>5. QED
      BY <3>1, <3>2, <3>3, <3>4
  <2>3. QED
    BY <2>1, <2>2 DEF BirthsOnce, Alive
<1>9. QED
  BY <1>2, <1>5, <1>7, <1>8

LEMMA ExitKeeps ==
  ASSUME WatcherInv, NEW p \in Pids, ProcessExit(p)
  PROVE  TypeOK' /\ BirthsOnce' /\ Ages /\ procs' \in Nat
<1>1. /\ proc \in [Pids -> Process \cup {Absent}] /\ proc' = [proc EXCEPT ![p] = Absent]
      /\ procs' = procs /\ procs \in Nat
  BY WatcherAssumption DEF WatcherInv, TypeOK, ProcessExit
<1>2. /\ proc' \in [Pids -> Process \cup {Absent}]
      /\ \A q \in Pids : proc'[q] # Absent => proc'[q] = proc[q]
  BY <1>1
<1>3. TypeOK'
  BY <1>1, <1>2 DEF WatcherInv, TypeOK, ProcessExit, config
<1>4. Ages
  BY <1>1, <1>2 DEF Ages, Alive
<1>5. BirthsOnce'
  BY <1>1, <1>2 DEF WatcherInv, BirthsOnce, Alive
<1>6. QED
  BY <1>1, <1>3, <1>4, <1>5

LEMMA SystemKeeps ==
  ASSUME WatcherInv, System
  PROVE  WatcherInv' /\ Ages
<1>1. /\ TypeOK' /\ BirthsOnce' /\ Ages /\ procs' \in Nat
      /\ UNCHANGED <<config, entries, ppc, running>>
  BY StartKeeps, ExitKeeps DEF System, ProcessStart, ProcessExit
<1>2. ListedOnce' /\ Twinless(entries)'
  BY <1>1 DEF WatcherInv, ListedOnce, Twinless, config
<1>3. ASSUME NEW i \in DOMAIN entries
      PROVE  Good(entries[i])' /\ (FullyOpen(entries[i].birth) => FullyOpen(entries[i].birth)')
  <2>1. PICK e : e = entries[i]
    OBVIOUS
  <2>2. e \in Entry /\ Good(e)
    BY <2>1 DEF WatcherInv, Sound
  <2>3. UNCHANGED config /\ procs' \in Nat /\ TypeOK
    BY <1>1 DEF WatcherInv
  <2>4. Good(e)' /\ (FullyOpen(e.birth) => FullyOpen(e.birth)')
    BY <2>2, <2>3, <1>1, AgedEntry
  <2>5. entries'[i] = e
    BY <1>1, <2>1
  <2>6. QED
    BY <2>1, <2>4, <2>5
<1>4. Sound(entries)' /\ Sampleable'
  BY <1>1, <1>3 DEF WatcherInv, Sound, Sampleable
<1>5. QED
  BY <1>1, <1>2, <1>4 DEF WatcherInv

-----------------------------------------------------------------------------
(* HTTP threads.                                                           *)

\* Entries change only in that some of them are dead from now on.
Marked(old, new) ==
  /\ new = [i \in DOMAIN old |-> new[i]]
  /\ \A i \in DOMAIN old : new[i] = old[i] \/ new[i] = [old[i] EXCEPT !.alive = FALSE]

LEMMA MarkedIsSound ==
  ASSUME WatcherInv, Call, Marked(entries, entries'),
         names' \subseteq Exes, pids' \in Seq(Pids),
         \A i \in DOMAIN entries' :
            entries'[i].alive => entries'[i].exe \in names' \/ entries'[i].pid \in Range(pids')
  PROVE  /\ TypeOK' /\ BirthsOnce' /\ Sound(entries)' /\ Twinless(entries)' /\ Sampleable'
         /\ \A i \in DOMAIN entries : entries'[i].birth = entries[i].birth
<1>1. /\ entries \in Seq(Entry) /\ UNCHANGED <<proc, procs, ppc, running, slots>>
      /\ Len(entries) \in Nat /\ DOMAIN entries = 1 .. Len(entries)
  BY DEF WatcherInv, TypeOK, Call, os
<1>2. ASSUME NEW i \in DOMAIN entries
      PROVE  /\ entries'[i] \in Entry /\ entries'[i].pid = entries[i].pid
             /\ entries'[i].birth = entries[i].birth /\ entries'[i].sampled = entries[i].sampled
  <2>1. entries[i] \in Entry
    BY <1>1
  <2>2. PICK e, d : e = entries[i] /\ d = entries'[i]
    OBVIOUS
  <2>3. e \in Entry /\ (d = e \/ d = [e EXCEPT !.alive = FALSE])
    BY <2>1, <2>2 DEF Marked
  <2>4. d \in Entry /\ d.pid = e.pid /\ d.birth = e.birth /\ d.sampled = e.sampled
    BY <2>3 DEF Entry
  <2>5. QED
    BY <2>2, <2>4
<1>3. DOMAIN entries' = DOMAIN entries
  BY DEF Marked
<1>4. entries' \in Seq(Entry)
  BY <1>1, <1>2 DEF Marked
<1>5. TypeOK'
  BY <1>1, <1>4, WatcherAssumption DEF WatcherInv, TypeOK, Call, os
<1>6. BirthsOnce' /\ Twinless(entries)' /\ Sampleable'
  BY <1>1, <1>2, <1>3 DEF WatcherInv, BirthsOnce, Twinless, Sampleable, FullyOpen, Alive
<1>7. Sound(entries)'
  BY <1>1, <1>2, <1>3, <1>4 DEF WatcherInv, Sound, Good, Alive
<1>8. QED
  BY <1>2, <1>5, <1>6, <1>7

\* What is dead is not asked for any more.
LEMMA KilledIsMarked ==
  ASSUME TypeOK, NEW hit \in [Entry -> BOOLEAN],
         entries' = [i \in DOMAIN entries |->
                       IF hit[entries[i]] THEN [entries[i] EXCEPT !.alive = FALSE] ELSE entries[i]]
  PROVE  /\ Marked(entries, entries')
         /\ \A i \in DOMAIN entries' : entries'[i].alive => entries'[i] = entries[i] /\ ~hit[entries[i]]
<1>1. \A i \in DOMAIN entries : entries[i] \in Entry
  BY DEF TypeOK
<1>2. ASSUME NEW i \in DOMAIN entries', entries'[i].alive
      PROVE  entries'[i] = entries[i] /\ ~hit[entries[i]]
  <2>1. PICK e : e = entries[i]
    OBVIOUS
  <2>2. e \in Entry /\ entries'[i] = IF hit[e] THEN [e EXCEPT !.alive = FALSE] ELSE e
    BY <1>1, <2>1
  <2>3. [e EXCEPT !.alive = FALSE].alive = FALSE
    BY <2>2 DEF Entry
  <2>4. QED
    BY <1>2, <2>1, <2>2, <2>3
<1>3. Marked(entries, entries')
  BY DEF Marked
<1>4. QED
  BY <1>2, <1>3

LEMMA AddsKeep ==
  ASSUME WatcherInv, (\E exe \in Exes : AddWatch(exe)) \/ (\E p \in Pids : AddPid(p))
  PROVE  WatcherInv' /\ UNCHANGED entries
<1>1. Call /\ UNCHANGED <<entries, running>> /\ TypeOK
  BY DEF WatcherInv, AddWatch, AddPid, Call
<1>2. Marked(entries, entries')
  BY <1>1 DEF Marked, TypeOK
<1>3. /\ names' \subseteq Exes /\ pids' \in Seq(Pids) /\ names \subseteq names'
      /\ Range(pids) \subseteq Range(pids') /\ ListedOnce'
  <2>1. CASE \E exe \in Exes : AddWatch(exe)
    BY <2>1, <1>1 DEF AddWatch, TypeOK, WatcherInv, ListedOnce
  <2>2. ASSUME NEW p \in Pids, AddPid(p)
        PROVE  /\ names' \subseteq Exes /\ pids' \in Seq(Pids) /\ names \subseteq names'
               /\ Range(pids) \subseteq Range(pids') /\ ListedOnce'
    <3>1. /\ pids \in Seq(Pids) /\ pids' = Append(pids, p) /\ p \notin Range(pids)
          /\ names' = names /\ names \subseteq Exes
      BY <2>2, <1>1 DEF AddPid, TypeOK
    <3>2. /\ pids' \in Seq(Pids) /\ Len(pids') = Len(pids) + 1 /\ Len(pids) \in Nat
          /\ \A i \in 1 .. Len(pids) : pids'[i] = pids[i]
          /\ pids'[Len(pids) + 1] = p
          /\ DOMAIN pids = 1 .. Len(pids) /\ DOMAIN pids' = 1 .. Len(pids) + 1
      BY <3>1
    <3>3. \A i \in 1 .. Len(pids) : pids[i] # p
      BY <3>1, <3>2, RangeEquality
    <3>4. \A i, j \in DOMAIN pids' : pids'[i] = pids'[j] => i = j
      BY <3>2, <3>3 DEF WatcherInv, ListedOnce
    <3>5. Range(pids) \subseteq Range(pids')
      <4>1. Range(pids) = {pids[i] : i \in 1 .. Len(pids)}
        BY <3>1, RangeEquality
      <4>2. Range(pids') = {pids'[i] : i \in 1 .. Len(pids')}
        <5>1. PICK q : q = pids'
          OBVIOUS
        <5>2. q \in Seq(Pids)
          BY <3>2, <5>1
        <5>3. Range(q) = {q[i] : i \in 1 .. Len(q)}
          BY <5>2, RangeEquality
        <5>4. QED
          BY <5>1, <5>3
      <4>3. QED
        BY <3>2, <4>1, <4>2
    <3>6. ListedOnce'
      BY <1>1, <3>4 DEF WatcherInv, ListedOnce
    <3>7. QED
      BY <3>1, <3>2, <3>5, <3>6
  <2>3. QED
    BY <2>1, <2>2
<1>4. \A i \in DOMAIN entries' :
         entries'[i].alive => entries'[i].exe \in names' \/ entries'[i].pid \in Range(pids')
  BY <1>1, <1>3 DEF WatcherInv, Sound, Good
<1>5. TypeOK' /\ BirthsOnce' /\ Sound(entries)' /\ Twinless(entries)' /\ Sampleable'
  BY <1>1, <1>2, <1>3, <1>4, MarkedIsSound
<1>6. QED
  BY <1>1, <1>3, <1>5 DEF WatcherInv

LEMMA RemoveWatchKeeps ==
  ASSUME WatcherInv, NEW exe \in Exes, RemoveWatch(exe)
  PROVE  WatcherInv' /\ Marked(entries, entries')
<1> DEFINE hit == [e \in Entry |-> e.exe = exe]
<1>1. /\ Call /\ UNCHANGED <<pids, running>> /\ TypeOK /\ names' = names \ {exe}
      /\ names' \subseteq Exes /\ pids' \in Seq(Pids)
  BY DEF WatcherInv, RemoveWatch, Call, TypeOK
<1>2. /\ hit \in [Entry -> BOOLEAN]
      /\ entries' = [i \in DOMAIN entries |->
                       IF hit[entries[i]] THEN [entries[i] EXCEPT !.alive = FALSE] ELSE entries[i]]
  <2>1. \A i \in DOMAIN entries : entries[i] \in Entry
    BY <1>1 DEF TypeOK
  <2>2. \A i \in DOMAIN entries : hit[entries[i]] = (entries[i].exe = exe)
    BY <2>1
  <2>3. QED
    BY <2>2 DEF RemoveWatch, Killed
<1>3. /\ Marked(entries, entries')
      /\ \A i \in DOMAIN entries' : entries'[i].alive => entries'[i] = entries[i] /\ ~hit[entries[i]]
  <2> HIDE DEF hit
  <2>1. QED
    BY <1>1, <1>2, KilledIsMarked
<1>4. ASSUME NEW i \in DOMAIN entries', entries'[i].alive
      PROVE  entries'[i].exe \in names' \/ entries'[i].pid \in Range(pids')
  <2>1. i \in DOMAIN entries
    BY <1>2
  <2>2. entries[i] \in Entry /\ Good(entries[i])
    BY <2>1 DEF WatcherInv, Sound
  <2>3. entries'[i] = entries[i] /\ entries[i].exe # exe
    BY <1>3, <1>4, <2>2
  <2>4. QED
    BY <1>1, <1>4, <2>2, <2>3 DEF Good
<1>5. TypeOK' /\ BirthsOnce' /\ Sound(entries)' /\ Twinless(entries)' /\ Sampleable'
  <2> HIDE DEF hit
  <2>1. QED
    BY <1>1, <1>3, <1>4, MarkedIsSound
<1>6. ListedOnce'
  BY <1>1 DEF WatcherInv, ListedOnce
<1>7. QED
  BY <1>3, <1>5, <1>6 DEF WatcherInv

LEMMA RemovePidKeeps ==
  ASSUME WatcherInv, NEW p \in Pids, RemovePid(p)
  PROVE  WatcherInv' /\ Marked(entries, entries')
<1> DEFINE hit == [e \in Entry |-> e.pid = p]
<1>1. /\ Call /\ UNCHANGED <<names, running>> /\ TypeOK /\ names' \subseteq Exes
      /\ pids \in Seq(Pids) /\ \A i, j \in DOMAIN pids : pids[i] = pids[j] => i = j
  BY DEF WatcherInv, RemovePid, Call, TypeOK, ListedOnce
<1>0. PICK n \in DOMAIN pids : pids[n] = p /\ pids' = RemoveAt(pids, n)
  BY DEF RemovePid
<1>2. PICK r : pids[n] = p /\ r = RemoveAt(pids, n) /\ pids' = r
  BY <1>0
<1>3. Range(r) = Range(pids) \ {p}
  BY <1>1, <1>2, RemovedRange
<1>4. /\ r \in Seq(Pids)
      /\ \A i, j \in DOMAIN r : r[i] = r[j] => i = j
  <2>1. n \in 1 .. Len(pids) /\ Len(pids) \in Nat /\ DOMAIN pids = 1 .. Len(pids)
    BY <1>1
  <2>2. /\ r \in Seq(Pids) /\ Len(r) = Len(pids) - 1
        /\ \A k \in 1 .. Len(r) : r[k] = IF k < n THEN pids[k] ELSE pids[k + 1]
    <3>1. pids \in Seq(Pids) /\ n \in 1 .. Len(pids) /\ r = RemoveAt(pids, n)
      BY <1>1, <1>2, <2>1
    <3>2. IsWithout(r, Pids, pids, n)
      BY <3>1, RemoveAtFacts
    <3>3. QED
      BY <3>2 DEF IsWithout
  <2>3. DOMAIN r = 1 .. Len(r)
    BY <2>2
  <2>4. ASSUME NEW i \in DOMAIN r, NEW j \in DOMAIN r, r[i] = r[j]
        PROVE  i = j
    <3> DEFINE up(k) == IF k < n THEN k ELSE k + 1
    <3>1. up(i) \in DOMAIN pids /\ up(j) \in DOMAIN pids
      BY <2>1, <2>2, <2>3
    <3>2. r[i] = pids[up(i)] /\ r[j] = pids[up(j)]
      BY <2>2, <2>3
    <3>3. up(i) = up(j)
      BY <1>1, <2>4, <3>1, <3>2
    <3>4. QED
      BY <3>3, <2>1, <2>3
  <2>5. QED
    BY <2>2, <2>4
<1>5. /\ hit \in [Entry -> BOOLEAN]
      /\ entries' = [i \in DOMAIN entries |->
                       IF hit[entries[i]] THEN [entries[i] EXCEPT !.alive = FALSE] ELSE entries[i]]
  <2>1. \A i \in DOMAIN entries : entries[i] \in Entry
    BY <1>1 DEF TypeOK
  <2>2. \A i \in DOMAIN entries : hit[entries[i]] = (entries[i].pid = p)
    BY <2>1
  <2>3. QED
    BY <2>2 DEF RemovePid, Killed
<1>6. /\ Marked(entries, entries')
      /\ \A i \in DOMAIN entries' : entries'[i].alive => entries'[i] = entries[i] /\ ~hit[entries[i]]
  <2> HIDE DEF hit
  <2>1. QED
    BY <1>1, <1>5, KilledIsMarked
<1>7. ASSUME NEW i \in DOMAIN entries', entries'[i].alive
      PROVE  entries'[i].exe \in names' \/ entries'[i].pid \in Range(pids')
  <2>1. i \in DOMAIN entries
    BY <1>5
  <2>2. entries[i] \in Entry /\ Good(entries[i])
    BY <2>1 DEF WatcherInv, Sound
  <2>3. entries'[i] = entries[i] /\ entries[i].pid # p
    BY <1>6, <1>7, <2>2
  <2>4. QED
    BY <1>1, <1>2, <1>3, <1>7, <2>2, <2>3 DEF Good
<1>8. TypeOK' /\ BirthsOnce' /\ Sound(entries)' /\ Twinless(entries)' /\ Sampleable'
  <2> HIDE DEF hit
  <2>1. QED
    BY <1>1, <1>2, <1>4, <1>6, <1>7, MarkedIsSound
<1>9. ListedOnce'
  BY <1>1, <1>2, <1>4 DEF WatcherInv, ListedOnce
<1>10. QED
  BY <1>6, <1>8, <1>9 DEF WatcherInv

-----------------------------------------------------------------------------
(* The poll thread.                                                        *)

\* A snapshot lists each process once.
LEMMA SnapshotFacts ==
  ASSUME WatcherInv, NEW snapshot \in SetToSeqs(running)
  PROVE  /\ snapshot \in Seq(running)
         /\ \A i, j \in DOMAIN snapshot : i # j => snapshot[i].pid # snapshot[j].pid
<1> DEFINE f == [r \in running |-> r.pid]
<1>1. f \in [running -> Pids] /\ IsFiniteSet(Pids)
  BY WatcherAssumption DEF WatcherInv, TypeOK
<1>2. f \in Injection(running, Pids)
  BY <1>1 DEF WatcherInv, ListedOnce, Injection, IsInjective
<1>3. Cardinality(running) \in Nat
  <2> HIDE DEF f
  <2>1. IsFiniteSet(running)
    BY <1>1, <1>2, FS_Injection
  <2>2. QED
    BY <2>1, FS_CardinalityType
<1>4. /\ snapshot \in [1 .. Cardinality(running) -> running]
      /\ \A i, j \in 1 .. Cardinality(running) : i # j => snapshot[i] # snapshot[j]
  BY DEF SetToSeqs
<1>5. QED
  BY <1>3, <1>4 DEF WatcherInv, ListedOnce

\* Entries made of processes that have none yet, each of another pid.
Fresh(new, list) ==
  /\ Sound(new) /\ Twinless(new)
  /\ \A i \in DOMAIN new : new[i].alive /\ ~AlreadyTracked(new[i].pid, list)

LEMMA NewEntryIsGood ==
  ASSUME WatcherInv, NEW p \in Pids, NEW exe \in Exes, proc[p] # Absent,
         exe \in names \/ p \in Range(pids)
  PROVE  /\ NewEntry(exe, p) \in Entry /\ Good(NewEntry(exe, p))
         /\ NewEntry(exe, p).alive /\ NewEntry(exe, p).pid = p
<1>1. proc[p] \in Process
  BY DEF WatcherInv, TypeOK
<1>2. proc[p].birth \in 1 .. MaxProcs
  BY <1>1 DEF Process
<1>3. proc[p].birth <= procs /\ \A q \in Pids : Alive(q, proc[p].birth) => q = p
  BY DEF WatcherInv, BirthsOnce
<1>4. NewEntry(exe, p) \in Entry
  BY <1>2 DEF NewEntry, Entry
<1>5. QED
  BY <1>3, <1>4 DEF NewEntry, Good

LEMMA FoundByNameIsFresh ==
  ASSUME WatcherInv, NEW snapshot \in SetToSeqs(running), NEW found \in FoundByName(snapshot)
  PROVE  Fresh(found, entries)
<1> DEFINE P == {i \in DOMAIN snapshot :
                   /\ snapshot[i].exe \in names
                   /\ ~AlreadyTracked(snapshot[i].pid, entries)
                   /\ Opens(snapshot[i].pid, {"full"})}
<1>1. /\ snapshot \in Seq(running)
      /\ \A i, j \in DOMAIN snapshot : i # j => snapshot[i].pid # snapshot[j].pid
  BY SnapshotFacts
<1>2. PICK new \in Kept(snapshot, P) :
         found = [i \in DOMAIN new |-> NewEntry(new[i].exe, new[i].pid)]
  BY DEF FoundByName
<1>3. P \in SUBSET DOMAIN snapshot
  OBVIOUS
<1>4. \A k \in P : /\ snapshot[k] \in running /\ snapshot[k].exe \in names
                   /\ proc[snapshot[k].pid] # Absent
                   /\ ~AlreadyTracked(snapshot[k].pid, entries)
  BY <1>1 DEF Opens
<1>5. \A k, l \in P : k # l => snapshot[k].pid # snapshot[l].pid
  BY <1>1
<1> HIDE DEF P
<1>6. /\ new \in Seq(running)
      /\ \A i \in DOMAIN new : \E k \in P : new[i] = snapshot[k]
      /\ \A i, j \in DOMAIN new : i # j =>
           \E k, l \in P : k # l /\ new[i] = snapshot[k] /\ new[j] = snapshot[l]
  BY <1>1, <1>2, <1>3, KeptFacts
<1>7. ASSUME NEW i \in DOMAIN new
      PROVE  /\ new[i].exe \in Exes /\ new[i].exe \in names /\ new[i].pid \in Pids
             /\ proc[new[i].pid] # Absent /\ ~AlreadyTracked(new[i].pid, entries)
  <2>1. PICK k \in P : new[i] = snapshot[k]
    BY <1>6
  <2>2. new[i] \in running
    BY <1>4, <2>1
  <2>3. new[i].exe \in Exes /\ new[i].pid \in Pids
    BY <2>2 DEF WatcherInv, TypeOK
  <2>4. QED
    BY <1>4, <2>1, <2>3
<1>8. ASSUME NEW i \in DOMAIN new
      PROVE  found[i] \in Entry /\ Good(found[i]) /\ found[i].alive /\ found[i].pid = new[i].pid
  <2>1. found[i] = NewEntry(new[i].exe, new[i].pid)
    BY <1>2
  <2>2. QED
    BY <1>7, <2>1, NewEntryIsGood
<1>9. found \in Seq(Entry) /\ DOMAIN found = DOMAIN new
  BY <1>2, <1>6, <1>8
<1>10. QED
  BY <1>5, <1>6, <1>7, <1>8, <1>9 DEF Fresh, Sound, Twinless

LEMMA FoundByPidIsFresh ==
  ASSUME WatcherInv, NEW list, NEW found \in FoundByPid(list)
  PROVE  Fresh(found, list)
<1> DEFINE P == {i \in DOMAIN pids : /\ ~AlreadyTracked(pids[i], list)
                                     /\ Opens(pids[i], {"full", "limited"})}
<1>1. /\ pids \in Seq(Pids)
      /\ \A i, j \in DOMAIN pids : pids[i] = pids[j] => i = j
  BY DEF WatcherInv, TypeOK, ListedOnce
<1>2. PICK new \in Kept(pids, P) :
         found = [i \in DOMAIN new |-> NewEntry(proc[new[i]].exe, new[i])]
  BY DEF FoundByPid
<1>3. P \in SUBSET DOMAIN pids
  OBVIOUS
<1>4. \A k \in P : /\ pids[k] \in Pids /\ pids[k] \in Range(pids)
                   /\ proc[pids[k]] # Absent /\ ~AlreadyTracked(pids[k], list)
  BY <1>1 DEF Opens, Range
<1>5. \A k, l \in P : k # l => pids[k] # pids[l]
  BY <1>1
<1> HIDE DEF P
<1>6. /\ new \in Seq(Pids)
      /\ \A i \in DOMAIN new : \E k \in P : new[i] = pids[k]
      /\ \A i, j \in DOMAIN new : i # j =>
           \E k, l \in P : k # l /\ new[i] = pids[k] /\ new[j] = pids[l]
  BY <1>1, <1>2, <1>3, KeptFacts
<1>7. ASSUME NEW i \in DOMAIN new
      PROVE  /\ new[i] \in Pids /\ new[i] \in Range(pids) /\ proc[new[i]].exe \in Exes
             /\ proc[new[i]] # Absent /\ ~AlreadyTracked(new[i], list)
  <2>1. /\ new[i] \in Pids /\ new[i] \in Range(pids)
        /\ proc[new[i]] # Absent /\ ~AlreadyTracked(new[i], list)
    BY <1>4, <1>6
  <2>2. proc[new[i]] \in Process
    BY <2>1 DEF WatcherInv, TypeOK
  <2>3. QED
    BY <2>1, <2>2 DEF Process
<1>8. ASSUME NEW i \in DOMAIN new
      PROVE  found[i] \in Entry /\ Good(found[i]) /\ found[i].alive /\ found[i].pid = new[i]
  <2>1. found[i] = NewEntry(proc[new[i]].exe, new[i])
    BY <1>2
  <2>2. QED
    BY <1>7, <2>1, NewEntryIsGood
<1>9. found \in Seq(Entry) /\ DOMAIN found = DOMAIN new
  BY <1>2, <1>6, <1>8
<1>10. QED
  BY <1>5, <1>6, <1>7, <1>8, <1>9 DEF Fresh, Sound, Twinless

\* Fresh entries may be put behind a list.
LEMMA FreshJoins ==
  ASSUME NEW list, Sound(list), Twinless(list), NEW new, Fresh(new, list),
         NEW both, both = list \o new
  PROVE  /\ Sound(both) /\ Twinless(both)
         /\ \A i \in DOMAIN list : i \in DOMAIN both /\ both[i] = list[i]
         /\ \A i \in DOMAIN both : both[i].alive \/ i \in DOMAIN list
<1>1. list \in Seq(Entry) /\ new \in Seq(Entry)
  BY DEF Sound, Fresh
<1>2. /\ both \in Seq(Entry)
      /\ \A i \in DOMAIN both :
           \/ i \in DOMAIN list /\ both[i] = list[i]
           \/ i \notin DOMAIN list /\ i - Len(list) \in DOMAIN new /\ both[i] = new[i - Len(list)]
      /\ \A i \in DOMAIN list : i \in DOMAIN both /\ both[i] = list[i]
  BY <1>1, Joined
<1>3. Sound(both)
  BY <1>2 DEF Sound, Fresh
<1>4. Twinless(both)
  <2>1. SUFFICES ASSUME NEW i \in DOMAIN both, NEW j \in DOMAIN both, both[i].pid = both[j].pid
                 PROVE  i = j
    BY DEF Twinless
  <2>2. DOMAIN both = 1 .. Len(both) /\ Len(list) \in Nat
    BY <1>1, <1>2
  <2>3. CASE i \in DOMAIN list /\ j \in DOMAIN list
    BY <1>2, <2>1, <2>3 DEF Twinless
  <2>4. CASE i \in DOMAIN list /\ j \notin DOMAIN list
    BY <1>2, <2>1, <2>4 DEF Fresh, AlreadyTracked
  <2>5. CASE i \notin DOMAIN list /\ j \in DOMAIN list
    BY <1>2, <2>1, <2>5 DEF Fresh, AlreadyTracked
  <2>6. CASE i \notin DOMAIN list /\ j \notin DOMAIN list
    <3>1. i - Len(list) = j - Len(list)
      BY <1>2, <2>1, <2>6 DEF Fresh, Twinless
    <3>2. QED
      BY <2>2, <3>1
  <2>7. QED
    BY <2>3, <2>4, <2>5, <2>6
<1>5. QED
  BY <1>2, <1>3, <1>4 DEF Fresh

LEMMA SnapshotKeeps ==
  ASSUME WatcherInv, SnapshotProcesses
  PROVE  WatcherInv' /\ UNCHANGED entries
<1>1. \A p \in Pids : proc[p] # Absent => proc[p] \in Process
  BY DEF WatcherInv, TypeOK
<1>2. \A r \in running' :
         \E p \in Pids : proc[p] # Absent /\ r = [exe |-> proc[p].exe, pid |-> p, birth |-> proc[p].birth]
  BY DEF SnapshotProcesses
<1>3. /\ running' \subseteq [exe : Exes, pid : Pids, birth : 1 .. MaxProcs]
      /\ \A r, s \in running' : r.pid = s.pid => r = s
  <2>1. ASSUME NEW r \in running'
        PROVE  r \in [exe : Exes, pid : Pids, birth : 1 .. MaxProcs]
    BY <1>1, <1>2 DEF Process
  <2>2. ASSUME NEW r \in running', NEW s \in running', r.pid = s.pid
        PROVE  r = s
    <3>1. PICK p \in Pids : r = [exe |-> proc[p].exe, pid |-> p, birth |-> proc[p].birth]
      BY <1>2
    <3>2. PICK q \in Pids : s = [exe |-> proc[q].exe, pid |-> q, birth |-> proc[q].birth]
      BY <1>2
    <3>3. r.pid = p /\ s.pid = q
      BY <3>1, <3>2
    <3>4. QED
      BY <2>2, <3>1, <3>2, <3>3
  <2>3. QED
    BY <2>1, <2>2
<1>4. UNCHANGED <<proc, procs, names, pids, entries, slots, calls>> /\ ppc = "idle" /\ ppc' = "snapshot"
  BY DEF SnapshotProcesses, os, config
<1>5. TypeOK'
  BY <1>3, <1>4 DEF WatcherInv, TypeOK
<1>6. ListedOnce'
  BY <1>3, <1>4 DEF WatcherInv, ListedOnce
<1>7. BirthsOnce' /\ Sound(entries)' /\ Twinless(entries)' /\ Sampleable'
  BY <1>4 DEF WatcherInv, BirthsOnce, Sound, Good, Twinless, Sampleable, FullyOpen, Alive
<1>8. QED
  BY <1>4, <1>5, <1>6, <1>7 DEF WatcherInv

\* Discovery leaves the entries there are, and adds live ones.
LEMMA DiscoverKeeps ==
  ASSUME WatcherInv, DiscoverNewProcesses
  PROVE  /\ WatcherInv'
         /\ \A i \in DOMAIN entries : i \in DOMAIN entries' /\ entries'[i] = entries[i]
         /\ \A i \in DOMAIN entries' : entries'[i].alive \/ i \in DOMAIN entries
<1>1. PICK snapshot, found, named :
         /\ snapshot \in SetToSeqs(running) /\ found \in FoundByName(snapshot)
         /\ named = entries \o found
         /\ entries' \in {named \o more : more \in FoundByPid(named)}
  BY DEF DiscoverNewProcesses
<1>2. PICK more, all : more \in FoundByPid(named) /\ all = named \o more /\ entries' = all
  BY <1>1
<1>3. /\ Sound(named) /\ Twinless(named)
      /\ \A i \in DOMAIN entries : i \in DOMAIN named /\ named[i] = entries[i]
      /\ \A i \in DOMAIN named : named[i].alive \/ i \in DOMAIN entries
  <2>1. Sound(entries) /\ Twinless(entries)
    BY DEF WatcherInv
  <2>2. Fresh(found, entries)
    BY <1>1, FoundByNameIsFresh
  <2>3. PICK old : old = entries
    OBVIOUS
  <2>4. Sound(old) /\ Twinless(old) /\ Fresh(found, old) /\ named = old \o found
    BY <1>1, <2>1, <2>2, <2>3
  <2>5. /\ Sound(named) /\ Twinless(named)
        /\ \A i \in DOMAIN old : i \in DOMAIN named /\ named[i] = old[i]
        /\ \A i \in DOMAIN named : named[i].alive \/ i \in DOMAIN old
    BY <2>4, FreshJoins
  <2>6. QED
    BY <2>3, <2>5
<1>4. /\ Sound(all) /\ Twinless(all)
      /\ \A i \in DOMAIN named : i \in DOMAIN all /\ all[i] = named[i]
      /\ \A i \in DOMAIN all : all[i].alive \/ i \in DOMAIN named
  <2>1. Fresh(more, named)
    BY <1>2, FoundByPidIsFresh
  <2>2. QED
    BY <1>2, <1>3, <2>1, FreshJoins
<1>5. UNCHANGED <<proc, procs, names, pids, running, slots, calls>> /\ ppc' = "discovered"
  BY DEF DiscoverNewProcesses, os, config
<1>6. all \in Seq(Entry) /\ entries' = all
  BY <1>2, <1>4 DEF Sound
<1>7. TypeOK'
  BY <1>5, <1>6 DEF WatcherInv, TypeOK
<1>8. ListedOnce' /\ BirthsOnce' /\ Sampleable'
  BY <1>5 DEF WatcherInv, ListedOnce, BirthsOnce, Sampleable, Alive
<1>9. Sound(entries)' /\ Twinless(entries)'
  BY <1>4, <1>5, <1>6 DEF Sound, Good, Twinless, Alive
<1>10. QED
  BY <1>3, <1>4, <1>6, <1>7, <1>8, <1>9 DEF WatcherInv

LEMMA UpdateFacts ==
  ASSUME WatcherInv, NEW e \in Entry, Good(e), NEW u, u = UpdateEntry(e)
  PROVE  /\ u \in Entry /\ u.pid = e.pid /\ u.birth = e.birth /\ Good(u)
         /\ (u.alive => FullyOpen(u.birth))
         /\ (Alive(e.pid, e.birth) /\ proc[e.pid].access = "full" /\ e.alive => u.alive)
<1>1. e.birth \in 1 .. MaxProcs /\ e.pid \in Pids
  BY DEF Entry
<1>2. CASE Opens(e.pid, {"full"}) /\ proc[e.pid].birth = e.birth
  <2>1. u = [e EXCEPT !.sampled = @ \cup {e.birth}]
    BY <1>2 DEF UpdateEntry
  <2>2. /\ u \in Entry /\ u.pid = e.pid /\ u.birth = e.birth /\ u.exe = e.exe /\ u.alive = e.alive
        /\ u.sampled = e.sampled \cup {e.birth}
    BY <1>1, <2>1 DEF Entry
  <2>3. Good(u)
    BY <2>2 DEF Good
  <2>4. FullyOpen(u.birth)
    BY <1>2, <2>2 DEF Good, FullyOpen, Opens
  <2>5. QED
    BY <2>2, <2>3, <2>4
<1>3. CASE ~(Opens(e.pid, {"full"}) /\ proc[e.pid].birth = e.birth)
  <2>1. u = [e EXCEPT !.alive = FALSE]
    BY <1>3 DEF UpdateEntry
  <2>2. /\ u \in Entry /\ u.pid = e.pid /\ u.birth = e.birth /\ u.exe = e.exe /\ u.alive = FALSE
        /\ u.sampled = e.sampled
    BY <1>1, <2>1 DEF Entry
  <2>3. Good(u)
    BY <2>2 DEF Good
  <2>4. QED
    BY <1>3, <2>2, <2>3 DEF Opens, Alive
<1>4. QED
  BY <1>2, <1>3

\* A poll sweeps the dead entries, and no entry of a process that can be
\* sampled.
LEMMA PollKeeps ==
  ASSUME WatcherInv, Poll
  PROVE  /\ WatcherInv'
         /\ \A i \in DOMAIN entries' : entries'[i].alive
         /\ \A i \in DOMAIN entries :
              /\ entries[i].alive /\ Alive(entries[i].pid, entries[i].birth)
              /\ proc[entries[i].pid].access = "full"
              => \E j \in DOMAIN entries' : entries'[j].birth = entries[i].birth
<1>1. PICK list : list = [i \in DOMAIN entries |-> UpdateEntry(entries[i])]
  OBVIOUS
<1>2. PICK P : P = {i \in DOMAIN list : list[i].alive}
  OBVIOUS
<1>3. PICK kept \in Kept(list, P) : entries' = kept
  BY <1>1, <1>2 DEF Poll, RemoveDeadEntries
<1>4. ASSUME NEW i \in DOMAIN entries
      PROVE  /\ list[i] \in Entry /\ list[i].pid = entries[i].pid /\ list[i].birth = entries[i].birth
             /\ Good(list[i]) /\ (list[i].alive => FullyOpen(list[i].birth))
             /\ (/\ Alive(entries[i].pid, entries[i].birth)
                 /\ proc[entries[i].pid].access = "full" /\ entries[i].alive
                 => list[i].alive)
  <2>1. PICK e, u : e = entries[i] /\ u = list[i]
    OBVIOUS
  <2>2. e \in Entry /\ Good(e)
    BY <2>1 DEF WatcherInv, Sound
  <2>3. u = UpdateEntry(e)
    BY <1>1, <2>1
  <2>4. /\ u \in Entry /\ u.pid = e.pid /\ u.birth = e.birth /\ Good(u)
        /\ (u.alive => FullyOpen(u.birth))
        /\ (Alive(e.pid, e.birth) /\ proc[e.pid].access = "full" /\ e.alive => u.alive)
    BY <2>2, <2>3, UpdateFacts
  <2>5. QED
    BY <2>1, <2>4
<1>5. list \in Seq(Entry) /\ DOMAIN list = DOMAIN entries /\ P \in SUBSET DOMAIN list
  BY <1>1, <1>2, <1>4 DEF WatcherInv, Sound
<1>6. /\ kept \in Seq(Entry)
      /\ \A i \in DOMAIN kept : \E k \in P : kept[i] = list[k]
      /\ \A i, j \in DOMAIN kept : i # j =>
           \E k, l \in P : k # l /\ kept[i] = list[k] /\ kept[j] = list[l]
  BY <1>3, <1>5, KeptFacts
<1>7. UNCHANGED <<proc, procs, names, pids, running, slots, calls>> /\ ppc' = "polled"
  BY DEF Poll, os, config
<1>8. TypeOK'
  BY <1>3, <1>6, <1>7 DEF WatcherInv, TypeOK
<1>9. ListedOnce' /\ BirthsOnce'
  BY <1>7 DEF WatcherInv, ListedOnce, BirthsOnce, Alive
<1>10. \A i \in DOMAIN kept : kept[i].alive /\ Good(kept[i]) /\ FullyOpen(kept[i].birth)
  BY <1>2, <1>4, <1>5, <1>6
<1>11. Sound(kept) /\ Sound(entries)' /\ Sampleable'
  BY <1>3, <1>6, <1>7, <1>10 DEF Sound, Good, Sampleable, FullyOpen, Alive
<1>12. Twinless(entries)'
  <2>1. \A k, l \in P : k # l => list[k].pid # list[l].pid
    BY <1>4, <1>5 DEF WatcherInv, Twinless
  <2>2. QED
    BY <1>3, <1>6, <2>1 DEF Twinless
<1>13. ASSUME NEW i \in DOMAIN entries, entries[i].alive,
              Alive(entries[i].pid, entries[i].birth), proc[entries[i].pid].access = "full"
       PROVE  \E j \in DOMAIN entries' : entries'[j].birth = entries[i].birth
  <2>1. i \in P
    BY <1>2, <1>4, <1>5, <1>13
  <2>2. \E j \in DOMAIN kept : kept[j] = list[i]
    BY <1>3, <1>5, <2>1, KeptAll
  <2>3. QED
    BY <1>3, <1>4, <2>2
<1>14. QED
  BY <1>3, <1>8, <1>9, <1>10, <1>11, <1>12, <1>13 DEF WatcherInv

\* Every slot is an entry's, and no slot is left out for nothing.
LEMMA WriteKeeps ==
  ASSUME WatcherInv, WriteToShm
  PROVE  /\ WatcherInv' /\ UNCHANGED entries
         /\ \A s \in DOMAIN slots' : \E i \in DOMAIN entries : entries[i].birth = slots'[s].birth
         /\ slots' = <<>> /\ WatchMax > 0 /\ entries # <<>> => ~entries[1].alive
<1>1. /\ entries \in Seq(Entry) /\ Len(entries) \in Nat /\ DOMAIN entries = 1 .. Len(entries)
      /\ WatchMax \in Nat
  BY WatcherAssumption DEF WatcherInv, TypeOK
<1>2. PICK W, n : W = Writable /\ n = Cardinality(W)
  OBVIOUS
<1>3. W \subseteq 1 .. Len(entries) /\ W \subseteq 1 .. WatchMax
  BY <1>1, <1>2 DEF Writable
<1>4. IsFiniteSet(W) /\ n \in Nat /\ n <= Len(entries) /\ n <= WatchMax
  <2>1. \A m \in Nat : IsFiniteSet(1 .. m) /\ Cardinality(1 .. m) = m
    BY FS_Interval
  <2>2. ASSUME NEW m \in Nat, W \subseteq 1 .. m
        PROVE  IsFiniteSet(W) /\ Cardinality(W) <= m
    <3>1. IsFiniteSet(1 .. m) /\ Cardinality(1 .. m) = m /\ W \in SUBSET (1 .. m)
      BY <2>1, <2>2
    <3>2. IsFiniteSet(W) /\ Cardinality(W) <= Cardinality(1 .. m)
      BY <3>1, FS_Subset
    <3>3. QED
      BY <3>1, <3>2
  <2>3. IsFiniteSet(W) /\ Cardinality(W) <= Len(entries) /\ Cardinality(W) <= WatchMax
    BY <1>1, <1>3, <2>2
  <2>4. QED
    BY <1>2, <2>3, FS_CardinalityType
<1>5. slots' = [i \in 1 .. n |-> [pid |-> entries[i].pid, birth |-> entries[i].birth]]
  BY <1>2 DEF WriteToShm
<1>6. \A i \in 1 .. n : i \in DOMAIN entries /\ entries[i].pid \in Pids /\ entries[i].birth \in 1 .. MaxProcs
  <2>1. \A i \in 1 .. n : i \in DOMAIN entries
    BY <1>1, <1>4
  <2>2. \A i \in DOMAIN entries : entries[i] \in Entry
    BY <1>1
  <2>3. QED
    BY <2>1, <2>2 DEF Entry
<1>7. slots' \in Seq([pid : Pids, birth : 1 .. MaxProcs]) /\ Len(slots') = n
  <2>1. PICK Slot : Slot = [pid : Pids, birth : 1 .. MaxProcs]
    OBVIOUS
  <2>2. \A i \in 1 .. n : [pid |-> entries[i].pid, birth |-> entries[i].birth] \in Slot
    BY <1>6, <2>1
  <2>3. PICK new : new = slots'
    OBVIOUS
  <2>4. new \in [1 .. n -> Slot] /\ n \in Nat
    BY <1>4, <1>5, <2>2, <2>3
  <2>5. new \in Seq(Slot) /\ Len(new) = n
    BY <2>4
  <2>6. QED
    BY <2>1, <2>3, <2>5
<1>8. UNCHANGED <<proc, procs, names, pids, entries, calls>> /\ ppc = "polled" /\ ppc' = "idle"
      /\ running' = {}
  BY DEF WriteToShm, os, config
<1>9. TypeOK'
  BY <1>4, <1>7, <1>8 DEF WatcherInv, TypeOK
<1>10. ListedOnce' /\ BirthsOnce' /\ Sound(entries)' /\ Twinless(entries)' /\ Sampleable'
  BY <1>8 DEF WatcherInv, ListedOnce, BirthsOnce, Sound, Good, Twinless, Sampleable, FullyOpen, Alive
<1>11. \A s \in DOMAIN slots' : \E i \in DOMAIN entries : entries[i].birth = slots'[s].birth
  BY <1>5, <1>6
<1>12. ASSUME slots' = <<>>, WatchMax > 0, entries # <<>>, entries[1].alive
       PROVE  FALSE
  <2>1. n = 0
    BY <1>4, <1>7, <1>12
  <2>2. W = {}
    BY <1>2, <1>4, <2>1, FS_EmptySet
  <2>3. 1 \in DOMAIN entries /\ \A j \in 1 .. 1 : entries[j].alive
    BY <1>1, <1>12
  <2>4. 1 \in Writable
    BY <1>1, <1>12, <2>3 DEF Writable
  <2>5. QED
    BY <1>2, <2>2, <2>4
<1>13. QED
  BY <1>8, <1>9, <1>10, <1>11, <1>12 DEF WatcherInv

-----------------------------------------------------------------------------
(* The watcher by itself.                                                  *)

LEMMA WatcherInitial == Init => WatcherInv
BY WatcherAssumption
   DEF Init, WatcherInv, TypeOK, ListedOnce, BirthsOnce, Sound, Twinless, Sampleable, Alive

LEMMA WatcherSteps == WatcherInv /\ [Next]_vars => WatcherInv'
<1> SUFFICES ASSUME WatcherInv, [Next]_vars PROVE WatcherInv'
  OBVIOUS
<1>1. CASE System
  BY <1>1, SystemKeeps
<1>2. CASE Api
  BY <1>2, AddsKeep, RemoveWatchKeeps, RemovePidKeeps DEF Api
<1>3. CASE PollThread
  BY <1>3, SnapshotKeeps, DiscoverKeeps, PollKeeps, WriteKeeps DEF PollThread
<1>4. CASE UNCHANGED vars
  BY <1>4 DEF vars, os, config, WatcherInv, TypeOK, ListedOnce, BirthsOnce, Sound, Good, Twinless,
              Sampleable, FullyOpen, Alive
<1>5. QED
  BY <1>1, <1>2, <1>3, <1>4 DEF Next

LEMMA WatcherSuffices == WatcherInv => EntriesAreSound
BY DEF WatcherInv, Sound, Good, Twinless, EntriesAreSound, NoTwin, LiveIsConfigured, OneProcessPerEntry

\* Between any two steps of the poll thread, of the API and of the system, a pid
\* has one entry, a live entry is one that is asked for, and an entry's counters
\* are those of one process (service/process_watcher/watcher.cpp).
THEOREM EntriesStaySound == Spec => []EntriesAreSound
<1>1. QED
  BY WatcherInitial, WatcherSteps, WatcherSuffices, PTL DEF Spec

-----------------------------------------------------------------------------
(* A session beside it.                                                    *)

SessionTypes ==
  /\ session \in {"none", "active", "stopped"} /\ watch_seen \in BOOLEAN
  /\ due \in BOOLEAN /\ removed \in BOOLEAN /\ saw \subseteq 1 .. MaxProcs

\* OnPollTick sees what WriteToShm has just written.
Published ==
  due => /\ ppc = "idle"
         /\ \A s \in DOMAIN slots : \E i \in DOMAIN entries : entries[i].birth = slots[s].birth
         /\ slots = <<>> /\ WatchMax > 0 => entries = <<>> \/ ~entries[1].alive

Seen ==
  /\ watch_seen => saw # {}
  /\ slots # <<>> \/ saw # {} => WatchMax > 0
  /\ session = "none" => saw = {}
  /\ \A b \in saw : b <= procs /\ FullyOpen(b)

\* While nobody removes a watch, what the session has seen keeps its entry.
Watching ==
  session = "active" /\ ~removed =>
    /\ \A i \in DOMAIN entries : entries[i].alive
    /\ \A b \in saw : Runs(b) => \E i \in DOMAIN entries : entries[i].birth = b

SWIInv == /\ WatcherInv /\ SessionTypes /\ Published /\ Seen /\ Watching
          /\ SessionOutlivesWatched

LEMMA SessionInitial == SWInit => SWIInv
<1> SUFFICES ASSUME SWInit PROVE SWIInv
  OBVIOUS
<1>1. WatcherInv
  BY WatcherInitial DEF SWInit
<1>2. session = "none" /\ ~watch_seen /\ ~due /\ saw = {} /\ ~removed /\ slots = <<>>
      /\ watch_seen \in BOOLEAN /\ due \in BOOLEAN /\ removed \in BOOLEAN
  BY DEF SWInit, Init
<1>3. QED
  BY <1>1, <1>2 DEF SWIInv, SessionTypes, Published, Seen, Watching, SessionOutlivesWatched

LEMMA StartKeepsSession ==
  ASSUME SWIInv, StartSession
  PROVE  SWIInv'
<1>1. /\ UNCHANGED <<proc, procs, names, pids, entries, ppc, running, slots, calls>>
      /\ UNCHANGED <<watch_seen, due, saw>>
      /\ session = "none" /\ session' = "active" /\ removed' \in BOOLEAN
      /\ (~removed' => \A i \in DOMAIN entries : entries[i].alive)
  BY DEF StartSession, vars, os, config
<1>2. WatcherInv'
  BY <1>1 DEF SWIInv, WatcherInv, TypeOK, ListedOnce, BirthsOnce, Sound, Good, Twinless,
              Sampleable, FullyOpen, Alive
<1>3. QED
  BY <1>1, <1>2 DEF SWIInv, SessionTypes, Published, Seen, Watching, SessionOutlivesWatched,
                    FullyOpen, Alive

\* What a step of the watcher does to the processes a session has seen.
LEMMA SeenStays ==
  ASSUME SWIInv, TypeOK', Ages, UNCHANGED <<session, watch_seen, saw>>
  PROVE  Seen' /\ \A b \in saw : Runs(b)' => Runs(b)
<1>1. \A b \in saw : b \in 1 .. MaxProcs /\ b <= procs /\ FullyOpen(b)
  BY DEF SWIInv, SessionTypes, Seen
<1>2. \A b \in saw : \A p \in Pids : Alive(p, b)' => Alive(p, b) /\ proc'[p] = proc[p]
  BY <1>1 DEF Ages
<1>3. /\ \A b \in saw : b <= procs'
      /\ slots' # <<>> => WatchMax > 0
  <2>1. procs \in Nat /\ procs' \in Nat /\ slots' \in Seq([pid : Pids, birth : 1 .. MaxProcs])
        /\ Len(slots') <= WatchMax /\ WatchMax \in Nat
    BY WatcherAssumption DEF SWIInv, WatcherInv, TypeOK
  <2>2. \A b \in saw : b <= procs'
    BY <1>1, <2>1 DEF Ages
  <2>3. QED
    BY <2>1, <2>2
<1>4. QED
  BY <1>1, <1>2, <1>3 DEF SWIInv, Seen, FullyOpen, Alive, Runs

\* Nothing comes or goes unless the system does it.
LEMMA SameAges == UNCHANGED os /\ TypeOK => Ages
<1> SUFFICES ASSUME UNCHANGED os, TypeOK PROVE Ages
  OBVIOUS
<1>1. proc' = proc /\ procs' = procs /\ procs \in Int
  BY WatcherAssumption DEF os, TypeOK
<1>2. QED
  BY <1>1 DEF Ages, Alive

\* The session is ended with a reason, as long as its processes stay ended.
LEMMA OutlivedStays ==
  ASSUME SWIInv, UNCHANGED <<session, saw>>, removed' = FALSE => removed = FALSE,
         removed' \in BOOLEAN, \A b \in saw : Runs(b)' => Runs(b)
  PROVE  SessionOutlivesWatched'
BY DEF SWIInv, SessionTypes, SessionOutlivesWatched

LEMMA SystemKeepsSession ==
  ASSUME SWIInv, WatcherStep, System
  PROVE  SWIInv'
<1>1. WatcherInv' /\ Ages /\ TypeOK'
  BY SystemKeeps DEF SWIInv, WatcherInv
<1>2. UNCHANGED <<config, entries, ppc, running, slots, session, watch_seen, saw>>
  BY DEF System, ProcessStart, ProcessExit, WatcherStep
<1>3. due' = due /\ removed' \in BOOLEAN /\ (removed' = FALSE => removed = FALSE)
  <2>1. ~WriteToShm
    BY <1>2 DEF WriteToShm
  <2>2. QED
    BY <2>1 DEF WatcherStep, SWIInv, SessionTypes
<1>4. Seen' /\ \A b \in saw : Runs(b)' => Runs(b)
  BY <1>1, <1>2, SeenStays
<1>5. SessionTypes' /\ Published' /\ Watching'
  BY <1>2, <1>3, <1>4 DEF SWIInv, SessionTypes, Published, Watching
<1>6. SessionOutlivesWatched'
  BY <1>2, <1>3, <1>4, OutlivedStays
<1>7. QED
  BY <1>1, <1>4, <1>5, <1>6 DEF SWIInv

LEMMA ApiKeepsSession ==
  ASSUME SWIInv, WatcherStep, Api
  PROVE  SWIInv'
<1>1. UNCHANGED <<os, ppc, running, slots, session, watch_seen, saw>>
  BY DEF Api, AddWatch, RemoveWatch, AddPid, RemovePid, Call, WatcherStep
<1>2. due' = due /\ removed' \in BOOLEAN /\ (removed' = FALSE => removed = FALSE)
      /\ (Removal => removed' = TRUE)
  <2>1. ~WriteToShm
    BY <1>1 DEF WriteToShm
  <2>2. QED
    BY <2>1 DEF WatcherStep, SWIInv, SessionTypes
<1>3. WatcherInv /\ TypeOK /\ Ages
  BY <1>1, SameAges DEF SWIInv, WatcherInv
<1>4. WatcherInv' /\ Marked(entries, entries') /\ (UNCHANGED entries \/ removed' = TRUE)
  <2>1. CASE (\E exe \in Exes : AddWatch(exe)) \/ (\E p \in Pids : AddPid(p))
    <3>1. WatcherInv' /\ UNCHANGED entries
      BY <1>3, <2>1, AddsKeep
    <3>2. Marked(entries, entries')
      BY <1>3, <3>1 DEF Marked, TypeOK
    <3>3. QED
      BY <3>1, <3>2
  <2>2. ASSUME NEW exe \in Exes, RemoveWatch(exe)
        PROVE  WatcherInv' /\ Marked(entries, entries') /\ removed' = TRUE
    BY <1>2, <1>3, <2>2, RemoveWatchKeeps DEF Removal
  <2>3. ASSUME NEW p \in Pids, RemovePid(p)
        PROVE  WatcherInv' /\ Marked(entries, entries') /\ removed' = TRUE
    BY <1>2, <1>3, <2>3, RemovePidKeeps DEF Removal
  <2>4. QED
    BY <2>1, <2>2, <2>3 DEF Api
<1>5. TypeOK'
  BY <1>4 DEF WatcherInv
<1>6. Seen' /\ \A b \in saw : Runs(b)' => Runs(b)
  BY <1>1, <1>3, <1>5, SeenStays
<1>7. Published'
  <2>1. /\ entries \in Seq(Entry) /\ entries' \in Seq(Entry) /\ DOMAIN entries' = DOMAIN entries
        /\ \A i \in DOMAIN entries : /\ entries'[i].birth = entries[i].birth
                                     /\ entries'[i].alive => entries[i].alive
    <3>1. entries \in Seq(Entry) /\ entries' \in Seq(Entry) /\ DOMAIN entries' = DOMAIN entries
      BY <1>3, <1>4, <1>5 DEF TypeOK, Marked
    <3>2. ASSUME NEW i \in DOMAIN entries
          PROVE  /\ entries'[i].birth = entries[i].birth
                 /\ entries'[i].alive => entries[i].alive
      <4>1. PICK e, d : e = entries[i] /\ d = entries'[i]
        OBVIOUS
      <4>2. e \in Entry /\ (d = e \/ d = [e EXCEPT !.alive = FALSE])
        BY <1>4, <3>1, <4>1 DEF Marked
      <4>3. d.birth = e.birth /\ (d.alive => e.alive)
        BY <4>2 DEF Entry
      <4>4. QED
        BY <4>1, <4>3
    <3>3. QED
      BY <3>1, <3>2
  <2>2. entries = <<>> => entries' = <<>>
    BY <2>1
  <2>3. entries # <<>> => 1 \in DOMAIN entries
    BY <2>1
  <2>4. QED
    BY <1>1, <1>2, <2>1, <2>2, <2>3 DEF SWIInv, Published
<1>8. Watching' /\ SessionTypes'
  BY <1>1, <1>2, <1>4, <1>6 DEF SWIInv, Watching, SessionTypes
<1>9. SessionOutlivesWatched'
  BY <1>1, <1>2, <1>6, OutlivedStays
<1>10. QED
  BY <1>4, <1>6, <1>7, <1>8, <1>9 DEF SWIInv

\* A step of the poll thread leaves live entries, and one for each running
\* process the session has seen.
LEMMA PollThreadKeepsEntries ==
  ASSUME SWIInv, PollThread, session = "active", removed = FALSE
  PROVE  /\ \A i \in DOMAIN entries' : entries'[i].alive
         /\ \A b \in saw : Runs(b) => \E i \in DOMAIN entries' : entries'[i].birth = b
<1>1. /\ \A i \in DOMAIN entries : entries[i].alive
      /\ \A b \in saw : Runs(b) => \E i \in DOMAIN entries : entries[i].birth = b
  BY DEF SWIInv, Watching
<1>2. WatcherInv
  BY DEF SWIInv
<1>3. CASE SnapshotProcesses \/ WriteToShm
  BY <1>1, <1>3 DEF SnapshotProcesses, WriteToShm
<1>4. CASE DiscoverNewProcesses
  <2>1. /\ \A i \in DOMAIN entries : i \in DOMAIN entries' /\ entries'[i] = entries[i]
        /\ \A i \in DOMAIN entries' : entries'[i].alive \/ i \in DOMAIN entries
    BY <1>2, <1>4, DiscoverKeeps
  <2>2. QED
    BY <1>1, <2>1
<1>5. CASE Poll
  <2>1. /\ \A i \in DOMAIN entries' : entries'[i].alive
        /\ \A i \in DOMAIN entries :
             /\ entries[i].alive /\ Alive(entries[i].pid, entries[i].birth)
             /\ proc[entries[i].pid].access = "full"
             => \E j \in DOMAIN entries' : entries'[j].birth = entries[i].birth
    BY <1>2, <1>5, PollKeeps
  <2>2. ASSUME NEW b \in saw, Runs(b)
        PROVE  \E i \in DOMAIN entries' : entries'[i].birth = b
    <3>1. PICK i \in DOMAIN entries : entries[i].birth = b
      BY <1>1, <2>2
    <3>2. PICK p \in Pids : Alive(p, b)
      BY <2>2 DEF Runs, Alive
    <3>3. p = entries[i].pid /\ proc[p].access = "full"
      BY <1>2, <3>1, <3>2 DEF WatcherInv, Sound, Good, SWIInv, Seen, FullyOpen
    <3>4. QED
      BY <1>1, <2>1, <3>1, <3>2, <3>3
  <2>3. QED
    BY <2>1, <2>2
<1>6. QED
  BY <1>3, <1>4, <1>5 DEF PollThread

LEMMA PollThreadKeepsSession ==
  ASSUME SWIInv, WatcherStep, due = FALSE, PollThread
  PROVE  SWIInv'
<1>1. UNCHANGED <<os, config, session, watch_seen, saw>>
  BY DEF PollThread, SnapshotProcesses, DiscoverNewProcesses, Poll, WriteToShm, WatcherStep
<1>2. WatcherInv /\ TypeOK /\ Ages
  BY <1>1, SameAges DEF SWIInv, WatcherInv
<1>3. WatcherInv' /\ TypeOK'
  BY <1>2, SnapshotKeeps, DiscoverKeeps, PollKeeps, WriteKeeps DEF PollThread, WatcherInv
<1>4. Seen' /\ \A b \in saw : Runs(b)' => Runs(b)
  BY <1>1, <1>2, <1>3, SeenStays
<1>5. /\ removed' \in BOOLEAN /\ (removed' = FALSE => removed = FALSE)
      /\ due' \in BOOLEAN /\ (due' = TRUE => WriteToShm)
  BY DEF WatcherStep, SWIInv, SessionTypes
<1>6. Published'
  <2>1. CASE due' = TRUE
    <3>1. WriteToShm /\ ppc' = "idle" /\ UNCHANGED entries
      BY <1>5, <2>1 DEF WriteToShm
    <3>2. /\ \A s \in DOMAIN slots' : \E i \in DOMAIN entries : entries[i].birth = slots'[s].birth
          /\ slots' = <<>> /\ WatchMax > 0 /\ entries # <<>> => ~entries[1].alive
      BY <1>2, <3>1, WriteKeeps
    <3>3. QED
      BY <3>1, <3>2 DEF Published
  <2>2. CASE due' = FALSE
    BY <2>2 DEF Published
  <2>3. QED
    BY <1>5, <2>1, <2>2
<1>7. Watching'
  <2>1. SUFFICES ASSUME session' = "active", ~removed' PROVE Watching'
    BY DEF Watching
  <2>2. session = "active" /\ removed = FALSE
    BY <1>1, <1>5, <2>1
  <2>3. /\ \A i \in DOMAIN entries' : entries'[i].alive
        /\ \A b \in saw : Runs(b) => \E i \in DOMAIN entries' : entries'[i].birth = b
    BY <2>2, PollThreadKeepsEntries
  <2>4. QED
    BY <1>1, <1>4, <2>3 DEF Watching
<1>8. SessionOutlivesWatched'
  BY <1>1, <1>4, <1>5, OutlivedStays
<1>9. SessionTypes'
  BY <1>1, <1>5 DEF SWIInv, SessionTypes
<1>10. QED
  BY <1>3, <1>4, <1>6, <1>7, <1>8, <1>9 DEF SWIInv

LEMMA TickKeepsSession ==
  ASSUME SWIInv, OnPollTick
  PROVE  SWIInv'
<1>1. /\ UNCHANGED <<proc, procs, names, pids, entries, ppc, running, slots, calls, removed>>
      /\ due /\ due' = FALSE /\ WatcherInv /\ SessionTypes
  BY DEF OnPollTick, vars, os, config, SWIInv
<1>2. WatcherInv'
  BY <1>1 DEF SWIInv, WatcherInv, TypeOK, ListedOnce, BirthsOnce, Sound, Good, Twinless,
              Sampleable, FullyOpen, Alive
<1>3. Published'
  BY <1>1 DEF Published
<1>4. CASE session # "active"
  <2>1. UNCHANGED <<session, watch_seen, saw>>
    BY <1>4 DEF OnPollTick
  <2>2. QED
    BY <1>1, <1>2, <1>3, <2>1 DEF SWIInv, SessionTypes, Seen, Watching, SessionOutlivesWatched,
                                  FullyOpen, Alive, Runs
<1>5. CASE session = "active"
  <2> DEFINE new == {slots[i].birth : i \in DOMAIN slots}
  <2>1. /\ watch_seen' = (watch_seen \/ slots # <<>>)
        /\ session' = IF watch_seen' /\ slots = <<>> THEN "stopped" ELSE "active"
        /\ saw' = saw \cup new
    BY <1>5 DEF OnPollTick, WatchedDone
  <2>2. slots \in Seq([pid : Pids, birth : 1 .. MaxProcs])
    BY <1>1 DEF WatcherInv, TypeOK
  <2>3. \A b \in new : /\ b \in 1 .. MaxProcs /\ b <= procs /\ FullyOpen(b)
                       /\ \E i \in DOMAIN entries : entries[i].birth = b
    <3>1. SUFFICES ASSUME NEW s \in DOMAIN slots
                   PROVE  /\ slots[s].birth \in 1 .. MaxProcs /\ slots[s].birth <= procs
                          /\ FullyOpen(slots[s].birth)
                          /\ \E i \in DOMAIN entries : entries[i].birth = slots[s].birth
      OBVIOUS
    <3>2. PICK i \in DOMAIN entries : entries[i].birth = slots[s].birth
      BY <1>1 DEF SWIInv, Published
    <3>3. slots[s].birth \in 1 .. MaxProcs
      <4>1. PICK T : T = [pid : Pids, birth : 1 .. MaxProcs]
        OBVIOUS
      <4>2. slots \in Seq(T) /\ DOMAIN slots = 1 .. Len(slots)
        BY <2>2, <4>1
      <4>3. slots[s] \in T
        BY <4>2
      <4>4. QED
        BY <4>1, <4>3
    <3>4. entries[i].birth <= procs /\ FullyOpen(entries[i].birth)
      BY <1>1 DEF SWIInv, Published, WatcherInv, Sound, Good, Sampleable
    <3>5. QED
      BY <3>2, <3>3, <3>4
  <2>4. slots # <<>> => new # {} /\ WatchMax > 0
    <3>1. slots # <<>> => 1 \in DOMAIN slots
      BY <2>2
    <3>2. QED
      BY <3>1 DEF SWIInv, Seen
  <2>5. slots = <<>> => new = {}
    BY <2>2
  <2> HIDE DEF new
  <2>6. SessionTypes'
    BY <1>1, <2>1, <2>3 DEF SessionTypes
  <2>7. Seen'
    BY <1>1, <1>5, <2>1, <2>3, <2>4, <2>5 DEF SWIInv, Seen, FullyOpen, Alive
  <2>8. Watching'
    BY <1>1, <1>5, <2>1, <2>3 DEF SWIInv, Watching, Runs
  <2>9. SessionOutlivesWatched'
    <3>1. SUFFICES ASSUME session' = "stopped", ~removed'
                   PROVE  saw' # {} /\ \A b \in saw' : ~Runs(b)'
      BY DEF SessionOutlivesWatched
    <3>2. slots = <<>> /\ watch_seen /\ saw # {} /\ saw' = saw /\ WatchMax > 0
      BY <1>1, <2>1, <2>5, <3>1 DEF SWIInv, Seen
    <3>3. /\ \A i \in DOMAIN entries : entries[i].alive
          /\ \A b \in saw : Runs(b) => \E i \in DOMAIN entries : entries[i].birth = b
      BY <1>1, <1>5, <3>1 DEF SWIInv, Watching
    <3>4. entries = <<>>
      <4>1. entries \in Seq(Entry) /\ (entries = <<>> \/ ~entries[1].alive)
        BY <1>1, <3>2 DEF SWIInv, Published, WatcherInv, TypeOK
      <4>2. entries # <<>> => 1 \in DOMAIN entries
        BY <4>1
      <4>3. QED
        BY <3>3, <4>1, <4>2
    <3>5. QED
      BY <1>1, <3>2, <3>3, <3>4 DEF Runs
  <2>10. QED
    BY <1>2, <1>3, <2>6, <2>7, <2>8, <2>9 DEF SWIInv
<1>6. QED
  BY <1>4, <1>5

LEMMA SessionSteps == SWIInv /\ [SWNext]_swVars => SWIInv'
<1> SUFFICES ASSUME SWIInv, [SWNext]_swVars PROVE SWIInv'
  OBVIOUS
<1>1. CASE StartSession
  BY <1>1, StartKeepsSession
<1>2. CASE WatcherStep
  <2>1. System \/ Api \/ (due = FALSE /\ PollThread)
    BY <1>2 DEF WatcherStep, SWIInv, SessionTypes
  <2>2. QED
    BY <1>2, <2>1, SystemKeepsSession, ApiKeepsSession, PollThreadKeepsSession
<1>3. CASE OnPollTick
  BY <1>3, TickKeepsSession
<1>4. CASE UNCHANGED swVars
  BY <1>4 DEF swVars, vars, os, config, SWIInv, WatcherInv, TypeOK, ListedOnce, BirthsOnce, Sound,
              Good, Twinless, Sampleable, FullyOpen, Alive, SessionTypes, Published, Seen, Watching,
              SessionOutlivesWatched, Runs
<1>5. QED
  BY <1>1, <1>2, <1>3, <1>4 DEF SWNext

\* The watcher keeps its promise beside a session, too.
THEOREM EntriesStaySoundBesideSession == SWSpec => []EntriesAreSound
<1>1. SWIInv => EntriesAreSound
  BY WatcherSuffices DEF SWIInv
<1>2. QED
  BY <1>1, SessionInitial, SessionSteps, PTL DEF SWSpec

\* Unless somebody removes a watch, a session with stop_when_watch_empty has seen
\* a process before it ends, and none it has seen runs any more
\* (service/log_session.cpp, watched_done).
THEOREM SessionsOutliveWatched == SWSpec => []SessionOutlivesWatched
<1>1. SWIInv => SessionOutlivesWatched
  BY DEF SWIInv
<1>2. QED
  BY <1>1, SessionInitial, SessionSteps, PTL DEF SWSpec
=============================================================================
