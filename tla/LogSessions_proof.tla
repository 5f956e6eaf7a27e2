------------------------- MODULE LogSessions_proof --------------------------
(***************************************************************************)
(* The store of logging sessions for any number of sessions, addresses,    *)
(* HTTP threads, polls and crashes, and any request: what a stopped        *)
(* session's files say, what a crash can cost, that an overdue session     *)
(* stops, and that the store implements SessionLedger.  The invariant IInv *)
(* says who owns an object, that ids are handed out once, what the poll    *)
(* thread's pointers may have become, and how rows, buffers, log, meta and *)
(* index agree.                                                            *)
(***************************************************************************)
EXTENDS LogSessions, Subsequences_proof

Live(c) == heap[c] # Free

\* Every object belongs to the store, once, or to the thread that is about to
\* store it, whose session nobody has ended and no file but its own knows.
Owned ==
  /\ \A i, j \in DOMAIN store : store[i] = store[j] => i = j
  /\ \A i \in DOMAIN store : Live(store[i]) /\ meta[heap[store[i]].id].status # "none"
  /\ \A h \in Https : http[h] # None =>
       /\ Live(http[h]) /\ http[h] \notin Listed
       /\ heap[http[h]].status \in {"active", "failed"}
       /\ meta[heap[http[h]].id] = NoMeta
  /\ \A g, h \in Https : http[g] # None /\ http[g] = http[h] => g = h
  /\ \A c \in Cells : Live(c) => c \in Listed \/ \E h \in Https : http[h] = c

\* An id is handed out once, and an id not handed out has no files.
Identified ==
  /\ \A c \in Cells : Live(c) => heap[c].id \in taken /\ (heap[c].open <=> heap[c].status = "active")
  /\ \A c, d \in Cells : Live(c) /\ Live(d) /\ heap[c].id = heap[d].id => c = d
  /\ \A id \in Ids \ taken : meta[id] = NoMeta /\ log[id] = 0 /\ Indexed(id) = {}

\* The poll thread visits an object once in a walk; an object that has taken
\* the place of a freed one is younger than the poll.
Pointers ==
  /\ ppc = "walk" <=> active # <<>>
  /\ \A i, j \in DOMAIN active : active[i] = active[j] => i = j
  /\ \A i \in DOMAIN active, h \in Https : http[h] = active[i] =>
       heap[active[i]].started = clock /\ ~heap[active[i]].watch_seen

\* The lines of the index, and the numbers of meta and log.
Books ==
  /\ \A id \in Ids : \A i, j \in Indexed(id) : i = j
  /\ \A c \in Cells : Live(c) /\ heap[c].status = "active" =>
       Indexed(heap[c].id) = {} /\ meta[heap[c].id].status # "stopped"
  /\ ~full => \A id \in Ids : meta[id].status = "stopped" =>
       /\ log[id] = meta[id].rows
       /\ \E i \in Indexed(id) : index[i].rows = meta[id].rows

\* What the stream of an active session holds back is what came after the
\* last multiple of FlushEvery rows, or less.
Buffers ==
  ~full => \A c \in Cells : Live(c) /\ heap[c].status = "active" =>
    /\ ~heap[c].bad
    /\ log[heap[c].id] + heap[c].buffered = heap[c].rows
    /\ heap[c].buffered <= heap[c].rows % FlushEvery

IInv == TypeOK /\ Owned /\ Identified /\ Pointers /\ Books /\ Buffers

-----------------------------------------------------------------------------
\* The remainder steps up by one until it is zero.
LEMMA RemainderStep ==
  ASSUME NEW r \in Nat
  PROVE  /\ r % FlushEvery \in 0 .. FlushEvery - 1
         /\ (r + 1) % FlushEvery = 0 \/ (r + 1) % FlushEvery = (r % FlushEvery) + 1
<1> DEFINE q == r \div FlushEvery
           m == r % FlushEvery
<1>1. FlushEvery \in Nat \ {0}
  BY SessionsAssumption
<1>2. m \in 0 .. FlushEvery - 1 /\ q \in Nat /\ r = FlushEvery * q + m
  BY <1>1
<1>3. CASE m + 1 < FlushEvery
  <2>1. m + 1 \in 0 .. FlushEvery - 1 /\ r + 1 = FlushEvery * q + (m + 1)
    BY <1>1, <1>2, <1>3
  <2>2. QED
    BY <1>1, <1>2, <2>1
<1>4. CASE m + 1 = FlushEvery
  <2>1. r + 1 = FlushEvery * (q + 1) + 0
    BY <1>1, <1>2, <1>4
  <2>2. QED
    BY <1>1, <1>2, <2>1
<1>5. QED
  BY <1>1, <1>2, <1>3, <1>4

Metas == [status : {"none", "active", "stopped", "failed", "torn", "deleted"}, rows : Nat]
Lines == [id : Ids, rows : Nat]

\* What a session keeps while its rows are written and its log is closed.
Same(s, t) ==
  /\ t.id = s.id /\ t.limit = s.limit /\ t.started = s.started
  /\ t.stop_when_watch_empty = s.stop_when_watch_empty

\* Flushing empties the buffer into the log, or, on a full disk only, loses it.
LEMMA FlushedFacts ==
  ASSUME NEW s \in Session, NEW f \in Flushed(s)
  PROVE  /\ f.sess \in Session /\ f.out \in Nat /\ Same(s, f.sess)
         /\ f.sess.status = s.status /\ f.sess.open = s.open /\ f.sess.rows = s.rows
         /\ f.sess.watch_seen = s.watch_seen /\ f.sess.buffered = 0
         /\ ~full => f.sess.bad = s.bad /\ f.out = s.buffered
<1>1. s.buffered \in Nat
  BY DEF Session
<1>2. CASE f = [sess |-> [s EXCEPT !.buffered = 0], out |-> s.buffered]
  BY <1>1, <1>2 DEF Session, Same
<1>3. CASE full /\ f = [sess |-> [s EXCEPT !.buffered = 0, !.bad = TRUE], out |-> 0]
  BY <1>3 DEF Session, Same
<1>4. QED
  BY <1>2, <1>3 DEF Flushed

\* WriteRow counts one row, which is in the log or in the buffer.
LEMMA RowWrittenFacts ==
  ASSUME NEW s \in Session, NEW r \in RowWritten(s)
  PROVE  /\ r.sess \in Session /\ r.out \in Nat /\ Same(s, r.sess)
         /\ r.sess.status = s.status /\ r.sess.open = s.open /\ r.sess.rows = s.rows + 1
         /\ r.sess.watch_seen = s.watch_seen
         /\ ~full /\ ~s.bad /\ s.buffered <= s.rows % FlushEvery =>
              /\ ~r.sess.bad /\ r.out + r.sess.buffered = s.buffered + 1
              /\ r.sess.buffered <= (s.rows + 1) % FlushEvery
<1> DEFINE t == [s EXCEPT !.rows = @ + 1, !.buffered = @ + 1]
<1>1. s.rows \in Nat /\ s.buffered \in Nat /\ s.rows + 1 \in Nat /\ s.buffered + 1 \in Nat
  BY DEF Session
<1>2. /\ t \in Session /\ t.rows = s.rows + 1 /\ t.buffered = s.buffered + 1 /\ t.bad = s.bad
      /\ t.status = s.status /\ t.open = s.open /\ t.watch_seen = s.watch_seen /\ Same(s, t)
  BY <1>1 DEF Session, Same
<1>3. CASE s.bad
  <2>1. r = [sess |-> [s EXCEPT !.rows = @ + 1], out |-> 0]
    BY <1>3 DEF RowWritten
  <2>2. QED
    BY <2>1, <1>1, <1>3 DEF Session, Same
<1>4. CASE ~s.bad /\ r \in Flushed(t)
  <2>1. /\ r.sess \in Session /\ r.out \in Nat /\ Same(t, r.sess)
        /\ r.sess.status = t.status /\ r.sess.open = t.open /\ r.sess.rows = t.rows
        /\ r.sess.watch_seen = t.watch_seen /\ r.sess.buffered = 0
        /\ ~full => r.sess.bad = t.bad /\ r.out = t.buffered
    BY <1>4, <1>2, FlushedFacts
  <2>2. (s.rows + 1) % FlushEvery >= 0
    BY <1>1, RemainderStep, SessionsAssumption
  <2>3. QED
    BY <2>1, <2>2, <1>1, <1>2 DEF Same
<1>5. CASE ~s.bad /\ (s.rows + 1) % FlushEvery # 0 /\ r = [sess |-> t, out |-> 0]
  <2>1. (s.rows + 1) % FlushEvery = (s.rows % FlushEvery) + 1 /\ s.rows % FlushEvery \in Int
    BY <1>1, <1>5, RemainderStep
  <2>2. r.sess = t /\ r.out = 0
    BY <1>5
  <2>3. QED
    BY <2>1, <2>2, <1>1, <1>2
<1>6. QED
  BY <1>2, <1>3, <1>4, <1>5 DEF RowWritten

-----------------------------------------------------------------------------
\* The empty store of the first start.
LEMMA InitIInv == Init => IInv
<1> SUFFICES ASSUME Init PROVE IInv
  OBVIOUS
<1>1. TypeOK
  <2>1. NoMeta \in Metas
    BY DEF NoMeta, Metas
  <2>2. index \in Seq([id : Ids, rows : Nat])
    BY DEF Init
  <2>3. heap \in [Cells -> Session \cup {Free}] /\ http \in [Https -> Cells \cup {None}]
    BY DEF Init
  <2>4. meta \in [Ids -> Metas] /\ log \in [Ids -> Nat]
    BY <2>1 DEF Init
  <2>7. up \in BOOLEAN /\ full \in BOOLEAN
    BY Zenon DEF Init
  <2>5. /\ crashes \in Nat /\ clock \in Nat /\ watchCount \in Nat
        /\ store \in Seq(Cells) /\ active \in Seq(Cells)
        /\ ppc \in {"idle", "tick", "walk"} /\ taken \subseteq Ids
    BY DEF Init
  <2>6. QED
    BY <2>2, <2>3, <2>4, <2>5, <2>7 DEF TypeOK, Metas
<1>2. Owned /\ Pointers
  BY DEF Init, Owned, Pointers, Live
<1>3. \A id \in Ids : Indexed(id) = {}
  BY DEF Init, Indexed
<1>4. Identified /\ Books /\ Buffers
  BY <1>3 DEF Init, Identified, Books, Buffers, Live, NoMeta
<1>5. QED
  BY <1>1, <1>2, <1>4 DEF IInv

-----------------------------------------------------------------------------
\* A line is added for one session only.
LEMMA LineAdded ==
  ASSUME index \in Seq(Lines), NEW d \in Ids, NEW n \in Nat,
         index' = Append(index, [id |-> d, rows |-> n])
  PROVE  /\ index' \in Seq(Lines)
         /\ \A i \in 1 .. Len(index) : index'[i] = index[i]
         /\ \A id \in Ids \ {d} : Indexed(id)' = Indexed(id)
         /\ Indexed(d)' = Indexed(d) \cup {Len(index) + 1}
         /\ index'[Len(index) + 1].rows = n
<1> DEFINE L == Len(index)
           e == [id |-> d, rows |-> n]
<1>1. /\ e \in Lines /\ L \in Nat /\ Len(index') = L + 1 /\ index' \in Seq(Lines)
      /\ \A i \in 1 .. L : index'[i] = index[i]
      /\ index'[L + 1] = e
  BY DEF Lines
<1>2. e.id = d /\ e.rows = n
  OBVIOUS
<1>3. \A id \in Ids : \A i \in 1 .. L + 1 :
        i \in Indexed(id)' <=> ((i \in 1 .. L /\ i \in Indexed(id)) \/ (i = L + 1 /\ id = d))
  BY <1>1, <1>2 DEF Indexed
<1>4. \A id \in Ids : Indexed(id)' \subseteq 1 .. L + 1 /\ Indexed(id) \subseteq 1 .. L
  BY <1>1 DEF Indexed
<1>5. ASSUME NEW id \in Ids \ {d} PROVE Indexed(id)' = Indexed(id)
  <2>1. Indexed(id) \subseteq 1 .. L + 1
    BY <1>1, <1>4
  <2>2. \A i \in 1 .. L + 1 : i \in Indexed(id)' <=> i \in Indexed(id)
    BY <1>1, <1>3, <1>4
  <2>3. QED
    BY <1>4, <2>1, <2>2
<1>6. Indexed(d)' = Indexed(d) \cup {L + 1}
  BY <1>1, <1>3, <1>4
<1>7. QED
  BY <1>1, <1>2, <1>5, <1>6

\* Something happens to one object: the others, and who owns what, stay.
LEMMA ObjectFrame ==
  ASSUME IInv, NEW c \in Cells, Live(c), NEW t \in Session, t.id = heap[c].id,
         t.open <=> t.status = "active",
         heap' = [heap EXCEPT ![c] = t], UNCHANGED <<store, http, taken>>,
         \A id \in Ids : id # t.id => /\ meta'[id] = meta[id] /\ log'[id] = log[id]
                                      /\ Indexed(id)' = Indexed(id),
         IF c \in Listed THEN meta'[t.id].status # "none"
         ELSE meta' = meta /\ t.status \in {"active", "failed"}
  PROVE  Owned' /\ Identified'
<1>1. heap \in [Cells -> Session \cup {Free}] /\ store \in Seq(Cells) /\ http \in [Https -> Cells \cup {None}]
  BY DEF IInv, TypeOK
<1>2. /\ heap'[c] = t /\ t # Free /\ \A d \in Cells \ {c} : heap'[d] = heap[d]
      /\ \A d \in Cells : heap'[d] # Free <=> heap[d] # Free
  BY <1>1, SessionsAssumption DEF Live
<1>3. \A d \in Cells : Live(d) => heap'[d].id = heap[d].id /\ heap[d].id \in Ids
  BY <1>1, <1>2 DEF Live, Session
<1>4. \A d \in Cells \ {c} : Live(d) => heap[d].id # t.id
  BY DEF IInv, Identified
<1>5. Listed' = Listed /\ \A i \in DOMAIN store : store[i] \in Cells /\ store[i] \in Listed
  BY <1>1 DEF Listed, Range
<1>6. \A h \in Https : http[h] # None => http[h] \in Cells
  BY <1>1
<1>10. ASSUME NEW d \in Cells \ {c}, Live(d)
       PROVE  heap'[d] = heap[d] /\ heap[d].id \in Ids /\ meta'[heap[d].id] = meta[heap[d].id]
  <2>1. heap[d].id \in Ids /\ heap[d].id # t.id /\ heap'[d] = heap[d]
    BY <1>2, <1>3, <1>4, <1>10
  <2>2. QED
    BY <2>1
<1>7. Owned'
  <2>1. (\A i \in DOMAIN store : Live(store[i]) /\ meta[heap[store[i]].id].status # "none")'
    <3> SUFFICES ASSUME NEW i \in DOMAIN store
                 PROVE  heap'[store[i]] # Free /\ meta'[heap'[store[i]].id].status # "none"
      BY DEF Live
    <3>1. store[i] \in Cells /\ Live(store[i]) /\ meta[heap[store[i]].id].status # "none"
      BY <1>5 DEF IInv, Owned
    <3>2. CASE store[i] = c
      BY <3>1, <3>2, <1>2, <1>3, <1>5
    <3>3. CASE store[i] # c
      BY <3>1, <3>3, <1>10 DEF Live
    <3>4. QED
      BY <3>2, <3>3
  <2>2. (\A h \in Https : http[h] # None =>
           /\ Live(http[h]) /\ http[h] \notin Listed
           /\ heap[http[h]].status \in {"active", "failed"}
           /\ meta[heap[http[h]].id] = NoMeta)'
    <3> SUFFICES ASSUME NEW h \in Https, http[h] # None
                 PROVE  /\ heap'[http[h]] # Free /\ http[h] \notin Listed
                        /\ heap'[http[h]].status \in {"active", "failed"}
                        /\ meta'[heap'[http[h]].id] = NoMeta
      BY <1>5 DEF Live
    <3>1. /\ http[h] \in Cells /\ Live(http[h]) /\ http[h] \notin Listed
          /\ heap[http[h]].status \in {"active", "failed"}
          /\ meta[heap[http[h]].id] = NoMeta
      BY <1>6 DEF IInv, Owned
    <3>2. CASE http[h] = c
      BY <3>1, <3>2, <1>2, <1>3
    <3>3. CASE http[h] # c
      BY <3>1, <3>3, <1>10 DEF Live
    <3>4. QED
      BY <3>2, <3>3
  <2>3. (\A d \in Cells : Live(d) => d \in Listed \/ \E h \in Https : http[h] = d)'
    BY <1>2, <1>5 DEF IInv, Owned, Live
  <2>4. QED
    BY <2>1, <2>2, <2>3 DEF IInv, Owned
<1>8. Identified'
  <2>1. (\A d \in Cells : Live(d) => heap[d].id \in taken /\ (heap[d].open <=> heap[d].status = "active"))'
    BY <1>2, <1>3 DEF IInv, Identified, Live
  <2>2. (\A d, e \in Cells : Live(d) /\ Live(e) /\ heap[d].id = heap[e].id => d = e)'
    BY <1>2, <1>3 DEF IInv, Identified, Live
  <2>3. (\A id \in Ids \ taken : meta[id] = NoMeta /\ log[id] = 0 /\ Indexed(id) = {})'
    <3>1. t.id \in taken
      BY DEF IInv, Identified
    <3>2. QED
      BY <3>1 DEF IInv, Identified
  <2>4. QED
    BY <2>1, <2>2, <2>3 DEF Identified
<1>9. QED
  BY <1>7, <1>8

\* What the poll thread's clause about objects asks of them does not change.
LEMMA PointersFrame ==
  ASSUME IInv, NEW c \in Cells, Live(c), NEW t \in Session, heap' = [heap EXCEPT ![c] = t],
         UNCHANGED <<http, clock>>,
         \/ c \in Listed /\ UNCHANGED <<ppc, active>>
         \/ ppc = "walk" /\ c = Head(active) /\ NextPointer
  PROVE  Pointers' /\ ppc' \in {"idle", "tick", "walk"} /\ active' \in Seq(Cells)
<1>1. /\ heap \in [Cells -> Session \cup {Free}] /\ active \in Seq(Cells) /\ http \in [Https -> Cells \cup {None}]
      /\ ppc \in {"idle", "tick", "walk"}
  BY DEF IInv, TypeOK
<1>2. /\ \A d \in Cells \ {c} : heap'[d] = heap[d]
      /\ \A i, j \in DOMAIN active : active[i] = active[j] => i = j
      /\ \A i \in DOMAIN active, h \in Https : http[h] = active[i] =>
           heap[active[i]].started = clock /\ ~heap[active[i]].watch_seen
      /\ \A i \in DOMAIN active : active[i] \in Cells
      /\ ppc = "walk" <=> active # <<>>
  BY <1>1 DEF IInv, Pointers
<1>3. CASE c \in Listed /\ UNCHANGED <<ppc, active>>
  <2>1. \A h \in Https : http[h] # c
    BY <1>3, SessionsAssumption DEF IInv, Owned
  <2>2. QED
    BY <1>1, <1>2, <1>3, <2>1 DEF Pointers
<1>4. CASE ppc = "walk" /\ c = Head(active) /\ NextPointer
  <2>1. /\ active # <<>> /\ active' = Tail(active) /\ active' \in Seq(Cells)
        /\ ppc' = IF active' = <<>> THEN "idle" ELSE "walk"
    BY <1>1, <1>2, <1>4 DEF NextPointer
  <2>2. /\ \A i \in DOMAIN active' : i + 1 \in DOMAIN active /\ active'[i] = active[i + 1]
        /\ 1 \in DOMAIN active /\ active[1] = c
    BY <1>1, <1>4, <2>1
  <2>3. \A i \in DOMAIN active' : i \in Nat /\ i + 1 # 1
    BY <2>1
  <2>4. \A i \in DOMAIN active' : active'[i] # c /\ active'[i] \in Cells
    BY <1>2, <2>2, <2>3
  <2>5. \A i, j \in DOMAIN active' : active'[i] = active'[j] => i = j
    BY <1>2, <2>2, <2>3
  <2>6. \A i \in DOMAIN active', h \in Https : http[h] = active'[i] =>
          heap'[active'[i]].started = clock /\ ~heap'[active'[i]].watch_seen
    BY <1>2, <2>2, <2>4
  <2>7. QED
    BY <2>1, <2>5, <2>6 DEF Pointers
<1>5. QED
  BY <1>3, <1>4

\* A row, or the end of an active session without one, in heap and log.
LEMMA LogStep ==
  ASSUME IInv, NEW c \in Cells, Live(c), heap[c].status = "active",
         NEW t \in Session, NEW out \in Nat, t.id = heap[c].id,
         t.open <=> t.status = "active", t.status \in {"active", "failed"},
         t.status = "active" /\ ~full =>
           /\ ~t.bad /\ log[t.id] + out + t.buffered = t.rows
           /\ t.buffered <= t.rows % FlushEvery,
         heap' = [heap EXCEPT ![c] = t], log' = [log EXCEPT ![t.id] = @ + out],
         UNCHANGED <<store, http, world, taken, meta, index>>
  PROVE  /\ heap' \in [Cells -> Session \cup {Free}] /\ log' \in [Ids -> Nat]
         /\ Owned' /\ Identified' /\ Books' /\ Buffers'
<1>1. /\ heap \in [Cells -> Session \cup {Free}] /\ log \in [Ids -> Nat] /\ t.id \in Ids
      /\ store \in Seq(Cells)
  BY DEF IInv, TypeOK, Session
<1>2. /\ heap'[c] = t /\ \A d \in Cells \ {c} : heap'[d] = heap[d]
      /\ log'[t.id] = log[t.id] + out /\ \A id \in Ids : id # t.id => log'[id] = log[id]
      /\ heap' \in [Cells -> Session \cup {Free}] /\ log' \in [Ids -> Nat]
  BY <1>1
<1>3. \A id \in Ids : Indexed(id)' = Indexed(id)
  BY DEF Indexed
<1>4. \A i \in DOMAIN store : meta[heap[store[i]].id].status # "none"
  BY DEF IInv, Owned
<1>5. Owned' /\ Identified'
  <2>1. c \in Listed => meta'[t.id].status # "none"
    BY <1>1, <1>4 DEF Listed, Range
  <2>2. \A id \in Ids : id # t.id => /\ meta'[id] = meta[id] /\ log'[id] = log[id]
                                     /\ Indexed(id)' = Indexed(id)
    BY <1>2, <1>3
  <2>3. IF c \in Listed THEN meta'[t.id].status # "none"
        ELSE meta' = meta /\ t.status \in {"active", "failed"}
    BY <2>1
  <2>4. QED
    BY <2>2, <2>3, ObjectFrame
<1>6. Indexed(t.id) = {} /\ meta[t.id].status # "stopped"
  BY DEF IInv, Books
<1>7. \A d \in Cells \ {c} : Live(d) => heap[d].id \in Ids /\ heap[d].id # t.id
  BY <1>1 DEF IInv, Identified, Session, Live
<1>8. Books'
  <2>1. (\A id \in Ids : \A i, j \in Indexed(id) : i = j)'
    BY <1>3 DEF IInv, Books
  <2>2. (\A d \in Cells : Live(d) /\ heap[d].status = "active" =>
           Indexed(heap[d].id) = {} /\ meta[heap[d].id].status # "stopped")'
    <3> SUFFICES ASSUME NEW d \in Cells, heap'[d] # Free, heap'[d].status = "active"
                 PROVE  /\ heap'[d].id \in Ids
                        /\ Indexed(heap'[d].id) = {} /\ meta[heap'[d].id].status # "stopped"
      BY <1>3 DEF Live
    <3>1. CASE d = c
      BY <3>1, <1>1, <1>2, <1>6
    <3>2. CASE d # c
      BY <3>2, <1>2, <1>7 DEF IInv, Books, Live
    <3>3. QED
      BY <3>1, <3>2
  <2>3. (~full => \A id \in Ids : meta[id].status = "stopped" =>
           /\ log[id] = meta[id].rows
           /\ \E i \in Indexed(id) : index[i].rows = meta[id].rows)'
    BY <1>2, <1>3, <1>6 DEF IInv, Books, world
  <2>4. QED
    BY <2>1, <2>2, <2>3 DEF Books
<1>9. Buffers'
  <2> SUFFICES ASSUME ~full, NEW d \in Cells, heap'[d] # Free, heap'[d].status = "active"
               PROVE  /\ ~heap'[d].bad
                      /\ log'[heap'[d].id] + heap'[d].buffered = heap'[d].rows
                      /\ heap'[d].buffered <= heap'[d].rows % FlushEvery
    BY DEF Buffers, Live, world
  <2>1. CASE d = c
    BY <2>1, <1>2
  <2>2. CASE d # c
    BY <2>2, <1>2, <1>7 DEF IInv, Buffers, Live
  <2>3. QED
    BY <2>1, <2>2
<1>10. QED
  BY <1>2, <1>5, <1>8, <1>9

\* StopLocked: the last rows reach the log, and meta and index say how many.
LEMMA StopStep ==
  ASSUME IInv, NEW c \in Cells, c \in Listed, Live(c), heap[c].status = "active",
         NEW s \in Session, s.id = heap[c].id,
         ~full => ~s.bad /\ log[s.id] + s.buffered = s.rows,
         StopLocked(c, s), UNCHANGED <<store, http, world, taken>>
  PROVE  /\ \E t \in Session : heap' = [heap EXCEPT ![c] = t]
         /\ heap' \in [Cells -> Session \cup {Free}] /\ log' \in [Ids -> Nat]
         /\ meta' \in [Ids -> Metas] /\ index' \in Seq(Lines)
         /\ Owned' /\ Identified' /\ Books' /\ Buffers'
<1> DEFINE e == [s EXCEPT !.status = "stopped", !.open = FALSE]
<1>1. /\ e \in Session /\ e.id = s.id /\ e.rows = s.rows /\ e.buffered = s.buffered /\ e.bad = s.bad
      /\ e.status = "stopped" /\ ~e.open
  BY DEF Session
<1>2. PICK f \in Flushed(e) : \E m \in MetaWritten(f.sess), ix \in IndexWritten(f.sess) :
        /\ heap' = [heap EXCEPT ![c] = f.sess]
        /\ log'  = [log EXCEPT ![s.id] = @ + f.out]
        /\ meta' = [meta EXCEPT ![s.id] = m]
        /\ index' = ix
  BY DEF StopLocked
<1> DEFINE t == f.sess
<1>3. /\ t \in Session /\ f.out \in Nat /\ t.id = s.id /\ t.status = "stopped" /\ ~t.open /\ t.rows = s.rows
      /\ ~full => f.out = s.buffered
      /\ t.id \in Ids /\ t.rows \in Nat
  <2>1. /\ t \in Session /\ f.out \in Nat /\ Same(e, t) /\ t.status = e.status /\ t.open = e.open
        /\ t.rows = e.rows /\ (~full => f.out = e.buffered)
    BY <1>1, FlushedFacts
  <2>2. QED
    BY <2>1, <1>1 DEF Same, Session
<1>4. PICK m \in MetaWritten(t), ix \in IndexWritten(t) :
        /\ heap' = [heap EXCEPT ![c] = t]
        /\ log'  = [log EXCEPT ![t.id] = @ + f.out]
        /\ meta' = [meta EXCEPT ![t.id] = m]
        /\ index' = ix
  BY <1>2, <1>3
<1>5. /\ heap \in [Cells -> Session \cup {Free}] /\ log \in [Ids -> Nat] /\ meta \in [Ids -> Metas]
      /\ index \in Seq(Lines)
  BY DEF IInv, TypeOK, Metas, Lines
<1>6. m \in Metas /\ m.status \in {"stopped", "torn"} /\ m.rows \in Nat /\ (~full => m.rows = s.rows)
  BY <1>3 DEF MetaWritten, MetaOf, Metas
<1>7. /\ heap' \in [Cells -> Session \cup {Free}] /\ log' \in [Ids -> Nat] /\ meta' \in [Ids -> Metas]
      /\ heap'[c] = t /\ \A d \in Cells \ {c} : heap'[d] = heap[d]
      /\ log'[t.id] = log[t.id] + f.out /\ meta'[t.id] = m
      /\ \A id \in Ids : id # t.id => log'[id] = log[id] /\ meta'[id] = meta[id]
  BY <1>3, <1>4, <1>5, <1>6
<1>8. (index' = index /\ full) \/ index' = Append(index, [id |-> t.id, rows |-> t.rows])
  BY <1>4 DEF IndexWritten
<1>9. /\ index' \in Seq(Lines)
      /\ \A i \in 1 .. Len(index) : index'[i] = index[i]
      /\ \A id \in Ids \ {t.id} : Indexed(id)' = Indexed(id)
      /\ Indexed(t.id) = {}
      /\ \A i, j \in Indexed(t.id)' : i = j
      /\ ~full => \E i \in Indexed(t.id)' : index'[i].rows = s.rows
  <2>1. Indexed(t.id) = {}
    BY <1>3 DEF IInv, Books
  <2>2. CASE index' = index /\ full
    <3>1. \A id \in Ids : Indexed(id)' = Indexed(id)
      BY <2>2 DEF Indexed
    <3>2. QED
      BY <2>1, <2>2, <3>1, <1>3, <1>5
  <2>3. CASE index' = Append(index, [id |-> t.id, rows |-> t.rows])
    <3>1. /\ index' \in Seq(Lines)
          /\ \A i \in 1 .. Len(index) : index'[i] = index[i]
          /\ \A id \in Ids \ {t.id} : Indexed(id)' = Indexed(id)
          /\ Indexed(t.id)' = Indexed(t.id) \cup {Len(index) + 1}
          /\ index'[Len(index) + 1].rows = t.rows
      BY <1>3, <1>5, <2>3, LineAdded
    <3>2. QED
      BY <2>1, <3>1, <1>3
  <2>4. QED
    BY <1>8, <2>2, <2>3
<1>10. Owned' /\ Identified'
  <2>1. \A id \in Ids : id # t.id => /\ meta'[id] = meta[id] /\ log'[id] = log[id]
                                     /\ Indexed(id)' = Indexed(id)
    BY <1>7, <1>9
  <2>2. meta'[t.id].status # "none"
    BY <1>6, <1>7
  <2>3. QED
    BY <1>3, <1>4, <2>1, <2>2, ObjectFrame
<1>11. \A d \in Cells \ {c} : Live(d) => heap[d].id \in Ids /\ heap[d].id # t.id
  BY <1>3, <1>5 DEF IInv, Identified, Session, Live
<1>12. Books'
  <2>1. (\A id \in Ids : \A i, j \in Indexed(id) : i = j)'
    BY <1>9 DEF IInv, Books
  <2>2. (\A d \in Cells : Live(d) /\ heap[d].status = "active" =>
           Indexed(heap[d].id) = {} /\ meta[heap[d].id].status # "stopped")'
    <3> SUFFICES ASSUME NEW d \in Cells, NEW id, heap'[d] # Free, heap'[d].status = "active",
                        id = heap'[d].id
                 PROVE  Indexed(id)' = {} /\ meta'[id].status # "stopped"
      BY DEF Live, Indexed
    <3>1. d # c
      BY <1>3, <1>7
    <3>2. heap'[d] = heap[d] /\ heap[d].id = id /\ id \in Ids \ {t.id}
      BY <3>1, <1>7, <1>11 DEF Live
    <3>3. Indexed(id) = {} /\ meta[id].status # "stopped"
      BY <3>2 DEF IInv, Books, Live
    <3>4. QED
      BY <3>2, <3>3, <1>7, <1>9
  <2>3. (~full => \A id \in Ids : meta[id].status = "stopped" =>
           /\ log[id] = meta[id].rows
           /\ \E i \in Indexed(id) : index[i].rows = meta[id].rows)'
    <3> SUFFICES ASSUME ~full, NEW id \in Ids, meta'[id].status = "stopped"
                 PROVE  /\ log'[id] = meta'[id].rows
                        /\ \E i \in Indexed(id)' : index'[i].rows = meta'[id].rows
      BY DEF world
    <3>1. CASE id = t.id
      BY <3>1, <1>3, <1>6, <1>7, <1>9
    <3>2. CASE id # t.id
      <4>1. log[id] = meta[id].rows /\ \E i \in Indexed(id) : index[i].rows = meta[id].rows
        BY <3>2, <1>7 DEF IInv, Books
      <4>2. \A i \in Indexed(id) : i \in 1 .. Len(index)
        BY DEF Indexed
      <4>3. QED
        BY <3>2, <4>1, <4>2, <1>7, <1>9
    <3>3. QED
      BY <3>1, <3>2
  <2>4. QED
    BY <2>1, <2>2, <2>3 DEF Books
<1>13. Buffers'
  <2> SUFFICES ASSUME ~full, NEW d \in Cells, heap'[d] # Free, heap'[d].status = "active"
               PROVE  /\ ~heap'[d].bad
                      /\ log'[heap'[d].id] + heap'[d].buffered = heap'[d].rows
                      /\ heap'[d].buffered <= heap'[d].rows % FlushEvery
    BY DEF Buffers, Live, world
  <2>1. d # c
    BY <1>3, <1>7
  <2>2. QED
    BY <2>1, <1>7, <1>11 DEF IInv, Buffers, Live
<1>14. QED
  BY <1>3, <1>4, <1>7, <1>9, <1>10, <1>12, <1>13

-----------------------------------------------------------------------------
\* A new object has an id of its own and no files but its log.
LEMMA OpenLogKeeps ==
  ASSUME IInv, NEW h \in Https, NEW c \in Cells, NEW id \in Ids, NEW r \in Requests,
         OpenLog(h, c, id, r[1], r[2])
  PROVE  IInv'
<1> DEFINE t == [id |-> id, status |-> "active", open |-> TRUE, bad |-> FALSE,
                 limit |-> Limit(r[1]), stop_when_watch_empty |-> r[2], watch_seen |-> FALSE,
                 started |-> clock, rows |-> 0, buffered |-> 0]
<1>1. /\ heap \in [Cells -> Session \cup {Free}] /\ store \in Seq(Cells) /\ active \in Seq(Cells)
      /\ http \in [Https -> Cells \cup {None}] /\ clock \in Nat /\ r[1] \in Int /\ r[2] \in BOOLEAN
      /\ taken \in SUBSET Ids
  BY SessionsAssumption DEF IInv, TypeOK
<1>2. /\ http[h] = None /\ heap[c] = Free /\ id \notin taken
      /\ heap' = [heap EXCEPT ![c] = t] /\ http' = [http EXCEPT ![h] = c]
      /\ taken' = taken \cup {id}
      /\ UNCHANGED <<store, ppc, active, world, files>>
  BY DEF OpenLog
<1>3. Limit(r[1]) \in Nat
  BY <1>1 DEF Limit
<1>4. t \in Session
  BY <1>1, <1>3 DEF Session
<1>5. /\ heap'[c] = t /\ \A d \in Cells \ {c} : heap'[d] = heap[d]
      /\ http'[h] = c /\ \A g \in Https \ {h} : http'[g] = http[g]
      /\ t # Free /\ c # None
      /\ t.id = id /\ t.status = "active" /\ t.open /\ ~t.bad /\ ~t.watch_seen
      /\ t.started = clock /\ t.rows = 0 /\ t.buffered = 0
  BY <1>1, <1>2, <1>4, SessionsAssumption
<1>6. TypeOK'
  BY <1>1, <1>2, <1>4 DEF IInv, TypeOK, world, files
<1>7. c \notin Listed /\ \A g \in Https : http[g] # c
  BY <1>1, <1>2, <1>5 DEF IInv, Owned, Live, Listed, Range
<1>8. Owned'
  <2>1. /\ Listed' = Listed /\ UNCHANGED <<store, meta>>
        /\ \A i \in DOMAIN store : store[i] \in Cells \ {c}
    BY <1>1, <1>2, <1>7 DEF Listed, files, Range
  <2>2. meta[id] = NoMeta
    BY <1>2 DEF IInv, Identified
  <2>3. \A i \in DOMAIN store : heap'[store[i]] # Free /\ meta[heap'[store[i]].id].status # "none"
    BY <1>5, <2>1 DEF IInv, Owned, Live
  <2>4. \A g \in Https : http'[g] # None =>
          /\ heap'[http'[g]] # Free /\ http'[g] \notin Listed
          /\ heap'[http'[g]].status \in {"active", "failed"}
          /\ meta[heap'[http'[g]].id] = NoMeta
    <3> SUFFICES ASSUME NEW g \in Https, http'[g] # None
                 PROVE  /\ heap'[http'[g]] # Free /\ http'[g] \notin Listed
                        /\ heap'[http'[g]].status \in {"active", "failed"}
                        /\ meta[heap'[http'[g]].id] = NoMeta
      OBVIOUS
    <3>1. CASE g = h
      BY <3>1, <1>5, <1>7, <2>2
    <3>2. CASE g # h
      <4>1. http'[g] = http[g] /\ http[g] \in Cells \ {c}
        BY <3>2, <1>1, <1>5, <1>7
      <4>2. heap'[http'[g]] = heap[http[g]]
        BY <4>1, <1>5
      <4>3. QED
        BY <4>1, <4>2 DEF IInv, Owned, Live
    <3>3. QED
      BY <3>1, <3>2
  <2>5. \A f, g \in Https : http'[g] # None /\ http'[g] = http'[f] => g = f
    BY <1>5, <1>7 DEF IInv, Owned
  <2>6. \A d \in Cells : heap'[d] # Free => d \in Listed \/ \E g \in Https : http'[g] = d
    <3> SUFFICES ASSUME NEW d \in Cells, heap'[d] # Free, d \notin Listed
                 PROVE  \E g \in Https : http'[g] = d
      OBVIOUS
    <3>1. CASE d = c
      BY <3>1, <1>5
    <3>2. CASE d # c
      <4>1. PICK g \in Https : http[g] = d
        BY <3>2, <1>5 DEF IInv, Owned, Live
      <4>2. g # h
        BY <4>1, <1>2, SessionsAssumption
      <4>3. QED
        BY <4>1, <4>2, <1>5
    <3>3. QED
      BY <3>1, <3>2
  <2>7. QED
    BY <2>1, <2>3, <2>4, <2>5, <2>6 DEF IInv, Owned, Live
<1>9. \A d \in Cells \ {c} : Live(d) => heap[d].id \in taken /\ heap[d].id # id
  BY <1>2 DEF IInv, Identified
<1>10. \A j \in Ids : Indexed(j)' = Indexed(j)
  BY <1>2 DEF Indexed, files
<1>11. Identified'
  <2>1. \A d \in Cells : heap'[d] # Free => heap'[d].id \in taken' /\ (heap'[d].open <=> heap'[d].status = "active")
    BY <1>2, <1>5, <1>9 DEF IInv, Identified, Live
  <2>2. \A d, e \in Cells : heap'[d] # Free /\ heap'[e] # Free /\ heap'[d].id = heap'[e].id => d = e
    BY <1>5, <1>9 DEF IInv, Identified, Live
  <2>3. \A j \in Ids \ taken' : meta'[j] = NoMeta /\ log'[j] = 0 /\ Indexed(j)' = {}
    BY <1>2, <1>10 DEF IInv, Identified, files
  <2>4. QED
    BY <2>1, <2>2, <2>3 DEF Identified, Live
<1>12. Pointers'
  <2>1. \A i \in DOMAIN active : active[i] \in Cells
    BY <1>1
  <2>2. \A i \in DOMAIN active, g \in Https : http'[g] = active[i] =>
          heap'[active[i]].started = clock /\ ~heap'[active[i]].watch_seen
    <3> SUFFICES ASSUME NEW i \in DOMAIN active, NEW g \in Https, http'[g] = active[i]
                 PROVE  heap'[active[i]].started = clock /\ ~heap'[active[i]].watch_seen
      OBVIOUS
    <3>1. CASE active[i] = c
      BY <3>1, <1>5
    <3>2. CASE active[i] # c
      BY <3>2, <1>5, <2>1 DEF IInv, Pointers
    <3>3. QED
      BY <3>1, <3>2
  <2>3. QED
    BY <1>2, <2>2 DEF IInv, Pointers, world
<1>13. Books' /\ Buffers'
  <2>1. meta[id] = NoMeta /\ log[id] = 0 /\ Indexed(id) = {}
    BY <1>2 DEF IInv, Identified
  <2>2. \A d \in Cells \ {c} : Live(d) => heap[d].id \in Ids
    BY <1>1 DEF Session, Live
  <2>3. \A d \in Cells : heap'[d] # Free /\ heap'[d].status = "active" =>
          heap'[d].id \in Ids /\ Indexed(heap'[d].id) = {} /\ meta[heap'[d].id].status # "stopped"
    <3> SUFFICES ASSUME NEW d \in Cells, heap'[d] # Free, heap'[d].status = "active"
                 PROVE  heap'[d].id \in Ids /\ Indexed(heap'[d].id) = {} /\ meta[heap'[d].id].status # "stopped"
      OBVIOUS
    <3>1. CASE d = c
      BY <3>1, <1>5, <2>1 DEF NoMeta
    <3>2. CASE d # c
      BY <3>2, <1>5, <2>2 DEF IInv, Books, Live
    <3>3. QED
      BY <3>1, <3>2
  <2>4. Books'
    <3>1. UNCHANGED <<meta, log, index, full>> /\ \A k \in Ids : Indexed(k)' = Indexed(k)
      BY <1>2, <1>10 DEF world, files
    <3>2. (\A k \in Ids : \A i, j \in Indexed(k) : i = j)'
      BY <3>1 DEF IInv, Books
    <3>3. (\A d \in Cells : Live(d) /\ heap[d].status = "active" =>
             Indexed(heap[d].id) = {} /\ meta[heap[d].id].status # "stopped")'
      BY <2>3, <3>1 DEF Live
    <3>4. (~full => \A k \in Ids : meta[k].status = "stopped" =>
             /\ log[k] = meta[k].rows
             /\ \E i \in Indexed(k) : index[i].rows = meta[k].rows)'
      BY <3>1 DEF IInv, Books
    <3>5. QED
      BY <3>2, <3>3, <3>4 DEF Books
  <2>5. ~full => \A d \in Cells : heap'[d] # Free /\ heap'[d].status = "active" =>
          /\ ~heap'[d].bad /\ log[heap'[d].id] + heap'[d].buffered = heap'[d].rows
          /\ heap'[d].buffered <= heap'[d].rows % FlushEvery
    <3> SUFFICES ASSUME ~full, NEW d \in Cells, heap'[d] # Free, heap'[d].status = "active"
                 PROVE  /\ ~heap'[d].bad /\ log[heap'[d].id] + heap'[d].buffered = heap'[d].rows
                        /\ heap'[d].buffered <= heap'[d].rows % FlushEvery
      OBVIOUS
    <3>1. CASE d = c
      <4>1. 0 % FlushEvery >= 0
        BY RemainderStep, SessionsAssumption
      <4>2. QED
        BY <3>1, <4>1, <1>5, <2>1
    <3>2. CASE d # c
      BY <3>2, <1>5 DEF IInv, Buffers, Live
    <3>3. QED
      BY <3>1, <3>2
  <2>6. QED
    BY <1>2, <2>4, <2>5 DEF Buffers, Live, world, files
<1>14. QED
  BY <1>6, <1>8, <1>11, <1>12, <1>13 DEF IInv

\* The object becomes the store's, and its meta file exists.
LEMMA StartKeeps ==
  ASSUME IInv, NEW h \in Https, Start(h)
  PROVE  IInv'
<1> DEFINE c == http[h]
<1>1. /\ heap \in [Cells -> Session \cup {Free}] /\ store \in Seq(Cells) /\ active \in Seq(Cells)
      /\ http \in [Https -> Cells \cup {None}] /\ meta \in [Ids -> Metas]
  BY DEF IInv, TypeOK, Metas
<1>2. /\ http[h] # None /\ http' = [http EXCEPT ![h] = None]
      /\ store' = Append(store, c)
      /\ UNCHANGED <<heap, ppc, active, world, taken, log, index>>
  BY DEF Start
<1>3. /\ c \in Cells /\ Live(c) /\ c \notin Listed /\ heap[c] \in Session
      /\ heap[c].status \in {"active", "failed"} /\ heap[c].id \in Ids /\ heap[c].rows \in Nat
  BY <1>1, <1>2 DEF IInv, Owned, Live, Session
<1>4. PICK m \in MetaWritten(heap[c]) : meta' = [meta EXCEPT ![heap[c].id] = m]
  BY DEF Start
<1>5. m \in Metas /\ m.status \in {"active", "failed", "torn"}
  BY <1>3, <1>4 DEF MetaWritten, MetaOf, Metas
<1>6. /\ meta' \in [Ids -> Metas] /\ meta'[heap[c].id] = m
      /\ \A id \in Ids : id # heap[c].id => meta'[id] = meta[id]
  BY <1>1, <1>3, <1>4, <1>5
<1>7. /\ store' \in Seq(Cells) /\ Len(store') = Len(store) + 1 /\ Len(store) \in Nat
      /\ \A i \in 1 .. Len(store) : store'[i] = store[i] /\ store[i] \in Cells \ {c}
      /\ store'[Len(store) + 1] = c
  BY <1>1, <1>2, <1>3 DEF Listed, Range
<1>8. Listed' = Listed \cup {c}
  <2>1. Listed = {store[i] : i \in 1 .. Len(store)} /\ Listed' = {store'[i] : i \in 1 .. Len(store')}
    <3>1. store \in Seq(Cells) /\ store' \in Seq(Cells)
      BY <1>1, <1>7
    <3>2. QED
      BY <3>1, RangeEquality DEF Listed
  <2>2. 1 .. Len(store') = (1 .. Len(store)) \cup {Len(store) + 1}
    BY <1>7
  <2>3. QED
    BY <2>1, <2>2, <1>7
<1>9. /\ http' \in [Https -> Cells \cup {None}] /\ http'[h] = None
      /\ \A g \in Https \ {h} : http'[g] = http[g] /\ http[g] # c
  BY <1>1, <1>2 DEF IInv, Owned
<1>10. TypeOK'
  BY <1>2, <1>6, <1>7, <1>9 DEF IInv, TypeOK, world, Metas
<1>11. \A d \in Cells \ {c} : Live(d) => heap[d].id \in Ids /\ heap[d].id # heap[c].id
  BY <1>1, <1>3 DEF IInv, Identified, Session, Live
<1>12. Owned'
  <2>1. \A i, j \in DOMAIN store' : store'[i] = store'[j] => i = j
    BY <1>7 DEF IInv, Owned
  <2>2. \A i \in DOMAIN store' : heap[store'[i]] # Free /\ meta'[heap[store'[i]].id].status # "none"
    <3> SUFFICES ASSUME NEW i \in 1 .. Len(store) + 1
                 PROVE  heap[store'[i]] # Free /\ meta'[heap[store'[i]].id].status # "none"
      BY <1>7
    <3>1. CASE i = Len(store) + 1
      BY <3>1, <1>3, <1>5, <1>6, <1>7 DEF Live
    <3>2. CASE i # Len(store) + 1
      <4>1. /\ i \in 1 .. Len(store) /\ i \in DOMAIN store /\ store'[i] = store[i]
            /\ store[i] \in Cells \ {c}
        BY <3>2, <1>7
      <4>2. Live(store[i]) /\ meta[heap[store[i]].id].status # "none"
        BY <4>1 DEF IInv, Owned
      <4>3. QED
        BY <4>1, <4>2, <1>6, <1>11 DEF Live
    <3>3. QED
      BY <3>1, <3>2
  <2>3. \A g \in Https : http'[g] # None =>
          /\ heap[http'[g]] # Free /\ http'[g] \notin Listed'
          /\ heap[http'[g]].status \in {"active", "failed"}
          /\ meta'[heap[http'[g]].id] = NoMeta
    <3> SUFFICES ASSUME NEW g \in Https, http'[g] # None
                 PROVE  /\ heap[http'[g]] # Free /\ http'[g] \notin Listed'
                        /\ heap[http'[g]].status \in {"active", "failed"}
                        /\ meta'[heap[http'[g]].id] = NoMeta
      OBVIOUS
    <3>1. g # h /\ http'[g] = http[g] /\ http[g] \in Cells \ {c}
      BY <1>1, <1>9
    <3>2. /\ Live(http[g]) /\ http[g] \notin Listed
          /\ heap[http[g]].status \in {"active", "failed"} /\ meta[heap[http[g]].id] = NoMeta
      BY <3>1 DEF IInv, Owned
    <3>3. QED
      BY <3>1, <3>2, <1>6, <1>8, <1>11 DEF Live
  <2>4. \A f, g \in Https : http'[g] # None /\ http'[g] = http'[f] => g = f
    BY <1>9 DEF IInv, Owned
  <2>5. \A d \in Cells : heap[d] # Free => d \in Listed' \/ \E g \in Https : http'[g] = d
    <3> SUFFICES ASSUME NEW d \in Cells, heap[d] # Free, d \notin Listed'
                 PROVE  \E g \in Https : http'[g] = d
      OBVIOUS
    <3>1. PICK g \in Https : http[g] = d
      BY <1>8 DEF IInv, Owned, Live
    <3>2. g # h
      BY <3>1, <1>8
    <3>3. QED
      BY <3>1, <3>2, <1>9
  <2>6. QED
    BY <2>1, <2>2, <2>3, <2>4, <2>5, <1>2 DEF Owned, Live
<1>13. \A id \in Ids : Indexed(id)' = Indexed(id)
  BY <1>2 DEF Indexed
<1>14. Identified'
  <2>1. heap[c].id \in taken
    BY <1>3 DEF IInv, Identified
  <2>2. QED
    BY <2>1, <1>2, <1>6, <1>13 DEF IInv, Identified, Live
<1>15. Pointers'
  <2>1. \A g \in Https : http'[g] = http[g] \/ http'[g] = None
    BY <1>9
  <2>2. \A i \in DOMAIN active : active[i] \in Cells /\ active[i] # None
    BY <1>1, SessionsAssumption
  <2>3. \A i \in DOMAIN active, g \in Https : http'[g] = active[i] => http[g] = active[i]
    BY <2>1, <2>2
  <2>4. QED
    BY <2>3, <1>2 DEF IInv, Pointers, world
<1>16. Books'
  <2>1. \A d \in Cells : Live(d) /\ heap[d].status = "active" =>
          Indexed(heap[d].id) = {} /\ meta'[heap[d].id].status # "stopped"
    <3> SUFFICES ASSUME NEW d \in Cells, Live(d), heap[d].status = "active"
                 PROVE  Indexed(heap[d].id) = {} /\ meta'[heap[d].id].status # "stopped"
      OBVIOUS
    <3>1. Indexed(heap[d].id) = {} /\ meta[heap[d].id].status # "stopped"
      BY DEF IInv, Books
    <3>2. CASE d = c
      BY <3>1, <3>2, <1>5, <1>6
    <3>3. CASE d # c
      BY <3>1, <3>3, <1>6, <1>11
    <3>4. QED
      BY <3>2, <3>3
  <2>2. \A d \in Cells : Live(d) => heap[d].id \in Ids
    BY <1>1 DEF Live, Session
  <2>3. \A id \in Ids : meta'[id].status = "stopped" => meta'[id] = meta[id]
    BY <1>5, <1>6
  <2>4. (\A d \in Cells : Live(d) /\ heap[d].status = "active" =>
           Indexed(heap[d].id) = {} /\ meta[heap[d].id].status # "stopped")'
    BY <2>1, <2>2, <1>2, <1>13 DEF Live
  <2>5. (~full => \A id \in Ids : meta[id].status = "stopped" =>
           /\ log[id] = meta[id].rows
           /\ \E i \in Indexed(id) : index[i].rows = meta[id].rows)'
    BY <2>3, <1>2, <1>13 DEF IInv, Books, world
  <2>6. (\A id \in Ids : \A i, j \in Indexed(id) : i = j)'
    BY <1>13 DEF IInv, Books
  <2>7. QED
    BY <2>4, <2>5, <2>6 DEF Books
<1>17. Buffers'
  BY <1>2 DEF IInv, Buffers, Live, world
<1>18. QED
  BY <1>10, <1>12, <1>14, <1>15, <1>16, <1>17 DEF IInv

\* Delete: nobody else has the object, and its files say that it is gone.
LEMMA DeleteKeeps ==
  ASSUME IInv, NEW c \in Cells, Delete(c)
  PROVE  IInv'
<1> DEFINE k == heap[c].id
           gone == [status |-> "deleted", rows |-> 0]
<1>1. /\ heap \in [Cells -> Session \cup {Free}] /\ store \in Seq(Cells) /\ active \in Seq(Cells)
      /\ http \in [Https -> Cells \cup {None}] /\ meta \in [Ids -> Metas] /\ log \in [Ids -> Nat]
  BY DEF IInv, TypeOK, Metas
<1>2. /\ c \in Listed /\ heap' = [heap EXCEPT ![c] = Free]
      /\ log' = [log EXCEPT ![k] = 0] /\ meta' = [meta EXCEPT ![k] = gone]
      /\ UNCHANGED <<http, ppc, active, world, taken, index>>
  BY DEF Delete
<1>3. PICK n \in DOMAIN store : store[n] = c /\ store' = RemoveAt(store, n)
  BY DEF Delete
<1>4. Live(c) /\ heap[c] \in Session /\ k \in Ids
  BY <1>1, <1>2 DEF IInv, Owned, Live, Listed, Range, Session
<1>5. /\ store' \in Seq(Cells) /\ Len(store') = Len(store) - 1 /\ Len(store) \in Nat
      /\ \A i \in 1 .. Len(store') : store'[i] = IF i < n THEN store[i] ELSE store[i + 1]
  <2>1. store \in Seq(Cells) /\ n \in 1 .. Len(store) /\ store' = RemoveAt(store, n)
    BY <1>1, <1>3
  <2>2. IsWithout(store', Cells, store, n)
    <3>1. PICK s, r : s = store /\ r = store'
      OBVIOUS
    <3>2. s \in Seq(Cells) /\ n \in 1 .. Len(s) /\ r = RemoveAt(s, n)
      BY <2>1, <3>1
    <3>3. IsWithout(r, Cells, s, n)
      BY <3>2, RemoveAtFacts
    <3>4. QED
      BY <3>1, <3>3
  <2>3. Len(store) \in Nat
    BY <2>1
  <2>4. QED
    BY <2>2, <2>3 DEF IsWithout
<1>6. /\ heap'[c] = Free /\ \A d \in Cells \ {c} : heap'[d] = heap[d]
      /\ heap' \in [Cells -> Session \cup {Free}]
  BY <1>1, <1>2
<1>7. /\ meta'[k] = gone /\ log'[k] = 0
      /\ \A id \in Ids : id # k => meta'[id] = meta[id] /\ log'[id] = log[id]
      /\ meta' \in [Ids -> Metas] /\ log' \in [Ids -> Nat]
  BY <1>1, <1>2, <1>4 DEF Metas
<1>8. TypeOK'
  BY <1>1, <1>2, <1>5, <1>6, <1>7 DEF IInv, TypeOK, world, Metas
<1>9. \A i, j \in 1 .. Len(store) : store[i] = store[j] => i = j
  BY <1>1 DEF IInv, Owned
<1>10. Listed' = Listed \ {c}
  <2>1. \A i, j \in DOMAIN store : store[i] = store[j] => i = j
    BY DEF IInv, Owned
  <2>2. QED
    BY <2>1, <1>1, <1>3, RemovedRange DEF Listed
<1>11. \A d \in Cells \ {c} : Live(d) => heap[d].id \in Ids /\ heap[d].id # k
  BY <1>1, <1>4 DEF IInv, Identified, Session, Live
<1>12. \A h \in Https : http[h] # c
  BY <1>2, SessionsAssumption DEF IInv, Owned
<1>13. Owned'
  <2>1. \A i, j \in DOMAIN store' : store'[i] = store'[j] => i = j
    <3> SUFFICES ASSUME NEW i \in 1 .. Len(store'), NEW j \in 1 .. Len(store'), store'[i] = store'[j]
                 PROVE  i = j
      BY <1>5
    <3>1. PICK a \in 1 .. Len(store) : a = (IF i < n THEN i ELSE i + 1) /\ store'[i] = store[a]
      BY <1>3, <1>5
    <3>2. PICK b \in 1 .. Len(store) : b = (IF j < n THEN j ELSE j + 1) /\ store'[j] = store[b]
      BY <1>3, <1>5
    <3>3. a = b
      BY <3>1, <3>2, <1>9
    <3>4. QED
      BY <3>1, <3>2, <3>3, <1>3
  <2>2. \A d \in Listed' : heap'[d] # Free /\ meta'[heap'[d].id].status # "none"
    <3> SUFFICES ASSUME NEW d \in Listed \ {c}
                 PROVE  heap'[d] # Free /\ meta'[heap'[d].id].status # "none"
      BY <1>10
    <3>1. d \in Cells \ {c} /\ Live(d) /\ meta[heap[d].id].status # "none"
      BY <1>1 DEF IInv, Owned, Listed, Range
    <3>2. QED
      BY <3>1, <1>6, <1>7, <1>11 DEF Live
  <2>3. \A g \in Https : http[g] # None =>
          /\ heap'[http[g]] # Free /\ http[g] \notin Listed'
          /\ heap'[http[g]].status \in {"active", "failed"}
          /\ meta'[heap'[http[g]].id] = NoMeta
    <3> SUFFICES ASSUME NEW g \in Https, http[g] # None
                 PROVE  /\ heap'[http[g]] # Free /\ http[g] \notin Listed'
                        /\ heap'[http[g]].status \in {"active", "failed"}
                        /\ meta'[heap'[http[g]].id] = NoMeta
      OBVIOUS
    <3>1. http[g] \in Cells \ {c}
      BY <1>1, <1>12
    <3>2. /\ Live(http[g]) /\ http[g] \notin Listed
          /\ heap[http[g]].status \in {"active", "failed"} /\ meta[heap[http[g]].id] = NoMeta
      BY <3>1 DEF IInv, Owned
    <3>3. QED
      BY <3>1, <3>2, <1>6, <1>7, <1>10, <1>11 DEF Live
  <2>4. \A d \in Cells : heap'[d] # Free => d \in Listed' \/ \E g \in Https : http[g] = d
    BY <1>6, <1>10 DEF IInv, Owned, Live
  <2>5. \A i \in DOMAIN store' : store'[i] \in Listed'
    BY <1>5 DEF Listed, Range
  <2>6. QED
    BY <2>1, <2>2, <2>3, <2>4, <2>5, <1>2 DEF IInv, Owned, Live
<1>14. \A id \in Ids : Indexed(id)' = Indexed(id)
  BY <1>2 DEF Indexed
<1>15. Identified'
  <2>1. k \in taken
    BY <1>4 DEF IInv, Identified
  <2>2. QED
    BY <2>1, <1>2, <1>6, <1>7, <1>14 DEF IInv, Identified, Live
<1>16. Pointers'
  <2>1. \A i \in DOMAIN active : active[i] \in Cells
    BY <1>1
  <2>2. QED
    BY <2>1, <1>2, <1>6, <1>12 DEF IInv, Pointers, world
<1>17. Books'
  <2>1. \A d \in Cells : heap'[d] # Free => d # c /\ heap'[d] = heap[d] /\ Live(d)
    BY <1>6 DEF Live
  <2>2. (\A d \in Cells : Live(d) /\ heap[d].status = "active" =>
           Indexed(heap[d].id) = {} /\ meta[heap[d].id].status # "stopped")'
    BY <2>1, <1>7, <1>11, <1>14 DEF IInv, Books, Live
  <2>3. \A id \in Ids : meta'[id].status = "stopped" => meta'[id] = meta[id] /\ log'[id] = log[id]
    BY <1>7
  <2>4. (~full => \A id \in Ids : meta[id].status = "stopped" =>
           /\ log[id] = meta[id].rows
           /\ \E i \in Indexed(id) : index[i].rows = meta[id].rows)'
    BY <2>3, <1>2, <1>14 DEF IInv, Books, world
  <2>5. (\A id \in Ids : \A i, j \in Indexed(id) : i = j)'
    BY <1>14 DEF IInv, Books
  <2>6. QED
    BY <2>2, <2>4, <2>5 DEF Books
<1>18. Buffers'
  <2>1. \A d \in Cells : heap'[d] # Free => d # c /\ heap'[d] = heap[d] /\ Live(d)
    BY <1>6 DEF Live
  <2>2. QED
    BY <2>1, <1>2, <1>7, <1>11 DEF IInv, Buffers, Live, world
<1>19. QED
  BY <1>8, <1>13, <1>15, <1>16, <1>17, <1>18 DEF IInv

\* Stop is StopLocked of a session of the store.
LEMMA StopKeeps ==
  ASSUME IInv, NEW c \in Cells, Stop(c)
  PROVE  IInv'
<1>1. /\ c \in Listed /\ heap[c].status = "active" /\ StopLocked(c, heap[c])
      /\ UNCHANGED <<store, http, ppc, active, world, taken>>
  BY DEF Stop
<1>2. heap \in [Cells -> Session \cup {Free}] /\ store \in Seq(Cells)
  BY DEF IInv, TypeOK
<1>3. Live(c) /\ heap[c] \in Session
  BY <1>1, <1>2 DEF IInv, Owned, Listed, Range, Live
<1>4. ~full => ~heap[c].bad /\ log[heap[c].id] + heap[c].buffered = heap[c].rows
  BY <1>1, <1>3 DEF IInv, Buffers
<1>5. /\ \E t \in Session : heap' = [heap EXCEPT ![c] = t]
      /\ heap' \in [Cells -> Session \cup {Free}] /\ log' \in [Ids -> Nat]
      /\ meta' \in [Ids -> Metas] /\ index' \in Seq(Lines)
      /\ Owned' /\ Identified' /\ Books' /\ Buffers'
  BY <1>1, <1>3, <1>4, StopStep
<1>6. PICK t \in Session : heap' = [heap EXCEPT ![c] = t]
  BY <1>5
<1>7. Pointers'
  BY <1>1, <1>3, <1>6, PointersFrame DEF world
<1>8. TypeOK'
  BY <1>1, <1>5 DEF IInv, TypeOK, world, Metas, Lines
<1>9. QED
  BY <1>5, <1>7, <1>8 DEF IInv

-----------------------------------------------------------------------------
\* Time passes only when the poll thread has no pointers.
LEMMA PollKeeps ==
  ASSUME IInv, NEW n \in 0 .. 1, Poll(n)
  PROVE  IInv'
<1>1. /\ ppc = "idle" /\ ppc' = "tick" /\ clock' \in Nat /\ watchCount' \in Nat
      /\ UNCHANGED <<heap, store, http, active, up, crashes, full, taken, files>>
  BY DEF Poll, IInv, TypeOK
<1>2. active = <<>> /\ DOMAIN active = {}
  BY <1>1 DEF IInv, Pointers
<1>3. TypeOK' /\ Pointers'
  BY <1>1, <1>2 DEF IInv, TypeOK, Pointers, files
<1>4. Owned' /\ Identified' /\ Books' /\ Buffers'
  BY <1>1 DEF IInv, Owned, Identified, Books, Buffers, Live, Listed, Indexed, files
<1>5. QED
  BY <1>3, <1>4 DEF IInv

\* The pointers collected are those of the store, each once.
LEMMA CollectKeeps ==
  ASSUME IInv, Collect
  PROVE  IInv'
<1>1. /\ active' \in Kept(store, {i \in DOMAIN store : Running(store[i])})
      /\ ppc' = IF active' = <<>> THEN "idle" ELSE "walk"
      /\ UNCHANGED <<heap, store, http, world, taken, files>>
  BY DEF Collect
<1>2. store \in Seq(Cells)
  BY DEF IInv, TypeOK
<1>3. {i \in DOMAIN store : Running(store[i])} \in SUBSET DOMAIN store
  OBVIOUS
<1>4. /\ active' \in Seq(Cells)
      /\ \A i \in DOMAIN active' : \E k \in DOMAIN store : active'[i] = store[k]
      /\ \A i, j \in DOMAIN active' : i # j =>
           \E k, l \in DOMAIN store : k # l /\ active'[i] = store[k] /\ active'[j] = store[l]
  BY <1>1, <1>2, <1>3, KeptFacts
<1>5. \A i, j \in DOMAIN active' : active'[i] = active'[j] => i = j
  BY <1>4 DEF IInv, Owned
<1>6. \A i \in DOMAIN active' : active'[i] \in Listed /\ active'[i] \in Cells
  BY <1>2, <1>4 DEF Listed, Range
<1>7. \A i \in DOMAIN active', h \in Https : http[h] # active'[i]
  BY <1>6, SessionsAssumption DEF IInv, Owned
<1>8. Pointers'
  BY <1>1, <1>5, <1>7 DEF Pointers
<1>9. TypeOK'
  BY <1>1, <1>4 DEF IInv, TypeOK, world, files
<1>10. Owned' /\ Identified' /\ Books' /\ Buffers'
  BY <1>1 DEF IInv, Owned, Identified, Books, Buffers, Live, Listed, Indexed, world, files
<1>11. QED
  BY <1>8, <1>9, <1>10 DEF IInv

\* A visited object that has not been stored yet is too young to be stopped.
LEMMA TickKeeps ==
  ASSUME IInv, NEW c \in Cells, ppc = "walk", c = Head(active), Live(c),
         Tick(c), NextPointer, UNCHANGED <<store, http, world, taken>>
  PROVE  IInv'
<1>1. /\ heap \in [Cells -> Session \cup {Free}] /\ store \in Seq(Cells) /\ active \in Seq(Cells)
      /\ heap[c] \in Session /\ heap[c].id \in Ids /\ heap[c].rows \in Nat /\ heap[c].buffered \in Nat
      /\ heap[c].limit \in Nat /\ clock \in Nat /\ watchCount \in Nat
      /\ log[heap[c].id] \in Nat
  BY DEF IInv, TypeOK, Live, Session
<1>2. active # <<>> /\ 1 \in DOMAIN active /\ active[1] = c
  BY <1>1 DEF IInv, Pointers
<1>3. \A h \in Https : http[h] = c => heap[c].started = clock /\ ~heap[c].watch_seen
  BY <1>2 DEF IInv, Pointers
<1>4. ASSUME NEW t \in Session, heap' = [heap EXCEPT ![c] = t],
             log' \in [Ids -> Nat], Owned' /\ Identified' /\ Books' /\ Buffers',
             meta' \in [Ids -> Metas], index' \in Seq(Lines)
      PROVE  IInv'
  <2>1. Pointers' /\ ppc' \in {"idle", "tick", "walk"} /\ active' \in Seq(Cells)
    BY <1>4, PointersFrame DEF world
  <2>2. heap' \in [Cells -> Session \cup {Free}]
    BY <1>1, <1>4
  <2>3. TypeOK'
    BY <1>4, <2>1, <2>2 DEF IInv, TypeOK, world, Metas, Lines
  <2>4. QED
    BY <1>4, <2>1, <2>3 DEF IInv
<1>5. meta \in [Ids -> Metas] /\ index \in Seq(Lines)
  BY DEF IInv, TypeOK, Metas, Lines
<1>6. CASE UNCHANGED <<heap, files>>
  <2>1. heap' = [heap EXCEPT ![c] = heap[c]]
    BY <1>1, <1>6
  <2>2. Owned' /\ Identified' /\ Books' /\ Buffers' /\ UNCHANGED <<log, meta, index>>
    BY <1>6 DEF IInv, Owned, Identified, Books, Buffers, Live, Listed, Indexed, world, files
  <2>3. log' \in [Ids -> Nat]
    BY <2>2 DEF IInv, TypeOK
  <2>4. QED
    BY <1>1, <1>4, <1>5, <2>1, <2>2, <2>3
<1>7. ASSUME Running(c), NEW r \in RowWritten(heap[c]), NEW s,
             s = [r.sess EXCEPT !.watch_seen = @ \/ watchCount > 0],
             IF DurationDone(s) \/ WatchedDone(s)
             THEN StopLocked(c, [s EXCEPT !.buffered = @ + r.out])
             ELSE /\ heap' = [heap EXCEPT ![c] = s]
                  /\ log' = [log EXCEPT ![s.id] = @ + r.out]
                  /\ UNCHANGED <<meta, index>>
      PROVE  IInv'
  <2>1. heap[c].status = "active" /\ heap[c].open
    BY <1>7 DEF Running
  <2>2. /\ r.sess \in Session /\ r.out \in Nat /\ Same(heap[c], r.sess)
        /\ r.sess.status = "active" /\ r.sess.open /\ r.sess.rows = heap[c].rows + 1
        /\ r.sess.watch_seen = heap[c].watch_seen
        /\ ~full /\ ~heap[c].bad /\ heap[c].buffered <= heap[c].rows % FlushEvery =>
             /\ ~r.sess.bad /\ r.out + r.sess.buffered = heap[c].buffered + 1
             /\ r.sess.buffered <= (heap[c].rows + 1) % FlushEvery
    BY <1>1, <1>7, <2>1, RowWrittenFacts
  <2>3. r.sess.buffered \in Nat /\ r.sess.buffered + r.out \in Nat
    BY <2>2 DEF Session
  <2>4. /\ s \in Session /\ s.status = "active" /\ s.open /\ s.rows = heap[c].rows + 1
        /\ s.bad = r.sess.bad /\ s.buffered = r.sess.buffered /\ Same(heap[c], s)
        /\ s.watch_seen <=> (heap[c].watch_seen \/ watchCount > 0)
    BY <1>7, <2>2 DEF Session, Same
  <2>5. ~full => /\ ~s.bad /\ r.out + s.buffered = heap[c].buffered + 1
                 /\ s.buffered <= s.rows % FlushEvery
                 /\ log[heap[c].id] + heap[c].buffered = heap[c].rows
    BY <2>1, <2>2, <2>4 DEF IInv, Buffers
  <2>9. ~full => /\ ~s.bad /\ log[heap[c].id] + (s.buffered + r.out) = s.rows
                 /\ log[heap[c].id] + r.out + s.buffered = s.rows
    <3> DEFINE l == log[heap[c].id]
               b == heap[c].buffered
               n == heap[c].rows
    <3>1. l \in Nat /\ b \in Nat /\ n \in Nat /\ r.out \in Nat /\ s.buffered \in Nat /\ s.rows = n + 1
      BY <1>1, <2>2, <2>3, <2>4
    <3>2. ~full => ~s.bad /\ r.out + s.buffered = b + 1 /\ l + b = n
      BY <2>5
    <3> HIDE DEF l, b, n
    <3>3. QED
      BY <3>1, <3>2 DEF l
  <2>6. CASE ~(DurationDone(s) \/ WatchedDone(s))
    <3>1. /\ heap' = [heap EXCEPT ![c] = s] /\ log' = [log EXCEPT ![s.id] = @ + r.out]
          /\ UNCHANGED <<meta, index>>
      BY <1>7, <2>6
    <3>2. s.id = heap[c].id
      BY <2>4 DEF Same
    <3>3. ~full => log[s.id] + r.out + s.buffered = s.rows
      BY <2>9, <3>2
    <3>4. /\ log' \in [Ids -> Nat]
          /\ Owned' /\ Identified' /\ Books' /\ Buffers'
      BY <2>1, <2>2, <2>4, <2>5, <3>1, <3>2, <3>3, LogStep
    <3>5. QED
      BY <1>4, <1>5, <2>4, <3>1, <3>4
  <2>7. CASE DurationDone(s) \/ WatchedDone(s)
    <3> DEFINE e == [s EXCEPT !.buffered = @ + r.out]
    <3>1. /\ e \in Session /\ e.id = heap[c].id /\ e.bad = s.bad /\ e.rows = s.rows
          /\ e.buffered = s.buffered + r.out
      BY <2>3, <2>4 DEF Session, Same
    <3>2. c \in Listed
      <4>1. SUFFICES ASSUME NEW h \in Https, http[h] = c
                     PROVE  FALSE
        BY DEF IInv, Owned
      <4>2. heap[c].started = clock /\ ~heap[c].watch_seen
        BY <1>3, <4>1
      <4>3. ~DurationDone(s)
        BY <1>1, <2>4, <4>2 DEF DurationDone, Same
      <4>4. ~WatchedDone(s)
        BY <1>1, <2>4, <4>2 DEF WatchedDone
      <4>5. QED
        BY <2>7, <4>3, <4>4
    <3>3. ~full => ~e.bad /\ log[e.id] + e.buffered = e.rows
      BY <2>9, <3>1
    <3>4. StopLocked(c, e)
      BY <1>7, <2>7
    <3> HIDE DEF e
    <3>5. /\ \E t \in Session : heap' = [heap EXCEPT ![c] = t]
          /\ log' \in [Ids -> Nat] /\ meta' \in [Ids -> Metas] /\ index' \in Seq(Lines)
          /\ Owned' /\ Identified' /\ Books' /\ Buffers'
      BY <2>1, <3>1, <3>2, <3>3, <3>4, StopStep
    <3>6. QED
      BY <1>4, <3>5
  <2>8. QED
    BY <2>6, <2>7
<1>8. ASSUME Running(c), NEW f \in Flushed([heap[c] EXCEPT !.status = "failed", !.open = FALSE]),
             heap' = [heap EXCEPT ![c] = f.sess],
             log' = [log EXCEPT ![f.sess.id] = @ + f.out],
             UNCHANGED <<meta, index>>
      PROVE  IInv'
  <2> DEFINE e == [heap[c] EXCEPT !.status = "failed", !.open = FALSE]
  <2>1. e \in Session /\ e.id = heap[c].id /\ e.status = "failed" /\ ~e.open
    BY <1>1 DEF Session
  <2>2. /\ f.sess \in Session /\ f.out \in Nat /\ Same(e, f.sess)
        /\ f.sess.status = e.status /\ f.sess.open = e.open
    BY <1>8, <2>1, FlushedFacts
  <2>3. f.sess.id = heap[c].id /\ f.sess.status = "failed" /\ ~f.sess.open /\ heap[c].status = "active"
    BY <1>8, <2>1, <2>2 DEF Same, Running
  <2>4. log' \in [Ids -> Nat] /\ Owned' /\ Identified' /\ Books' /\ Buffers'
    BY <1>8, <2>2, <2>3, LogStep
  <2>5. QED
    BY <1>4, <1>5, <1>8, <2>2, <2>4
<1>9. QED
  BY <1>6, <1>7, <1>8 DEF Tick

\* One round of the loop.
LEMMA VisitKeeps ==
  ASSUME IInv, Visit
  PROVE  IInv'
<1>1. Head(active) \in Cells
  BY DEF Visit, IInv, TypeOK, Pointers
<1>2. QED
  BY <1>1, TickKeeps DEF Visit, Live

\* A pointer to a freed object is dropped.
LEMMA VisitFreedKeeps ==
  ASSUME IInv, VisitFreed
  PROVE  IInv'
<1>1. /\ ppc = "walk" /\ active' = Tail(active) /\ ppc' = (IF active' = <<>> THEN "idle" ELSE "walk")
      /\ UNCHANGED <<heap, store, http, world, taken, files>>
  BY DEF VisitFreed, NextPointer
<1>2. active \in Seq(Cells) /\ active # <<>>
  BY <1>1 DEF IInv, TypeOK, Pointers
<1>3. /\ active' \in Seq(Cells)
      /\ \A i \in DOMAIN active' : i \in Nat /\ i + 1 \in DOMAIN active /\ active'[i] = active[i + 1]
  BY <1>1, <1>2
<1>4. TypeOK'
  BY <1>1, <1>3 DEF IInv, TypeOK, world, files
<1>5. Pointers'
  <2>1. \A i, j \in DOMAIN active' : active'[i] = active'[j] => i = j
    BY <1>3 DEF IInv, Pointers
  <2>2. \A i \in DOMAIN active', h \in Https : http[h] = active'[i] =>
          heap[active'[i]].started = clock /\ ~heap[active'[i]].watch_seen
    BY <1>3 DEF IInv, Pointers
  <2>3. QED
    BY <2>1, <2>2, <1>1 DEF Pointers, world
<1>6. Owned' /\ Identified' /\ Books' /\ Buffers'
  BY <1>1 DEF IInv, Owned, Identified, Books, Buffers, Live, Listed, Indexed, world, files
<1>7. QED
  BY <1>4, <1>5, <1>6 DEF IInv

-----------------------------------------------------------------------------
\* The files outlive the objects.
LEMMA CrashKeeps ==
  ASSUME IInv, Crash
  PROVE  IInv'
<1>1. /\ up' = FALSE /\ crashes' = crashes + 1
      /\ heap' = [c \in Cells |-> Free] /\ store' = <<>>
      /\ http' = [h \in Https |-> None]
      /\ ppc' = "idle" /\ active' = <<>>
      /\ UNCHANGED <<full, clock, watchCount, taken, files>>
  BY DEF Crash
<1>2. TypeOK'
  <2>1. up' \in BOOLEAN
    BY Zenon, <1>1
  <2>2. store' \in Seq(Cells) /\ active' \in Seq(Cells) /\ crashes' \in Nat
    BY <1>1 DEF IInv, TypeOK
  <2>3. heap' \in [Cells -> Session \cup {Free}] /\ http' \in [Https -> Cells \cup {None}]
    BY <1>1
  <2>4. QED
    BY <2>1, <2>2, <2>3, <1>1 DEF IInv, TypeOK, files
<1>3. (\A c \in Cells : ~Live(c))' /\ DOMAIN store' = {} /\ DOMAIN active' = {}
  BY <1>1 DEF Live
<1>4. Owned' /\ Pointers'
  BY <1>1, <1>3 DEF Owned, Pointers
<1>5. Identified' /\ Books' /\ Buffers'
  BY <1>1, <1>3 DEF IInv, Identified, Books, Buffers, Indexed, files
<1>6. QED
  BY <1>2, <1>4, <1>5 DEF IInv

\* The next process starts with an empty store.
LEMMA RestartKeeps ==
  ASSUME IInv, Restart
  PROVE  IInv'
<1>1. up' = TRUE /\ UNCHANGED <<memory, crashes, full, clock, watchCount, taken, files>>
  BY DEF Restart
<1>2. up' \in BOOLEAN
  BY Zenon, <1>1
<1>3. TypeOK'
  BY <1>1, <1>2 DEF IInv, TypeOK, memory, files
<1>4. Owned' /\ Identified' /\ Pointers' /\ Books' /\ Buffers'
  BY <1>1 DEF IInv, Owned, Identified, Pointers, Books, Buffers, Live, Listed, Indexed, memory, files
<1>5. QED
  BY <1>3, <1>4 DEF IInv

\* With a full disk less is promised.
LEMMA FillDiskKeeps ==
  ASSUME IInv, FillDisk
  PROVE  IInv'
<1>1. full' = TRUE /\ UNCHANGED <<memory, up, crashes, clock, watchCount, taken, files>>
  BY DEF FillDisk
<1>2. full' \in BOOLEAN
  BY Zenon, <1>1
<1>3. TypeOK'
  BY <1>1, <1>2 DEF IInv, TypeOK, memory, files
<1>4. Owned' /\ Identified' /\ Pointers' /\ Books' /\ Buffers'
  BY <1>1 DEF IInv, Owned, Identified, Pointers, Books, Buffers, Live, Listed, Indexed, memory, files
<1>5. QED
  BY <1>3, <1>4 DEF IInv

\* Every step keeps the invariant.
LEMMA NextKeeps == IInv /\ [Next]_vars => IInv'
<1> SUFFICES ASSUME IInv, [Next]_vars PROVE IInv'
  OBVIOUS
<1>1. CASE Request
  BY <1>1, OpenLogKeeps, StartKeeps DEF Request
<1>2. CASE \E c \in Cells : Stop(c) \/ Delete(c)
  BY <1>2, StopKeeps, DeleteKeeps
<1>3. CASE PollThread
  BY <1>3, PollKeeps, CollectKeeps, VisitKeeps, VisitFreedKeeps DEF PollThread
<1>4. CASE Crash \/ Restart \/ FillDisk
  BY <1>4, CrashKeeps, RestartKeeps, FillDiskKeeps
<1>5. CASE UNCHANGED vars
  <2>1. TypeOK'
    BY <1>5 DEF IInv, TypeOK, vars, memory, world, files
  <2>2. Owned' /\ Identified' /\ Pointers' /\ Books' /\ Buffers'
    BY <1>5 DEF IInv, Owned, Identified, Pointers, Books, Buffers, Live, Listed, Indexed,
                vars, memory, world, files
  <2>3. QED
    BY <2>1, <2>2 DEF IInv
<1>6. QED
  BY <1>1, <1>2, <1>3, <1>4, <1>5 DEF Next

\* IInv holds in every reachable state, for every value of the constants.
THEOREM Invariance == Spec => []IInv
<1>1. QED
  BY InitIInv, NextKeeps, PTL DEF Spec

-----------------------------------------------------------------------------
\* The index has at most one line for a session.
LEMMA OneLine ==
  ASSUME IInv, NEW id \in Ids
  PROVE  /\ Cardinality(Indexed(id)) = IF Indexed(id) = {} THEN 0 ELSE 1
         /\ \A i, j \in Indexed(id) : i = j
<1>1. \A i, j \in Indexed(id) : i = j
  BY DEF IInv, Books
<1>2. CASE Indexed(id) = {}
  BY <1>1, <1>2, FS_EmptySet
<1>3. CASE Indexed(id) # {}
  <2>1. PICK i : i \in Indexed(id)
    BY <1>3
  <2>2. Indexed(id) = {i}
    BY <1>1, <2>1
  <2>3. QED
    BY <1>1, <1>3, <2>2, FS_Singleton
<1>4. QED
  BY <1>2, <1>3

\* Whoever stops a session, its log, meta and one line of the index agree, as
\* long as the disk has room.
THEOREM StoppedSessionsAreComplete == Spec => []StoppedIsComplete
<1>1. IInv => StoppedIsComplete
  <2> SUFFICES ASSUME IInv, ~full, NEW id \in Ids, meta[id].status = "stopped"
               PROVE  /\ log[id] = meta[id].rows
                      /\ Cardinality(Indexed(id)) = 1
                      /\ \A i \in Indexed(id) : index[i].rows = meta[id].rows
    BY DEF StoppedIsComplete
  <2>1. log[id] = meta[id].rows /\ \E i \in Indexed(id) : index[i].rows = meta[id].rows
    BY DEF IInv, Books
  <2>2. QED
    BY <2>1, OneLine
<1>2. QED
  BY <1>1, Invariance, PTL

\* The store, its pointers and its files are well formed, and the index has no
\* session twice and none that still runs.
THEOREM SessionsAreSound == Spec => []SessionsInv
<1>1. IInv => SessionsInv
  <2> SUFFICES ASSUME IInv PROVE TypeOK /\ IndexedOnce
    BY DEF SessionsInv
  <2>1. \A id \in Ids : Cardinality(Indexed(id)) <= 1
    BY OneLine
  <2>2. ASSUME NEW c \in Listed, Running(c) PROVE Indexed(heap[c].id) = {}
    <3>1. c \in Cells /\ Live(c)
      BY DEF IInv, TypeOK, Owned, Listed, Range
    <3>2. QED
      BY <3>1, <2>2 DEF IInv, Books, Running
  <2>3. QED
    BY <2>1, <2>2 DEF IndexedOnce, IInv
<1>2. QED
  BY <1>1, Invariance, PTL

\* A crash costs an active session at most FlushEvery - 1 rows.
THEOREM FlushIsBounded == Spec => []FlushBound
<1>1. IInv => FlushBound
  <2> SUFFICES ASSUME IInv, ~full, NEW c \in Listed, Running(c)
               PROVE  heap[c].rows - log[heap[c].id] < FlushEvery
    BY DEF FlushBound
  <2>1. c \in Cells /\ Live(c) /\ heap[c] \in Session
    BY DEF IInv, TypeOK, Owned, Listed, Range, Live
  <2>2. heap[c].rows \in Nat /\ heap[c].buffered \in Nat /\ log[heap[c].id] \in Nat
    BY <2>1 DEF Session, IInv, TypeOK
  <2>3. /\ log[heap[c].id] + heap[c].buffered = heap[c].rows
        /\ heap[c].buffered <= heap[c].rows % FlushEvery
    BY <2>1 DEF IInv, Buffers, Running
  <2>4. heap[c].rows % FlushEvery \in 0 .. FlushEvery - 1
    BY <2>2, RemainderStep
  <2>5. QED
    BY <2>2, <2>3, <2>4, SessionsAssumption
<1>2. QED
  BY <1>1, Invariance, PTL

\* Only a tick counts a row.
LEMMA RowsAreTicks ==
  ASSUME IInv, [Next]_vars, NEW c \in Cells,
         heap[c] # Free, heap'[c] # Free, heap'[c].rows > heap[c].rows
  PROVE  ppc = "walk" /\ c = Head(active) /\ Tick(c) /\ Live(c)
<1>1. heap \in [Cells -> Session \cup {Free}] /\ heap[c].rows \in Nat
  BY DEF IInv, TypeOK, Session
<1>2. ASSUME heap'[c].rows = heap[c].rows PROVE FALSE
  BY <1>1, <1>2
<1>3. ASSUME NEW h \in Https, NEW d \in Cells, NEW id \in Ids, NEW r \in Requests,
             OpenLog(h, d, id, r[1], r[2])
      PROVE  FALSE
  BY <1>1, <1>2, <1>3 DEF OpenLog
<1>4. ASSUME NEW d \in Cells, NEW s \in Session, s.rows = heap[d].rows, StopLocked(d, s)
      PROVE  FALSE
  <2> DEFINE e == [s EXCEPT !.status = "stopped", !.open = FALSE]
  <2>1. e \in Session /\ e.rows = s.rows
    BY DEF Session
  <2>2. PICK f \in Flushed(e) : heap' = [heap EXCEPT ![d] = f.sess]
    BY <1>4 DEF StopLocked
  <2>3. f.sess.rows = heap[d].rows
    BY <1>4, <2>1, FlushedFacts
  <2>4. heap'[c].rows = heap[c].rows
    BY <1>1, <2>2, <2>3
  <2>5. QED
    BY <1>2, <2>4
<1>5. ASSUME NEW d \in Cells, Stop(d) PROVE FALSE
  <2>1. heap[d] \in Session
    BY <1>5, <1>1 DEF Stop, IInv, Owned, Live, Listed, Range
  <2>2. QED
    BY <1>4, <1>5, <2>1 DEF Stop
<1>6. ASSUME NEW d \in Cells, Delete(d) PROVE FALSE
  BY <1>1, <1>2, <1>6 DEF Delete
<1>7. ASSUME Visit PROVE ppc = "walk" /\ c = Head(active) /\ Tick(c) /\ Live(c)
  <2>1. Head(active) \in Cells /\ ppc = "walk" /\ Tick(Head(active)) /\ heap[Head(active)] # Free
    BY <1>7 DEF Visit, IInv, TypeOK, Pointers
  <2>2. \A d \in Cells \ {Head(active)} : heap'[d] = heap[d]
    BY <1>1, <2>1 DEF Tick, StopLocked
  <2>3. QED
    BY <1>2, <2>1, <2>2 DEF Live
<1>8. ASSUME UNCHANGED heap PROVE FALSE
  BY <1>2, <1>8
<1>9. CASE Request
  BY <1>3, <1>8, <1>9 DEF Request, Start
<1>10. CASE PollThread
  BY <1>7, <1>8, <1>10 DEF PollThread, Poll, Collect, VisitFreed
<1>11. CASE Crash \/ Restart \/ FillDisk \/ UNCHANGED vars
  BY <1>8, <1>11 DEF Crash, Restart, FillDisk, vars, memory
<1>12. QED
  BY <1>5, <1>6, <1>9, <1>10, <1>11 DEF Next

\* A row written to a session whose time is over is its last.
THEOREM OverdueSessionsStop == Spec => OverdueIsStopped
<1>1. ASSUME IInv, [Next]_vars, NEW c \in Cells,
             heap[c] # Free, heap'[c] # Free, heap'[c].rows > heap[c].rows,
             heap[c].limit > 0, clock >= heap[c].started + heap[c].limit
      PROVE  heap'[c].status # "active"
  <2>1. Tick(c) /\ heap[c] \in Session
    BY <1>1, RowsAreTicks DEF IInv, TypeOK
  <2>2. heap \in [Cells -> Session \cup {Free}] /\ heap[c].rows \in Nat
    BY <1>1, <2>1 DEF IInv, TypeOK, Session
  <2>3. CASE ~Running(c) /\ UNCHANGED <<heap, files>>
    BY <1>1, <2>2, <2>3
  <2>4. ASSUME NEW r \in RowWritten(heap[c]), NEW s,
               s = [r.sess EXCEPT !.watch_seen = @ \/ watchCount > 0],
               IF DurationDone(s) \/ WatchedDone(s)
               THEN StopLocked(c, [s EXCEPT !.buffered = @ + r.out])
               ELSE heap' = [heap EXCEPT ![c] = s]
        PROVE  heap'[c].status # "active"
    <3>1. r.sess \in Session /\ Same(heap[c], r.sess) /\ r.out \in Nat
      BY <2>1, RowWrittenFacts
    <3>8. s \in Session /\ Same(heap[c], s)
      BY <2>4, <3>1 DEF Session, Same
    <3>2. s \in Session /\ Same(heap[c], s) /\ s.buffered + r.out \in Nat
      BY <3>1, <3>8 DEF Session
    <3>3. DurationDone(s)
      BY <1>1, <3>2 DEF DurationDone, Same
    <3> DEFINE e == [[s EXCEPT !.buffered = @ + r.out] EXCEPT !.status = "stopped", !.open = FALSE]
    <3>4. e \in Session /\ e.status = "stopped"
      BY <3>2 DEF Session
    <3>5. PICK f \in Flushed(e) : heap' = [heap EXCEPT ![c] = f.sess]
      BY <2>4, <3>3 DEF StopLocked
    <3>6. f.sess.status = "stopped"
      BY <3>4, FlushedFacts
    <3>7. QED
      BY <2>2, <3>5, <3>6
  <2>5. ASSUME NEW f \in Flushed([heap[c] EXCEPT !.status = "failed", !.open = FALSE]),
               heap' = [heap EXCEPT ![c] = f.sess]
        PROVE  heap'[c].status # "active"
    <3> DEFINE e == [heap[c] EXCEPT !.status = "failed", !.open = FALSE]
    <3>1. e \in Session /\ e.status = "failed"
      BY <2>1 DEF Session
    <3>2. f.sess.status = "failed"
      BY <2>5, <3>1, FlushedFacts
    <3>3. QED
      BY <2>2, <2>5, <3>2
  <2>6. QED
    BY <2>1, <2>3, <2>4, <2>5 DEF Tick
<1>2. IInv /\ [Next]_vars =>
        [\A c \in Cells :
           /\ heap[c] # Free /\ heap'[c] # Free /\ heap'[c].rows > heap[c].rows
           /\ heap[c].limit > 0 /\ clock >= heap[c].started + heap[c].limit
           => heap'[c].status # "active"]_vars
  BY <1>1
<1>3. QED
  BY <1>2, Invariance, PTL DEF Spec, OverdueIsStopped

-----------------------------------------------------------------------------
(* The refinement.  In an IInv state the ids of the store are different, so *)
(* that Phase is the status of the one session of that id.                  *)

PhaseView ==
  \A id \in Ids :
    /\ \A c \in Listed : heap[c].id = id => Phase(id) = heap[c].status
    /\ (\A c \in Listed : heap[c].id # id) =>
         Phase(id) = IF meta[id] = NoMeta THEN "unborn" ELSE "gone"

\* The abstract phase in terms of the store and the meta file ...
LEMMA PhaseIs == IInv => PhaseView
<1> SUFFICES ASSUME IInv, NEW id \in Ids
             PROVE  /\ \A c \in Listed : heap[c].id = id => Phase(id) = heap[c].status
                    /\ (\A c \in Listed : heap[c].id # id) =>
                         Phase(id) = IF meta[id] = NoMeta THEN "unborn" ELSE "gone"
  BY DEF PhaseView
<1> DEFINE of == {c \in Listed : heap[c].id = id}
<1>1. ASSUME NEW c \in Listed, heap[c].id = id PROVE Phase(id) = heap[c].status
  <2>1. \A d \in Listed : d \in Cells /\ Live(d)
    BY DEF IInv, TypeOK, Owned, Listed, Range
  <2>2. of = {c}
    BY <1>1, <2>1 DEF IInv, Identified
  <2>3. (CHOOSE d \in of : TRUE) = c
    BY <2>2
  <2>4. QED
    BY <2>2, <2>3 DEF Phase
<1>2. ASSUME \A c \in Listed : heap[c].id # id
      PROVE  Phase(id) = IF meta[id] = NoMeta THEN "unborn" ELSE "gone"
  <2>1. of = {}
    BY <1>2
  <2>2. QED
    BY <2>1 DEF Phase
<1>3. QED
  BY <1>1, <1>2

\* ... also after a step.
LEMMA NextPhaseIs == IInv' => PhaseView'
BY PhaseIs, PTL

\* A step that leaves the store's ids and states alone is none of the ledger.
LEMMA LedgerStutters ==
  ASSUME IInv, IInv', Listed' = Listed, UNCHANGED <<index, full>>,
         \A d \in Listed : heap'[d].id = heap[d].id /\ heap'[d].status = heap[d].status,
         \A id \in Ids : meta'[id] = NoMeta <=> meta[id] = NoMeta
  PROVE  UNCHANGED Ledger!vars
<1>1. ASSUME NEW id \in Ids PROVE Phase(id)' = Phase(id)
  <2>1. CASE \E c \in Listed : heap[c].id = id
    BY <2>1, PhaseIs, NextPhaseIs DEF PhaseView
  <2>2. CASE \A c \in Listed : heap[c].id # id
    BY <2>2, PhaseIs, NextPhaseIs DEF PhaseView
  <2>3. QED
    BY <2>1, <2>2
<1>2. QED
  BY <1>1 DEF Ledger!vars

\* One session's phase changes.
LEMMA OnePhase ==
  ASSUME IInv, IInv', NEW c \in Cells, NEW k \in Ids,
         \A d \in Cells \ {c} : (d \in Listed' <=> d \in Listed) /\ (d \in Listed => heap'[d] = heap[d]),
         c \in Listed => heap[c].id = k, c \in Listed' => heap'[c].id = k,
         \A id \in Ids \ {k} : meta'[id] = meta[id]
  PROVE  [id \in Ids |-> Phase(id)]' = [[id \in Ids |-> Phase(id)] EXCEPT ![k] = Phase(k)']
<1>1. Listed \subseteq Cells /\ Listed' \subseteq Cells
  BY DEF IInv, TypeOK, Listed, Range
<1>2. ASSUME NEW id \in Ids \ {k} PROVE Phase(id)' = Phase(id)
  <2>1. CASE \E d \in Listed : heap[d].id = id
    <3>1. PICK d \in Listed : heap[d].id = id
      BY <2>1
    <3>2. d \in Listed' /\ heap'[d] = heap[d]
      BY <1>1, <3>1
    <3>3. Phase(id) = heap[d].status
      BY <3>1, PhaseIs DEF PhaseView
    <3>4. Phase(id)' = heap'[d].status
      BY <3>1, <3>2, NextPhaseIs DEF PhaseView
    <3>5. QED
      BY <3>2, <3>3, <3>4
  <2>2. CASE \A d \in Listed : heap[d].id # id
    <3>1. \A d \in Listed' : heap'[d].id # id
      BY <1>1, <2>2
    <3>2. Phase(id) = IF meta[id] = NoMeta THEN "unborn" ELSE "gone"
      BY <2>2, PhaseIs DEF PhaseView
    <3>3. Phase(id)' = IF meta'[id] = NoMeta THEN "unborn" ELSE "gone"
      BY <3>1, NextPhaseIs DEF PhaseView
    <3>4. QED
      BY <3>2, <3>3
  <2>3. QED
    BY <2>1, <2>2
<1>3. QED
  BY <1>2

\* What StopLocked does to the abstract state.
LEMMA StopEffect ==
  ASSUME IInv, NEW c \in Cells, Live(c), NEW s \in Session, s.id = heap[c].id, StopLocked(c, s)
  PROVE  /\ heap'[c].status = "stopped" /\ heap'[c].id = s.id
         /\ \A d \in Cells \ {c} : heap'[d] = heap[d]
         /\ \A id \in Ids \ {s.id} : meta'[id] = meta[id]
         /\ \/ index' = index /\ full
            \/ \E n \in Nat : index' = Append(index, [id |-> s.id, rows |-> n])
<1> DEFINE e == [s EXCEPT !.status = "stopped", !.open = FALSE]
<1>1. e \in Session /\ e.id = s.id /\ e.status = "stopped"
  BY DEF Session
<1>2. PICK f \in Flushed(e) : \E m \in MetaWritten(f.sess), ix \in IndexWritten(f.sess) :
        /\ heap' = [heap EXCEPT ![c] = f.sess]
        /\ meta' = [meta EXCEPT ![s.id] = m]
        /\ index' = ix
  BY DEF StopLocked
<1>3. f.sess \in Session /\ f.sess.id = s.id /\ f.sess.status = "stopped" /\ f.sess.rows \in Nat
  BY <1>1, FlushedFacts DEF Same, Session
<1>4. heap \in [Cells -> Session \cup {Free}] /\ meta \in [Ids -> Metas]
  BY DEF IInv, TypeOK, Metas
<1>5. (index' = index /\ full) \/ index' = Append(index, [id |-> s.id, rows |-> f.sess.rows])
  BY <1>2, <1>3 DEF IndexWritten
<1>6. QED
  BY <1>2, <1>3, <1>4, <1>5

\* A line more in the index is an entry more in the ledger.
LEMMA EntryAdded ==
  ASSUME IInv, NEW k \in Ids, NEW n \in Nat, index' = Append(index, [id |-> k, rows |-> n])
  PROVE  [i \in 1 .. Len(index) |-> index[i].id]' = Append([i \in 1 .. Len(index) |-> index[i].id], k)
<1> DEFINE L == Len(index)
           a == [i \in 1 .. L |-> index[i].id]
           b == [i \in 1 .. L + 1 |-> index'[i].id]
<1>1. index \in Seq(Lines) /\ L \in Nat /\ [id |-> k, rows |-> n] \in Lines
  BY DEF IInv, TypeOK, Lines
<1>2. /\ Len(index') = L + 1 /\ \A i \in 1 .. L : index'[i] = index[i]
      /\ index'[L + 1] = [id |-> k, rows |-> n]
  BY <1>1
<1>3. \A i \in 1 .. L : index[i].id \in Ids
  <2>1. \A i \in 1 .. L : index[i] \in Lines
    BY <1>1
  <2>2. QED
    BY <2>1 DEF Lines
<1>4. a \in Seq(Ids) /\ Len(a) = L
  BY <1>1, <1>3
<1>5. /\ Append(a, k) \in Seq(Ids) /\ Len(Append(a, k)) = L + 1
      /\ \A i \in 1 .. L : Append(a, k)[i] = a[i] /\ Append(a, k)[L + 1] = k
  BY <1>1, <1>4
<1>6. \A i \in 1 .. L + 1 : b[i] = Append(a, k)[i]
  BY <1>1, <1>2, <1>4, <1>5
<1>7. b \in Seq(Ids) /\ Len(b) = L + 1
  <2>1. \A i \in 1 .. L + 1 : index'[i].id \in Ids
    BY <1>1, <1>2, <1>3
  <2>2. QED
    BY <1>1, <2>1
<1>8. b = Append(a, k)
  BY <1>1, <1>5, <1>6, <1>7, SeqEqual
<1>9. QED
  BY <1>2, <1>8

-----------------------------------------------------------------------------
\* StopLocked is the ledger's Stop.
LEMMA StopRefines ==
  ASSUME IInv, IInv', NEW c \in Cells, c \in Listed, heap[c].status = "active",
         NEW s \in Session, NEW k \in Ids, s.id = k, heap[c].id = k,
         StopLocked(c, s), UNCHANGED <<store, full>>
  PROVE  Ledger!Stop(k)
<1>1. Listed' = Listed /\ Live(c)
  BY DEF Listed, IInv, Owned, Range
<1>2. /\ heap'[c].status = "stopped" /\ heap'[c].id = k
      /\ \A d \in Cells \ {c} : heap'[d] = heap[d]
      /\ \A id \in Ids \ {k} : meta'[id] = meta[id]
      /\ (index' = index /\ full) \/ \E n \in Nat : index' = Append(index, [id |-> k, rows |-> n])
  BY <1>1, StopEffect
<1>3. Phase(k) = "active" /\ Phase(k)' = "stopped"
  BY <1>1, <1>2, PhaseIs, NextPhaseIs DEF PhaseView
<1>4. [id \in Ids |-> Phase(id)]' = [[id \in Ids |-> Phase(id)] EXCEPT ![k] = "stopped"]
  BY <1>1, <1>2, <1>3, OnePhase
<1>5. \/ [i \in 1 .. Len(index) |-> index[i].id]' = Append([i \in 1 .. Len(index) |-> index[i].id], k)
      \/ full /\ [i \in 1 .. Len(index) |-> index[i].id]' = [i \in 1 .. Len(index) |-> index[i].id]
  BY <1>2, EntryAdded
<1>6. QED
  BY <1>3, <1>4, <1>5 DEF Ledger!Stop

\* Storing the object is the ledger's Start, not the opening of its log.
LEMMA StartRefines ==
  ASSUME IInv, IInv', NEW h \in Https, Start(h)
  PROVE  \E k \in Ids : Ledger!Start(k)
<1> DEFINE c == http[h]
           k == heap[c].id
<1>1. /\ http[h] # None /\ store' = Append(store, c)
      /\ UNCHANGED <<heap, full, index>>
      /\ \E m \in MetaWritten(heap[c]) : meta' = [meta EXCEPT ![k] = m]
  BY DEF Start, world
<1>2. /\ c \in Cells /\ Live(c) /\ c \notin Listed /\ heap[c].status \in {"active", "failed"}
      /\ meta[k] = NoMeta
  BY <1>1 DEF IInv, TypeOK, Owned
<1>3. k \in Ids /\ meta \in [Ids -> Metas] /\ store \in Seq(Cells)
  BY <1>2 DEF IInv, TypeOK, Live, Session, Metas
<1>4. Listed' = Listed \cup {c}
  <2>1. store' \in Seq(Cells) /\ Len(store') = Len(store) + 1 /\ Len(store) \in Nat
    BY <1>1, <1>2, <1>3
  <2>2. (\A i \in 1 .. Len(store) : store'[i] = store[i]) /\ store'[Len(store) + 1] = c
    BY <1>1, <1>2, <1>3
  <2>3. Listed = {store[i] : i \in 1 .. Len(store)} /\ Listed' = {store'[i] : i \in 1 .. Len(store')}
    BY <1>3, <2>1, RangeEquality DEF Listed
  <2>4. 1 .. Len(store') = (1 .. Len(store)) \cup {Len(store) + 1}
    BY <2>1
  <2>5. QED
    BY <2>2, <2>3, <2>4
<1>5. \A id \in Ids \ {k} : meta'[id] = meta[id]
  BY <1>1, <1>3
<1>6. \A d \in Listed : heap[d].id # k
  <2>1. \A d \in Listed : d \in Cells /\ Live(d)
    BY DEF IInv, TypeOK, Owned, Listed, Range
  <2>2. QED
    BY <1>2, <2>1 DEF IInv, Identified
<1>7. Phase(k) = "unborn"
  BY <1>2, <1>3, <1>6, PhaseIs DEF PhaseView
<1>8. ASSUME NEW j \in Ids, j = k
      PROVE  Ledger!Start(j)
  <2>1. Phase(j)' = heap[c].status
    BY <1>1, <1>4, <1>8, NextPhaseIs DEF PhaseView
  <2>2. [id \in Ids |-> Phase(id)]' = [[id \in Ids |-> Phase(id)] EXCEPT ![j] = Phase(j)']
    <3>1. \A d \in Cells \ {c} : (d \in Listed' <=> d \in Listed) /\ (d \in Listed => heap'[d] = heap[d])
      BY <1>1, <1>4
    <3>2. ASSUME NEW d \in Cells, d = c
          PROVE  [id \in Ids |-> Phase(id)]' = [[id \in Ids |-> Phase(id)] EXCEPT ![j] = Phase(j)']
      BY <1>1, <1>2, <1>5, <1>8, <3>1, <3>2, OnePhase
    <3>3. QED
      BY <1>2, <3>2
  <2>3. UNCHANGED <<[i \in 1 .. Len(index) |-> index[i].id], ~full>>
    BY <1>1
  <2>4. QED
    BY <1>2, <1>7, <1>8, <2>1, <2>2, <2>3 DEF Ledger!Start
<1>9. QED
  BY <1>3, <1>8

\* Delete is the ledger's Delete, of an active session too.
LEMMA DeleteRefines ==
  ASSUME IInv, IInv', NEW c \in Cells, Delete(c)
  PROVE  \E k \in Ids : Ledger!Delete(k)
<1>1. /\ c \in Listed /\ heap' = [heap EXCEPT ![c] = Free]
      /\ meta' = [meta EXCEPT ![heap[c].id] = [status |-> "deleted", rows |-> 0]]
      /\ UNCHANGED <<full, index>>
  BY DEF Delete, world
<1>2. /\ heap \in [Cells -> Session \cup {Free}] /\ meta \in [Ids -> Metas] /\ store \in Seq(Cells)
      /\ Live(c) /\ heap[c] \in Session
  BY <1>1 DEF IInv, TypeOK, Owned, Listed, Range, Live, Metas
<1>3. PICK k \in Ids : k = heap[c].id
  BY <1>2 DEF Session
<1>4. \A d \in Listed : d \in Cells /\ Live(d)
  BY DEF IInv, TypeOK, Owned, Listed, Range
<1>5. Listed' = Listed \ {c}
  <2>1. PICK n \in DOMAIN store : store[n] = c /\ store' = RemoveAt(store, n)
    BY DEF Delete
  <2>2. QED
    BY <1>2, <2>1, RemovedRange DEF Listed, IInv, Owned
<1>6. /\ \A d \in Cells \ {c} : heap'[d] = heap[d]
      /\ meta'[k].status = "deleted" /\ \A id \in Ids \ {k} : meta'[id] = meta[id]
  BY <1>1, <1>2, <1>3
<1>7. Phase(k) \in {"active", "stopped", "failed"}
  <2>1. Phase(k) = heap[c].status
    BY <1>1, <1>3, PhaseIs DEF PhaseView
  <2>2. QED
    BY <1>2, <2>1 DEF Session
<1>8. Phase(k)' = "gone"
  <2>1. \A d \in Listed' : heap'[d].id # k
    BY <1>2, <1>3, <1>4, <1>5, <1>6 DEF IInv, Identified
  <2>2. meta'[k] # NoMeta
    BY <1>6 DEF NoMeta
  <2>3. QED
    BY <2>1, <2>2, NextPhaseIs DEF PhaseView
<1>9. [id \in Ids |-> Phase(id)]' = [[id \in Ids |-> Phase(id)] EXCEPT ![k] = "gone"]
  BY <1>1, <1>3, <1>5, <1>6, <1>8, OnePhase
<1>10. UNCHANGED <<[i \in 1 .. Len(index) |-> index[i].id], ~full>>
  BY <1>1
<1>11. QED
  BY <1>7, <1>9, <1>10 DEF Ledger!Delete

\* A round of the loop is Stop, Fail or nothing.
LEMMA VisitRefines ==
  ASSUME IInv, IInv', Visit
  PROVE  (\E k \in Ids : Ledger!Stop(k) \/ Ledger!Fail(k)) \/ UNCHANGED Ledger!vars
<1>1. PICK c \in Cells : ppc = "walk" /\ c = Head(active) /\ heap[c] # Free /\ Tick(c)
  <2>1. Head(active) \in Cells
    BY DEF Visit, IInv, TypeOK, Pointers
  <2>2. QED
    BY <2>1 DEF Visit
<1>2. UNCHANGED <<store, full>> /\ Listed' = Listed
  BY DEF Visit, world, Listed
<1>3. /\ heap \in [Cells -> Session \cup {Free}] /\ heap[c] \in Session /\ Live(c)
      /\ \A d \in Listed : d \in Cells
  BY <1>1 DEF IInv, TypeOK, Live, Listed, Range
<1>4. PICK k \in Ids : k = heap[c].id
  BY <1>3 DEF Session
<1>5. CASE UNCHANGED <<heap, files>>
  <2>1. UNCHANGED <<index, meta>>
    BY <1>5 DEF files
  <2>2. QED
    BY <1>2, <1>5, <2>1, LedgerStutters
<1>6. ASSUME Running(c), NEW r \in RowWritten(heap[c]), NEW s,
             s = [r.sess EXCEPT !.watch_seen = @ \/ watchCount > 0],
             IF DurationDone(s) \/ WatchedDone(s)
             THEN StopLocked(c, [s EXCEPT !.buffered = @ + r.out])
             ELSE /\ heap' = [heap EXCEPT ![c] = s]
                  /\ UNCHANGED <<meta, index>>
      PROVE  Ledger!Stop(k) \/ UNCHANGED Ledger!vars
  <2>1. heap[c].status = "active"
    BY <1>6 DEF Running
  <2>2. r.sess \in Session /\ Same(heap[c], r.sess) /\ r.out \in Nat /\ r.sess.status = heap[c].status
        /\ r.sess.watch_seen = heap[c].watch_seen
    BY <1>3, RowWrittenFacts
  <2>3. /\ s \in Session /\ s.status = "active" /\ s.id = k /\ Same(heap[c], s)
        /\ s.watch_seen <=> (heap[c].watch_seen \/ watchCount > 0)
    BY <1>4, <1>6, <2>1, <2>2 DEF Session, Same
  <2>4. CASE ~(DurationDone(s) \/ WatchedDone(s))
    <3>1. heap' = [heap EXCEPT ![c] = s] /\ UNCHANGED <<meta, index>>
      BY <1>6, <2>4
    <3>2. \A d \in Listed : heap'[d].id = heap[d].id /\ heap'[d].status = heap[d].status
      BY <1>3, <1>4, <2>1, <2>3, <3>1
    <3>3. QED
      BY <1>2, <3>1, <3>2, LedgerStutters
  <2>5. CASE DurationDone(s) \/ WatchedDone(s)
    <3> DEFINE e == [s EXCEPT !.buffered = @ + r.out]
    <3>1. e \in Session /\ e.id = k
      <4>1. s.buffered + r.out \in Nat
        BY <2>2, <2>3 DEF Session
      <4>2. QED
        BY <2>3, <4>1 DEF Session
    <3>2. c \in Listed
      <4>1. SUFFICES ASSUME NEW h \in Https, http[h] = c
                     PROVE  FALSE
        BY <1>3 DEF IInv, Owned
      <4>2. heap[c].started = clock /\ ~heap[c].watch_seen
        <5>1. 1 \in DOMAIN active /\ active[1] = c
          BY <1>1 DEF IInv, TypeOK, Pointers
        <5>2. QED
          BY <4>1, <5>1 DEF IInv, Pointers
      <4>3. ~DurationDone(s)
        <5>1. s.started = heap[c].started /\ s.limit = heap[c].limit /\ s.limit \in Nat /\ clock \in Nat
          BY <1>3, <2>3 DEF Same, Session, IInv, TypeOK
        <5>2. s.started = clock
          BY <4>2, <5>1
        <5>3. QED
          BY <5>1, <5>2 DEF DurationDone
      <4>4. ~WatchedDone(s)
        BY <2>3, <4>2 DEF WatchedDone, IInv, TypeOK
      <4>5. QED
        BY <2>5, <4>3, <4>4
    <3>3. StopLocked(c, e)
      BY <1>6, <2>5
    <3> HIDE DEF e
    <3>4. QED
      BY <1>2, <1>4, <2>1, <3>1, <3>2, <3>3, StopRefines
  <2>6. QED
    BY <2>4, <2>5
<1>7. ASSUME Running(c), NEW f \in Flushed([heap[c] EXCEPT !.status = "failed", !.open = FALSE]),
             heap' = [heap EXCEPT ![c] = f.sess], UNCHANGED <<meta, index>>
      PROVE  Ledger!Fail(k) \/ UNCHANGED Ledger!vars
  <2> DEFINE e == [heap[c] EXCEPT !.status = "failed", !.open = FALSE]
  <2>1. e \in Session /\ e.id = k /\ e.status = "failed"
    BY <1>3, <1>4 DEF Session
  <2>2. f.sess.id = k /\ f.sess.status = "failed"
    BY <1>7, <2>1, FlushedFacts DEF Same
  <2>3. heap'[c] = f.sess /\ \A d \in Cells \ {c} : heap'[d] = heap[d]
    BY <1>3, <1>7
  <2>4. CASE c \notin Listed
    BY <1>2, <1>3, <1>7, <2>3, <2>4, LedgerStutters
  <2>5. CASE c \in Listed
    <3>1. Phase(k) = "active" /\ Phase(k)' = "failed"
      BY <1>2, <1>4, <1>7, <2>2, <2>3, <2>5, PhaseIs, NextPhaseIs DEF PhaseView, Running
    <3>2. [id \in Ids |-> Phase(id)]' = [[id \in Ids |-> Phase(id)] EXCEPT ![k] = "failed"]
      BY <1>2, <1>4, <1>7, <2>2, <2>3, <3>1, OnePhase
    <3>3. UNCHANGED <<[i \in 1 .. Len(index) |-> index[i].id], ~full>>
      BY <1>2, <1>7
    <3>4. QED
      BY <3>1, <3>2, <3>3 DEF Ledger!Fail
  <2>6. QED
    BY <2>4, <2>5
<1>8. QED
  BY <1>1, <1>5, <1>6, <1>7 DEF Tick

\* A death of the process is the ledger's Restart.
LEMMA CrashRefines ==
  ASSUME IInv, IInv', Crash
  PROVE  Ledger!Restart
<1>1. store' = <<>> /\ UNCHANGED <<full, meta, index>>
  BY DEF Crash, files
<1>2. Listed' = {}
  BY <1>1 DEF Listed, Range
<1>3. ASSUME NEW id \in Ids
      PROVE  Phase(id)' = IF Phase(id) = "unborn" THEN "unborn" ELSE "gone"
  <2>1. Phase(id)' = IF meta[id] = NoMeta THEN "unborn" ELSE "gone"
    BY <1>1, <1>2, NextPhaseIs DEF PhaseView
  <2>2. CASE \E c \in Listed : heap[c].id = id
    <3>1. PICK c \in Listed : heap[c].id = id
      BY <2>2
    <3>2. Phase(id) = heap[c].status
      BY <3>1, PhaseIs DEF PhaseView
    <3>3. meta[id] # NoMeta /\ heap[c].status # "unborn"
      <4>1. c \in Cells /\ Live(c) /\ meta[heap[c].id].status # "none"
        BY DEF IInv, TypeOK, Owned, Listed, Range
      <4>2. heap[c] \in Session
        BY <4>1 DEF IInv, TypeOK, Live
      <4>3. QED
        BY <3>1, <4>1, <4>2 DEF NoMeta, Session
    <3>4. QED
      BY <2>1, <3>2, <3>3
  <2>3. CASE \A c \in Listed : heap[c].id # id
    BY <2>1, <2>3, PhaseIs DEF PhaseView
  <2>4. QED
    BY <2>2, <2>3
<1>4. QED
  BY <1>1, <1>3 DEF Ledger!Restart

\* Every step of the store is one of the ledger or none.
LEMMA StepRefines ==
  ASSUME IInv, IInv', [Next]_vars
  PROVE  [Ledger!Next]_(Ledger!vars)
<1>1. ASSUME NEW h \in Https, NEW c \in Cells, NEW id \in Ids, NEW r \in Requests,
             OpenLog(h, c, id, r[1], r[2])
      PROVE  UNCHANGED Ledger!vars
  <2>1. heap[c] = Free /\ UNCHANGED <<store, full, meta, index>> /\ \A d \in Cells \ {c} : heap'[d] = heap[d]
    BY <1>1 DEF OpenLog, world, files, IInv, TypeOK
  <2>2. \A d \in Listed : d \in Cells \ {c}
    BY <2>1 DEF IInv, TypeOK, Owned, Live, Listed, Range
  <2>3. Listed' = Listed
    BY <2>1 DEF Listed
  <2>4. QED
    BY <2>1, <2>2, <2>3, LedgerStutters
<1>2. ASSUME NEW h \in Https, Start(h) PROVE Ledger!Next
  BY <1>2, StartRefines DEF Ledger!Next
<1>3. ASSUME NEW c \in Cells, Stop(c) PROVE Ledger!Next
  <2>1. /\ c \in Listed /\ heap[c].status = "active" /\ StopLocked(c, heap[c])
        /\ UNCHANGED <<store, full>>
    BY <1>3 DEF Stop, world
  <2>2. heap[c] \in Session
    BY <2>1 DEF IInv, TypeOK, Owned, Live, Listed, Range
  <2>3. PICK k \in Ids : k = heap[c].id
    BY <2>2 DEF Session
  <2>4. Ledger!Stop(k)
    BY <2>1, <2>2, <2>3, StopRefines
  <2>5. QED
    BY <2>4 DEF Ledger!Next
<1>4. ASSUME NEW c \in Cells, Delete(c) PROVE Ledger!Next
  BY <1>4, DeleteRefines DEF Ledger!Next
<1>5. CASE Visit
  BY <1>5, VisitRefines DEF Ledger!Next
<1>6. CASE Crash
  BY <1>6, CrashRefines DEF Ledger!Next
<1>7. CASE FillDisk
  <2>1. full' = TRUE /\ UNCHANGED <<heap, store, index, meta>>
    BY <1>7 DEF FillDisk, memory, files
  <2>2. Listed' = Listed
    BY <2>1 DEF Listed
  <2>3. \A id \in Ids : Phase(id)' = Phase(id)
    BY <2>1, <2>2 DEF Phase
  <2>4. (~full)' = FALSE
    BY <2>1
  <2>5. QED
    BY <2>1, <2>3, <2>4 DEF Ledger!FillsUp, Ledger!Next
<1>8. CASE \/ \E n \in 0 .. 1 : Poll(n)
           \/ Collect \/ VisitFreed \/ Restart \/ UNCHANGED vars
  <2>1. UNCHANGED <<heap, store, full, index, meta>>
    BY <1>8 DEF Poll, Collect, VisitFreed, Restart, vars, memory, world, files
  <2>2. Listed' = Listed
    BY <2>1 DEF Listed
  <2>3. QED
    BY <2>1, <2>2, LedgerStutters
<1>9. QED
  BY <1>1, <1>2, <1>3, <1>4, <1>5, <1>6, <1>7, <1>8 DEF Next, Request, PollThread

\* The store implements the ledger: every step is one of its steps, or none.
THEOREM SessionsImplementLedger == Spec => ImplementsLedger
<1>1. Init => Ledger!Init
  <2> SUFFICES ASSUME Init PROVE Ledger!Init
    OBVIOUS
  <2>1. IInv
    BY InitIInv
  <2>2. Listed = {} /\ \A id \in Ids : meta[id] = NoMeta
    BY DEF Init, Listed, Range
  <2>3. \A id \in Ids : Phase(id) = "unborn"
    BY <2>1, <2>2, PhaseIs DEF PhaseView
  <2>4. [i \in 1 .. Len(index) |-> index[i].id] = <<>>
    BY DEF Init
  <2>5. ~full = TRUE
    BY DEF Init
  <2>6. QED
    BY <2>3, <2>4, <2>5 DEF Ledger!Init
<1>2. IInv /\ IInv' /\ [Next]_vars => [Ledger!Next]_(Ledger!vars)
  BY StepRefines
<1>3. QED
  BY <1>1, <1>2, Invariance, PTL DEF Spec, ImplementsLedger, Ledger!Spec
=============================================================================
