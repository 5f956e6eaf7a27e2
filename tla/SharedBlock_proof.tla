-------------------------- MODULE SharedBlock_proof -------------------------
(***************************************************************************)
(* Proofs about the rings and the block they are in, for every Depth: what *)
(* the operators of MetricRing do, that a ring answers as if it kept the   *)
(* whole history, and that readers of the block see an atomic board, for   *)
(* any number of metrics and of readers, of tries, polls and restarts,     *)
(* provided the service never dies inside a write section of a block the   *)
(* client keeps.                                                           *)
(***************************************************************************)
EXTENDS SeqlockShm, RingHistory, TLAPS

-----------------------------------------------------------------------------
(* The operators of a ring.                                                *)

\* The remainder of a slot expression that exceeds Depth at most once.
LEMMA ModOfSmall ==
  ASSUME NEW x \in Int, NEW d \in Nat \ {0}
  PROVE  /\ x % d \in 0 .. d - 1
         /\ 0 <= x /\ x < d => x % d = x
         /\ d <= x /\ x < 2 * d => x % d = x - d
<1>1. x = d * (x \div d) + (x % d) /\ x % d \in 0 .. d - 1
  OBVIOUS
<1>2. x \div d \in Int
  OBVIOUS
<1>3. ASSUME 0 <= x, x < d PROVE x % d = x
  <2>1. x \div d = 0
    BY <1>1, <1>2, <1>3, SMT
  <2>2. QED
    BY <1>1, <2>1
<1>4. ASSUME d <= x, x < 2 * d PROVE x % d = x - d
  <2>1. x \div d = 1
    BY <1>1, <1>2, <1>4, SMT
  <2>2. QED
    BY <1>1, <2>1
<1>5. QED
  BY <1>1, <1>3, <1>4

\* In particular for the slots of a ring.
LEMMA ModDepth ==
  ASSUME NEW x \in 0 .. 2 * Depth - 1
  PROVE  x % Depth = (IF x < Depth THEN x ELSE x - Depth) /\ x % Depth \in Slots
<1>1. x \in Int /\ 0 <= x /\ x < 2 * Depth
  BY DepthAssumption
<1>2. /\ x % Depth \in 0 .. Depth - 1
      /\ 0 <= x /\ x < Depth => x % Depth = x
      /\ Depth <= x /\ x < 2 * Depth => x % Depth = x - Depth
  BY <1>1, DepthAssumption, ModOfSmall
<1>3. QED
  BY <1>1, <1>2, DepthAssumption DEF Slots

LEMMA RingFields ==
  ASSUME NEW rg \in Ring
  PROVE  /\ rg.head \in Slots /\ rg.head \in Int /\ rg.head \in 0 .. Depth - 1
         /\ rg.count \in 0 .. Depth /\ rg.count \in Int
         /\ rg.current \in Int /\ rg.values \in [Slots -> Int]
<1>1. /\ rg.head \in Slots /\ rg.count \in 0 .. Depth /\ rg.current \in Int
      /\ rg.values \in [Slots -> Int]
  BY DEF Ring
<1>2. QED
  BY <1>1, DepthAssumption DEF Slots

\* Each of the four stores of a push leaves a well-typed ring.
LEMMA PushPiecesTyped ==
  ASSUME NEW rg \in Ring, NEW v \in Int
  PROVE  /\ PushHead(rg) \in Ring /\ PushValue(rg, v) \in Ring
         /\ PushCurrent(rg, v) \in Ring /\ PushExtremes(rg, v) \in Ring
<1>1. PushHead(rg) \in Ring
  <2>1. rg.head + 1 \in 0 .. 2 * Depth - 1
    BY DepthAssumption DEF Ring, Slots
  <2>2. (rg.head + 1) % Depth \in Slots
    BY <2>1, ModDepth
  <2>3. QED
    BY <2>2 DEF PushHead, Ring
<1>2. PushValue(rg, v) \in Ring
  <2>1. [rg.values EXCEPT ![rg.head] = v] \in [Slots -> Int]
    BY DEF Ring
  <2>2. QED
    BY <2>1 DEF PushValue, Ring
<1>3. PushCurrent(rg, v) \in Ring
  BY DEF PushCurrent, Ring
<1>4. PushExtremes(rg, v) \in Ring
  <2> DEFINE lo == IF rg.count = 0 \/ v < rg.min_session THEN v ELSE rg.min_session
             hi == IF rg.count = 0 \/ v > rg.max_session THEN v ELSE rg.max_session
             c  == IF rg.count < Depth THEN rg.count + 1 ELSE rg.count
  <2>1. PushExtremes(rg, v) = [rg EXCEPT !.min_session = lo, !.max_session = hi, !.count = c]
    BY DEF PushExtremes, Ring
  <2>2. lo \in Int /\ hi \in Int /\ c \in 0 .. Depth
    BY DepthAssumption DEF Ring
  <2> HIDE DEF lo, hi, c
  <2>3. QED
    BY <2>1, <2>2 DEF Ring
<1>5. QED
  BY <1>1, <1>2, <1>3, <1>4

\* What one push does to each field of a well-typed ring.
LEMMA PushFields ==
  ASSUME NEW rg \in Ring, NEW v \in Int
  PROVE  /\ Push(rg, v) \in Ring
         /\ Push(rg, v).head = (rg.head + 1) % Depth
         /\ Push(rg, v).count = IF rg.count < Depth THEN rg.count + 1 ELSE rg.count
         /\ Push(rg, v).current = v
         /\ Push(rg, v).values = [rg.values EXCEPT ![(rg.head + 1) % Depth] = v]
<1> DEFINE h == (rg.head + 1) % Depth
<1>1. h \in Slots
  <2>1. rg.head + 1 \in 0 .. 2 * Depth - 1
    BY DepthAssumption DEF Ring, Slots
  <2>2. QED
    BY <2>1, ModDepth
<1>2. PushHead(rg) = [rg EXCEPT !.head = h] /\ PushHead(rg) \in Ring
  BY <1>1 DEF PushHead, Ring
<1>3. PushValue(PushHead(rg), v) = [rg EXCEPT !.head = h, !.values = [@ EXCEPT ![h] = v]]
  BY <1>1, <1>2 DEF PushValue, Ring
<1> DEFINE p == PushCurrent(PushValue(PushHead(rg), v), v)
<1>4. p = [rg EXCEPT !.head = h, !.values = [@ EXCEPT ![h] = v], !.current = v]
  BY <1>3 DEF PushCurrent, Ring
<1> HIDE DEF p
<1>5. [rg.values EXCEPT ![h] = v] \in [Slots -> Int]
  BY <1>1 DEF Ring
<1>6. /\ p \in Ring /\ p.head = h /\ p.count = rg.count /\ p.current = v
      /\ p.values = [rg.values EXCEPT ![h] = v]
  BY <1>1, <1>4, <1>5 DEF Ring
<1> DEFINE lo == IF p.count = 0 \/ v < p.min_session THEN v ELSE p.min_session
           hi == IF p.count = 0 \/ v > p.max_session THEN v ELSE p.max_session
           c  == IF p.count < Depth THEN p.count + 1 ELSE p.count
<1>7. PushExtremes(p, v) = [p EXCEPT !.min_session = lo, !.max_session = hi, !.count = c]
  BY <1>6 DEF PushExtremes, Ring
<1>8. lo \in Int /\ hi \in Int /\ c \in 0 .. Depth
  BY <1>6, DepthAssumption DEF Ring
<1> HIDE DEF lo, hi, c
<1>9. /\ PushExtremes(p, v) \in Ring
      /\ PushExtremes(p, v).head = p.head
      /\ PushExtremes(p, v).count = c
      /\ PushExtremes(p, v).current = p.current
      /\ PushExtremes(p, v).values = p.values
  BY <1>6, <1>7, <1>8 DEF Ring
<1>10. QED
  BY <1>6, <1>9 DEF Push, p, c

\* The newest-first slots of a ring before and after its head moves on.
LEMMA SlotsAfterPush ==
  ASSUME NEW h \in Slots, NEW j \in 1 .. Depth - 1
  PROVE  LET g == (h + 1) % Depth
         IN  /\ g \in Slots
             /\ (g + Depth) % Depth = g
             /\ (g + Depth - j) % Depth = (h + Depth - (j - 1)) % Depth
             /\ (g + Depth - j) % Depth # g
             /\ (g + Depth - j) % Depth \in Slots
<1> DEFINE g == (h + 1) % Depth
<1>1. g = IF h + 1 = Depth THEN 0 ELSE h + 1
  <2>1. h + 1 \in 0 .. 2 * Depth - 1
    BY DepthAssumption DEF Slots
  <2>2. QED
    BY <2>1, ModDepth, DepthAssumption DEF Slots
<1>2. g \in Slots
  BY <1>1, DepthAssumption DEF Slots
<1>3. (g + Depth) % Depth = g
  <2> DEFINE e == g + Depth
  <2>1. e \in 0 .. 2 * Depth - 1 /\ ~(e < Depth) /\ e - Depth = g
    BY <1>2, DepthAssumption DEF Slots
  <2> HIDE DEF e
  <2>2. e % Depth = e - Depth
    BY <2>1, ModDepth
  <2>3. QED
    BY <2>1, <2>2 DEF e
<1>4. (g + Depth - j) % Depth = IF g >= j THEN g - j ELSE g + Depth - j
  <2> DEFINE e == g + Depth - j
  <2>1. e \in 0 .. 2 * Depth - 1 /\ (e < Depth <=> ~(g >= j)) /\ e - Depth = g - j
    BY <1>2, DepthAssumption DEF Slots
  <2> HIDE DEF e
  <2>2. e % Depth = IF e < Depth THEN e ELSE e - Depth
    BY <2>1, ModDepth
  <2>3. QED
    BY <2>1, <2>2 DEF e
<1>5. (h + Depth - (j - 1)) % Depth = IF h >= j - 1 THEN h - (j - 1) ELSE h + Depth - (j - 1)
  <2> DEFINE e == h + Depth - (j - 1)
  <2>1. /\ e \in 0 .. 2 * Depth - 1 /\ (e < Depth <=> ~(h >= j - 1))
        /\ e - Depth = h - (j - 1)
    BY DepthAssumption DEF Slots
  <2> HIDE DEF e
  <2>2. e % Depth = IF e < Depth THEN e ELSE e - Depth
    BY <2>1, ModDepth
  <2>3. QED
    BY <2>1, <2>2 DEF e
<1>6. QED
  BY <1>1, <1>2, <1>3, <1>4, <1>5, DepthAssumption DEF Slots

-----------------------------------------------------------------------------
(* The history of a ring.                                                  *)

HistoryIInv == RingTypeOK /\ RingHoldsSuffix

LEMMA HistoryInitial == RingInit => HistoryIInv
BY DepthAssumption DEF RingInit, HistoryIInv, RingTypeOK, RingHoldsSuffix, Ring, EmptyRing, Slots, Available

LEMMA HistoryStores ==
  ASSUME HistoryIInv, NEW v \in Values, Store(v)
  PROVE  HistoryIInv'
<1> DEFINE g == (kept.head + 1) % Depth
           L == Len(history)
<1>1. /\ v \in Int /\ kept \in Ring /\ history \in Seq(Values)
      /\ kept' = Push(kept, v) /\ history' = Append(history, v)
      /\ kept.head \in Slots /\ kept.count \in 0 .. Depth /\ L \in Nat
      /\ kept.values \in [Slots -> Int]
  BY RingHistoryAssumption DEF HistoryIInv, RingTypeOK, Store, Ring
<1>2. /\ kept' \in Ring /\ kept'.head = g
      /\ kept'.count = IF kept.count < Depth THEN kept.count + 1 ELSE kept.count
      /\ kept'.values = [kept.values EXCEPT ![g] = v]
  BY <1>1, PushFields
<1>3. RingTypeOK'
  BY <1>1, <1>2 DEF RingTypeOK
<1>4. kept.count = Available(L, Depth) /\ Len(history') = L + 1
  BY <1>1 DEF HistoryIInv, RingHoldsSuffix
<1>5. kept'.count = Available(Len(history'), Depth)
  BY <1>1, <1>2, <1>4, DepthAssumption DEF Available
<1>6. ASSUME NEW j \in 0 .. kept'.count - 1
      PROVE  kept'.values[(kept'.head + Depth - j) % Depth] = history'[Len(history') - j]
  <2>1. CASE j = 0
    <3>1. g \in Slots /\ (g + Depth) % Depth = g
      <4>0. kept.head \in Slots /\ Depth \in Nat \ {0}
        BY <1>1, DepthAssumption
      <4>1. kept.head + 1 \in 0 .. 2 * Depth - 1
        BY <4>0 DEF Slots
      <4>2. g \in Slots
        BY <4>1, ModDepth
      <4>3. g + Depth \in 0 .. 2 * Depth - 1
        BY <4>2, DepthAssumption DEF Slots
      <4>4. QED
        BY <4>2, <4>3, ModDepth, DepthAssumption DEF Slots
    <3>2. history'[Len(history')] = v
      BY <1>1, <1>4
    <3>3. (g + Depth - j) % Depth = g
      BY <2>1, <3>1, DepthAssumption DEF Slots
    <3>4. kept'.values[g] = v
      BY <3>1, <1>1, <1>2
    <3>5. QED
      BY <2>1, <3>2, <3>3, <3>4, <1>2, <1>4, <1>1
  <2>2. CASE j # 0
    <3>1. j \in 1 .. Depth - 1 /\ j - 1 \in 0 .. kept.count - 1
      BY <2>2, <1>1, <1>2, DepthAssumption
    <3> DEFINE s == (g + Depth - j) % Depth
    <3>2. /\ g \in Slots /\ s # g /\ s \in Slots
          /\ s = (kept.head + Depth - (j - 1)) % Depth
      BY <3>1, <1>1, SlotsAfterPush
    <3>3. kept'.values[s] = kept.values[s]
      BY <3>2, <1>1, <1>2
    <3>4. kept.values[s] = history[L - (j - 1)]
      BY <3>1, <3>2 DEF HistoryIInv, RingHoldsSuffix
    <3>5. L - (j - 1) \in 1 .. L
      BY <3>1, <1>1, <1>4, DepthAssumption DEF Available
    <3>6. history'[L + 1 - j] = history[L - (j - 1)]
      BY <3>5, <3>1, <1>1
    <3>7. QED
      BY <3>3, <3>4, <3>6, <1>2, <1>4
  <2>3. QED
    BY <2>1, <2>2
<1>7. QED
  BY <1>3, <1>5, <1>6 DEF HistoryIInv, RingHoldsSuffix

LEMMA HistorySteps == HistoryIInv /\ [RingNext]_ringVars => HistoryIInv'
<1> SUFFICES ASSUME HistoryIInv, [RingNext]_ringVars PROVE HistoryIInv'
  OBVIOUS
<1>1. ASSUME NEW v \in Values, Store(v) PROVE HistoryIInv'
  BY <1>1, HistoryStores
<1>2. CASE Clear
  BY <1>2, DepthAssumption
  DEF Clear, HistoryIInv, RingTypeOK, RingHoldsSuffix, Ring, EmptyRing, Slots, Available
<1>3. CASE UNCHANGED ringVars
  BY <1>3 DEF ringVars, HistoryIInv, RingTypeOK, RingHoldsSuffix
<1>4. QED
  BY <1>1, <1>2, <1>3 DEF RingNext

\* The slots that end at head hold the newest values of the history, for
\* every Depth and any number of pushes and resets.
THEOREM RingHolds == RingSpec => [](RingTypeOK /\ RingHoldsSuffix)
<1>1. RingInit => HistoryIInv
  BY HistoryInitial
<1>2. HistoryIInv /\ [RingNext]_ringVars => HistoryIInv'
  BY HistorySteps
<1>3. QED
  BY <1>1, <1>2, PTL DEF RingSpec, HistoryIInv

\* In a ring that holds the suffix, read_last returns it.
LEMMA ReadLastFromSlots ==
  ASSUME HistoryIInv, NEW n \in 0 .. Depth + 1
  PROVE  ReadLast(kept, n) = Suffix(Available(Depth, n))
<1> DEFINE a == Available(kept.count, n)
           L == Len(history)
           k == Available(L, Available(Depth, n))
<1>1. /\ kept.head \in Slots /\ kept.count \in 0 .. Depth /\ L \in Nat
      /\ kept.count = Available(L, Depth)
  BY DEF HistoryIInv, RingTypeOK, Ring, RingHoldsSuffix
<1>2. a = k /\ a \in 0 .. kept.count /\ a \in 0 .. L
  BY <1>1, DepthAssumption DEF Available
<1>3. ASSUME NEW i \in 1 .. a
      PROVE  kept.values[SlotOf(kept.head, a, i - 1)] = history[L - k + i]
  <2>1. a - i \in 0 .. kept.count - 1
    BY <1>1, <1>2
  <2>2. kept.head + Depth - a + 1 + (i - 1) = kept.head + Depth - (a - i)
    BY <1>1, <1>2, DepthAssumption DEF Slots
  <2>3. kept.values[(kept.head + Depth - (a - i)) % Depth] = history[L - (a - i)]
    BY <2>1 DEF HistoryIInv, RingHoldsSuffix
  <2>4. L - (a - i) = L - k + i
    BY <1>1, <1>2
  <2>5. QED
    BY <2>2, <2>3, <2>4 DEF SlotOf
<1>4. QED
  BY <1>2, <1>3 DEF ReadLast, Suffix

\* read_last returns the newest values in order, for every Depth.
THEOREM ReadLastCorrect == RingSpec => []ReadLastIsSuffix
<1>1. HistoryIInv => ReadLastIsSuffix
  BY ReadLastFromSlots DEF ReadLastIsSuffix
<1>2. QED
  BY <1>1, RingHolds, PTL DEF HistoryIInv

\* The sum of no values, by the first equation of the running sum.
LEMMA SumOfNone == ASSUME NEW s, Len(s) = 0 PROVE SumOf(s) = 0
<1> DEFINE P(f) == f = [i \in 0 .. Len(s) |-> IF i = 0 THEN 0 ELSE f[i - 1] + s[i]]
<1>1. P([i \in 0 .. 0 |-> 0])
  OBVIOUS
<1>2. PICK f : P(f) /\ SumOf(s) = f[Len(s)]
  BY <1>1 DEF SumOf
<1>3. QED
  BY <1>2

\* avg_last is taken over the values read_last returns.
LEMMA MeanFromSlots == HistoryIInv => MeanIsOfSuffix
<1> SUFFICES ASSUME HistoryIInv, NEW n \in 1 .. Depth + 1
             PROVE  LET avg == AvgLast(kept, n)
                        s   == Suffix(Available(Depth, n))
                    IN  /\ avg.over > 0
                        /\ avg.sum = SumOf(s)
                        /\ history # <<>> => avg.over = Len(s)
  BY DEF MeanIsOfSuffix
<1> DEFINE L == Len(history)
           k == Available(L, Available(Depth, n))
<1>1. /\ kept.count \in 0 .. Depth /\ L \in Nat /\ kept.count = Available(L, Depth)
      /\ n \in Nat \ {0} /\ n \in 0 .. Depth + 1 /\ (history # <<>> => L # 0)
  BY DepthAssumption DEF HistoryIInv, RingTypeOK, Ring, RingHoldsSuffix
<1>2. k \in Nat /\ k = Available(kept.count, n) /\ (k = 0 <=> kept.count = 0)
      /\ (kept.count = 0 <=> L = 0)
  BY <1>1, DepthAssumption DEF Available
<1>3. PICK s : s = Suffix(Available(Depth, n))
  OBVIOUS
<1>4. s = [i \in 1 .. k |-> history[L - k + i]]
  BY <1>3 DEF Suffix
<1>5. Len(s) = k
  BY <1>2, <1>4
<1>6. CASE kept.count = 0
  <2>1. AvgLast(kept, n) = [sum |-> 0, over |-> 1]
    BY <1>6 DEF AvgLast
  <2>2. SumOf(s) = 0
    BY <1>2, <1>5, <1>6, SumOfNone
  <2>3. QED
    BY <1>1, <1>2, <1>3, <1>6, <2>1, <2>2
<1>7. CASE kept.count # 0
  <2>1. ReadLast(kept, n) = s
    BY <1>1, <1>3, ReadLastFromSlots
  <2>2. AvgLast(kept, n) = [sum |-> SumOf(s), over |-> k]
    BY <1>2, <1>7, <2>1 DEF AvgLast
  <2>3. k > 0
    BY <1>2, <1>7
  <2>4. QED
    BY <1>3, <1>5, <2>2, <2>3
<1>8. QED
  BY <1>6, <1>7

LEMMA PushedExtremes ==
  ASSUME NEW rg \in Ring, NEW v \in Int
  PROVE  /\ Push(rg, v).min_session = IF rg.count = 0 \/ v < rg.min_session THEN v ELSE rg.min_session
         /\ Push(rg, v).max_session = IF rg.count = 0 \/ v > rg.max_session THEN v ELSE rg.max_session
<1>1. PICK p : p = PushCurrent(PushValue(PushHead(rg), v), v)
  OBVIOUS
<1>2. /\ p \in Ring /\ p.count = rg.count
      /\ p.min_session = rg.min_session /\ p.max_session = rg.max_session
  <2>1. PICK a : a = PushHead(rg) /\ a \in Ring
    BY PushPiecesTyped
  <2>2. PICK b : b = PushValue(a, v) /\ b \in Ring
    BY <2>1, PushPiecesTyped
  <2>3. p = PushCurrent(b, v) /\ p \in Ring
    BY <1>1, <2>1, <2>2, PushPiecesTyped
  <2>4. QED
    BY <2>1, <2>2, <2>3 DEF PushHead, PushValue, PushCurrent, Ring
<1>3. Push(rg, v) = PushExtremes(p, v)
  BY <1>1 DEF Push
<1>4. QED
  BY <1>2, <1>3 DEF PushExtremes, Ring

LEMMA ExtremesStored ==
  ASSUME HistoryIInv, ExtremesAreOfHistory, NEW v \in Values, Store(v)
  PROVE  ExtremesAreOfHistory'
<1> DEFINE L == Len(history)
<1>1. /\ v \in Int /\ kept \in Ring /\ history \in Seq(Values) /\ L \in Nat
      /\ kept' = Push(kept, v) /\ history' = Append(history, v)
  BY RingHistoryAssumption DEF HistoryIInv, RingTypeOK, Store
<1>2. /\ Len(history') = L + 1 /\ history'[L + 1] = v
      /\ \A i \in 1 .. L : history'[i] = history[i] /\ history[i] \in Int
  <2>1. Len(history') = L + 1 /\ history'[L + 1] = v
    BY <1>1
  <2>2. \A i \in 1 .. L : history'[i] = history[i] /\ history[i] \in Values
    BY <1>1
  <2>3. QED
    BY <2>1, <2>2, RingHistoryAssumption
<1>3. kept'.current = v
  BY <1>1, PushFields
<1>4. PICK lo, hi : lo = kept.min_session /\ hi = kept.max_session
  OBVIOUS
<1>5. lo \in Int /\ hi \in Int /\ kept.count = Available(L, Depth)
  BY <1>1, <1>4 DEF Ring, HistoryIInv, RingHoldsSuffix
<1>6. PICK lo1, hi1 : lo1 = kept'.min_session /\ hi1 = kept'.max_session
  OBVIOUS
<1>7. /\ lo1 = IF L = 0 \/ v < lo THEN v ELSE lo
      /\ hi1 = IF L = 0 \/ v > hi THEN v ELSE hi
  <2>1. kept.count = 0 <=> L = 0
    BY <1>1, <1>5, DepthAssumption DEF Available
  <2>2. QED
    BY <1>1, <1>4, <1>6, <2>1, PushedExtremes
<1>8. L # 0 => /\ \A i \in 1 .. L : lo <= history[i] /\ history[i] <= hi
               /\ \E i \in 1 .. L : lo = history[i]
               /\ \E i \in 1 .. L : hi = history[i]
  <2>1. L # 0 => history # <<>>
    BY <1>1
  <2>2. L # 0 => /\ \A i \in 1 .. L : lo <= history[i] /\ history[i] <= hi
                 /\ {lo, hi} \subseteq {history[i] : i \in 1 .. L}
    BY <1>4, <2>1 DEF ExtremesAreOfHistory
  <2>3. QED
    BY <2>2
<1>9. \A i \in 1 .. L + 1 : lo1 <= history'[i] /\ history'[i] <= hi1
  <2>1. ASSUME NEW i \in 1 .. L + 1
        PROVE  lo1 <= history'[i] /\ history'[i] <= hi1
    <3>1. CASE i = L + 1
      BY <1>1, <1>2, <1>5, <1>7, <3>1
    <3>2. CASE i # L + 1
      <4>1. i \in 1 .. L /\ L # 0 /\ history'[i] = history[i] /\ history[i] \in Int
        BY <1>1, <1>2, <3>2
      <4>2. QED
        BY <1>1, <1>5, <1>7, <1>8, <4>1
    <3>3. QED
      BY <3>1, <3>2
  <2>2. QED
    BY <2>1
<1>10. /\ \E i \in 1 .. L + 1 : lo1 = history'[i]
       /\ \E i \in 1 .. L + 1 : hi1 = history'[i]
  <2>1. \A i \in 1 .. L : i \in 1 .. L + 1
    BY <1>1
  <2>2. L + 1 \in 1 .. L + 1
    BY <1>1
  <2>3. lo1 = v \/ (L # 0 /\ lo1 = lo)
    BY <1>7
  <2>4. hi1 = v \/ (L # 0 /\ hi1 = hi)
    BY <1>7
  <2>5. \E i \in 1 .. L + 1 : lo1 = history'[i]
    BY <1>2, <1>8, <2>1, <2>2, <2>3
  <2>6. \E i \in 1 .. L + 1 : hi1 = history'[i]
    BY <1>2, <1>8, <2>1, <2>2, <2>4
  <2>7. QED
    BY <2>5, <2>6
<1>11. {lo1, hi1} \subseteq {history'[i] : i \in 1 .. L + 1}
  BY <1>10
<1>12. QED
  BY <1>2, <1>3, <1>6, <1>9, <1>11 DEF ExtremesAreOfHistory

\* avg_last is the mean of the values read_last returns, and the extremes are
\* those of everything pushed since reset(), for every Depth.
THEOREM StatisticsCorrect == RingSpec => []StatisticsMatchHistory
<1> DEFINE I == HistoryIInv /\ ExtremesAreOfHistory
<1>1. RingInit => I
  BY HistoryInitial DEF RingInit, ExtremesAreOfHistory
<1>2. I /\ [RingNext]_ringVars => I'
  <2> SUFFICES ASSUME I, [RingNext]_ringVars PROVE I'
    OBVIOUS
  <2>1. HistoryIInv'
    BY HistorySteps
  <2>2. ASSUME NEW v \in Values, Store(v) PROVE ExtremesAreOfHistory'
    BY <2>2, ExtremesStored
  <2>3. ASSUME Clear PROVE ExtremesAreOfHistory'
    BY <2>3 DEF Clear, ExtremesAreOfHistory
  <2>4. ASSUME UNCHANGED ringVars PROVE ExtremesAreOfHistory'
    BY <2>4 DEF ringVars, ExtremesAreOfHistory
  <2>5. QED
    BY <2>1, <2>2, <2>3, <2>4 DEF RingNext
<1>3. I => StatisticsMatchHistory
  BY MeanFromSlots DEF StatisticsMatchHistory
<1>4. QED
  BY <1>1, <1>2, <1>3, PTL DEF RingSpec

-----------------------------------------------------------------------------
(* The block.                                                              *)

\* What every reader knows of the block.
ReaderInv(r) ==
  /\ rpc[r] # "idle" => /\ Attached(r) /\ req[r] \in Requests
                        /\ tries[r] \in 1 .. MaxRetries
  /\ rpc[r] \in {"idle", "load"} => buf[r] = <<>>
  /\ rpc[r] = "copy"  => Len(buf[r]) < WordsOf(req[r], buf[r])
  /\ rpc[r] = "check" => Len(buf[r]) = WordsOf(req[r], buf[r])
  /\ rpc[r] \in {"copy", "check"} /\ r \notin RawReaders =>
       /\ seq0[r] % 2 = 0 /\ seq0[r] <= write_seq
       /\ seq0[r] = write_seq =>
            \A i \in 1 .. Len(buf[r]) : buf[r][i] = Word(req[r], buf[r], i)

\* The ring of metric m while the poll is at it, in terms of the last board.
InProgress(m) ==
  LET old == pub.ring[m]
  IN  CASE wpc = "head"     -> old
        [] wpc = "value"    -> PushHead(old)
        [] wpc = "current"  -> PushValue(PushHead(old), polls)
        [] wpc = "extremes" -> PushCurrent(PushValue(PushHead(old), polls), polls)

\* How far the poll has got on its way from one board to the next.
WriterInv ==
  /\ polls <= MaxPolls
  /\ Mapped =>
       /\ pub.ts <= polls
       /\ wpc \in {"down", "idle"} => ts = pub.ts /\ ring = pub.ring
       /\ wpc = "header" => ts = pub.ts /\ ring = pub.ring /\ pub.ts < polls
       /\ wpc \in {"head", "value", "current", "extremes"} =>
            /\ ts = polls /\ pub.ts < polls
            /\ \A m \in Metrics :
                 ring[m] = IF m < wi THEN Push(pub.ring[m], polls)
                           ELSE IF m = wi THEN InProgress(m)
                           ELSE pub.ring[m]
       /\ wpc = "end" => /\ ts = polls /\ pub.ts < polls
                         /\ \A m \in Metrics : ring[m] = Push(pub.ring[m], polls)

\* A board is the work of one poll.
BoardInv ==
  \A m \in Metrics : /\ pub.ring[m].current = pub.ts
                     /\ pub.ring[m].count = pub.ring[1].count
                     /\ pub.ring[m].count > 0 => pub.ring[m].values[pub.ring[m].head] = pub.ts

\* The answers are a function of the readers.
AnswerInv == answer = [r \in Readers |-> answer[r]]

IInv == /\ TypeOK
        /\ OddDuringWrite
        /\ \A r \in Readers : ReaderInv(r)
        /\ WriterInv
        /\ BoardInv
        /\ AnswerInv

-----------------------------------------------------------------------------
(* Typing. *)

\* The instance's copies of the ring operators are the operators themselves.
LEMMA SameRing ==
  /\ Board!Ring = Ring /\ Board!EmptyRing = EmptyRing
  /\ Board!Block = [ts : Nat, ring : [Metrics -> Ring]]
  /\ \A rg, v : Board!Push(rg, v) = Push(rg, v)
  /\ \A rg, n : Board!ReadLast(rg, n) = ReadLast(rg, n)
<1>1. Board!Ring = Ring /\ Board!EmptyRing = EmptyRing /\ Board!Slots = Slots
  BY DEF Board!Ring, Ring, Board!EmptyRing, EmptyRing, Board!Slots, Slots
<1>2. Board!Block = [ts : Nat, ring : [Metrics -> Ring]]
  BY <1>1 DEF Board!Block, Metrics
<1>3. \A rg, v : Board!Push(rg, v) = Push(rg, v)
  BY DEF Board!Push, Push, Board!PushHead, PushHead, Board!PushValue, PushValue,
         Board!PushCurrent, PushCurrent, Board!PushExtremes, PushExtremes
<1>4. \A rg, n : Board!ReadLast(rg, n) = ReadLast(rg, n)
  BY DEF Board!ReadLast, ReadLast, Board!Available, Available, Board!SlotOf, SlotOf
<1>5. QED
  BY <1>1, <1>2, <1>3, <1>4

LEMMA EmptyTyped == EmptyRing \in Ring /\ Board!EmptyBlock \in Board!Block
<1>1. EmptyRing \in Ring
  BY DepthAssumption DEF EmptyRing, Ring, Slots
<1>2. QED
  BY <1>1, SameRing DEF Board!EmptyBlock, Metrics

\* A word of the block is an integer, whatever was loaded before it.
LEMMA WordTyped ==
  ASSUME TypeOK, NEW q \in Requests, NEW b \in Seq(Int), Len(b) < WordsOf(q, b)
  PROVE  Word(q, b, Len(b) + 1) \in Int
<1>1. CASE q.what = "current"
  BY <1>1 DEF Word, Requests, Board!Requests, TypeOK, Ring, Metrics
<1>2. CASE q.what = "all"
  <2>1. Len(b) + 1 \in 1 .. NumMetrics + 1
    BY <1>2, SeqlockAssumption DEF WordsOf
  <2>2. CASE Len(b) + 1 = 1
    BY <1>2, <2>2 DEF Word, TypeOK
  <2>3. CASE Len(b) + 1 # 1
    <3>1. Len(b) + 1 - 1 \in Metrics
      BY <2>1, <2>3, SeqlockAssumption DEF Metrics, Board!Metrics
    <3>2. QED
      BY <1>2, <2>3, <3>1 DEF Word, TypeOK, Ring
  <2>4. QED
    BY <2>2, <2>3
<1>3. CASE q.what = "history"
  <2>1. q.metric \in Metrics /\ q.n \in 1 .. Depth /\ ring[q.metric] \in Ring
    BY <1>3 DEF Requests, Board!Requests, TypeOK, Metrics
  <2> DEFINE rg == ring[q.metric]
             i  == Len(b) + 1
             sl == SlotOf(b[2], Available(b[1], q.n), i - 3)
  <2>5. rg.count \in Int /\ rg.head \in Int /\ rg.values \in [Slots -> Int]
    BY <2>1, RingFields
  <2>6. Word(q, b, i) = IF i = 1 THEN rg.count ELSE IF i = 2 THEN rg.head ELSE rg.values[sl]
    BY <1>3 DEF Word
  <2>2. CASE Len(b) < 2
    BY <2>2, <2>5, <2>6
  <2>3. CASE Len(b) >= 2
    <3> DEFINE x == b[2] + Depth - Available(b[1], q.n) + 1 + (Len(b) + 1 - 3)
    <3>1. x \in Int
      <4>1. b[1] \in Int /\ b[2] \in Int /\ Len(b) \in Nat /\ q.n \in Int
        BY <2>1, <2>3, DepthAssumption
      <4>2. Available(b[1], q.n) \in Int
        BY <4>1 DEF Available
      <4>3. QED
        BY <4>1, <4>2, DepthAssumption
    <3> HIDE DEF x
    <3>2. x % Depth \in Slots
      BY <3>1, ModOfSmall, DepthAssumption DEF Slots
    <3>3. SlotOf(b[2], Available(b[1], q.n), Len(b) + 1 - 3) \in Slots
      BY <3>2 DEF SlotOf, x
    <3>4. QED
      BY <2>3, <2>5, <2>6, <3>3
  <2>4. QED
    BY <2>2, <2>3
<1>4. QED
  BY <1>1, <1>2, <1>3 DEF Requests, Board!Requests

\* The return of a call keeps the types of its locals.
LEMMA ReturnTyped ==
  ASSUME TypeOK, NEW r \in Readers, NEW a, Return(r, a) \/ Retry(r),
         tries[r] \in 1 .. MaxRetries, UNCHANGED <<block, writer, process, pub>>
  PROVE  TypeOK'
<1>1. CASE Return(r, a)
  BY <1>1, SeqlockAssumption DEF TypeOK, Return, block, writer, process
<1>2. CASE tries[r] = 1 /\ Return(r, Refused)
  BY <1>2, SeqlockAssumption DEF TypeOK, Return, block, writer, process
<1>3. CASE tries[r] # 1 /\ Retry(r)
  <2>1. /\ tries' = [tries EXCEPT ![r] = @ - 1] /\ rpc' = [rpc EXCEPT ![r] = "load"]
        /\ buf' = [buf EXCEPT ![r] = <<>>] /\ seq0' = [seq0 EXCEPT ![r] = 0]
        /\ req' = req
    BY <1>3 DEF Retry
  <2>2. tries[r] - 1 \in 0 .. MaxRetries
    BY <1>3, SeqlockAssumption
  <2>3. /\ tries' \in [Readers -> 0 .. MaxRetries] /\ buf' \in [Readers -> Seq(Int)]
        /\ rpc' \in [Readers -> {"idle", "load", "copy", "check"}]
        /\ seq0' \in [Readers -> Nat]
    BY <2>1, <2>2 DEF TypeOK
  <2>4. QED
    BY <2>1, <2>3 DEF TypeOK, block, writer, process
<1>4. QED
  BY <1>1, <1>2, <1>3 DEF Retry

LEMMA TypeStep ==
  ASSUME IInv, [Next]_vars
  PROVE  TypeOK'
<1> USE DEF IInv
<1>1. CASE ShmOpen
  BY <1>1, EmptyTyped DEF ShmOpen, TypeOK, block, process, locals, Phases
<1>2. CASE ShmBeginWrite
  BY <1>2 DEF ShmBeginWrite, TypeOK, process, locals, Phases
<1>3. CASE WriteHeader
  BY <1>3, SeqlockAssumption
  DEF WriteHeader, TypeOK, process, locals, Phases, Metrics, Board!Metrics
<1>4. ring[wi] \in Ring /\ polls \in Int
  BY DEF TypeOK
<1>5. CASE WriteHead
  BY <1>5, <1>4, PushPiecesTyped DEF WriteHead, WriteRing, TypeOK, process, locals, Phases
<1>6. CASE WriteValue
  BY <1>6, <1>4, PushPiecesTyped DEF WriteValue, WriteRing, TypeOK, process, locals, Phases
<1>7. CASE WriteCurrent
  BY <1>7, <1>4, PushPiecesTyped DEF WriteCurrent, WriteRing, TypeOK, process, locals, Phases
<1>8. CASE WriteExtremes
  <2>1. PushExtremes(ring[wi], polls) \in Ring
    BY <1>4, PushPiecesTyped
  <2>2. wi' \in Metrics
    BY <1>8, SeqlockAssumption DEF WriteExtremes, TypeOK, Metrics, Board!Metrics
  <2>3. QED
    BY <1>8, <2>1, <2>2 DEF WriteExtremes, TypeOK, process, locals, Phases
<1>9. CASE ShmEndWrite
  <2>1. [ts |-> ts, ring |-> ring] \in Board!Block
    BY SameRing DEF TypeOK
  <2>2. QED
    BY <1>9, <2>1 DEF ShmEndWrite, TypeOK, process, locals, Phases
<1>10. CASE ServiceStop
  BY <1>10 DEF ServiceStop, TypeOK, block, locals, Phases
<1>11. CASE ServiceCrash
  BY <1>11, SeqlockAssumption DEF ServiceCrash, TypeOK, block, Phases
<1>12. CASE ShmReaderOpen \/ ShmReaderClose
  BY <1>12 DEF ShmReaderOpen, ShmReaderClose, TypeOK, block, writer, locals
<1>13. ASSUME NEW r \in Readers, NEW q \in Requests, Begin(r, q) PROVE TypeOK'
  BY <1>13, SeqlockAssumption DEF Begin, TypeOK, block, writer, process
<1>14. ASSUME NEW r \in Readers, LoadEven(r) PROVE TypeOK'
  BY <1>14 DEF LoadEven, TypeOK, block, writer, process
<1>15. ASSUME NEW r \in Readers, LoadOdd(r) \/ TornRead(r) PROVE TypeOK'
  <2>1. tries[r] \in 1 .. MaxRetries
    BY <1>15 DEF LoadOdd, TornRead, ReaderInv
  <2>2. Return(r, Refused) \/ Retry(r)
    BY <1>15 DEF LoadOdd, TornRead
  <2>3. UNCHANGED <<block, writer, process, pub>>
    BY <1>15 DEF LoadOdd, TornRead
  <2>4. QED
    BY <2>1, <2>2, <2>3, ReturnTyped
<1>16. ASSUME NEW r \in Readers, CopyWord(r) PROVE TypeOK'
  <2>1. req[r] \in Requests /\ buf[r] \in Seq(Int) /\ Len(buf[r]) < WordsOf(req[r], buf[r])
    BY <1>16 DEF CopyWord, ReaderInv, TypeOK
  <2>2. Append(buf[r], Word(req[r], buf[r], Len(buf[r]) + 1)) \in Seq(Int)
    BY <2>1, WordTyped
  <2>3. QED
    BY <1>16, <2>2 DEF CopyWord, TypeOK, block, writer, process
<1>17. ASSUME NEW r \in Readers, Accept(r) PROVE TypeOK'
  <2>1. tries[r] \in 1 .. MaxRetries
    BY <1>17 DEF Accept, ReaderInv
  <2>2. QED
    BY <1>17, <2>1, ReturnTyped DEF Accept
<1>18. CASE UNCHANGED vars
  BY <1>18 DEF vars, TypeOK, block, writer, process, locals
<1>19. QED
  BY <1>1, <1>2, <1>3, <1>5, <1>6, <1>7, <1>8, <1>9, <1>10, <1>11, <1>12, <1>13, <1>14,
     <1>15, <1>16, <1>17, <1>18 DEF Next, Write, Lifecycle, Read

-----------------------------------------------------------------------------
(* What the readers know. *)

\* A reader whose locals and whose block stay put keeps what it knows.
LEMMA ReaderFrame ==
  ASSUME NEW s \in Readers, ReaderInv(s), UNCHANGED block,
         rpc'[s] = rpc[s], req'[s] = req[s], tries'[s] = tries[s],
         seq0'[s] = seq0[s], buf'[s] = buf[s],
         rpc[s] # "idle" /\ Attached(s) => Attached(s)'
  PROVE  ReaderInv(s)'
BY DEF ReaderInv, Word, WordsOf, block

\* While the number is odd, or as it grows, nothing is claimed of the words.
LEMMA ReaderDuringWrite ==
  ASSUME TypeOK, NEW s \in Readers, ReaderInv(s), UNCHANGED <<locals, clientOpen>>,
         wpc # "down", wpc' # "down",
         \/ write_seq' = write_seq /\ write_seq % 2 = 1
         \/ write_seq' = write_seq + 1
  PROVE  ReaderInv(s)'
<1>1. Attached(s)' <=> Attached(s)
  BY DEF Attached, locals
<1>2. /\ rpc' = rpc /\ req' = req /\ tries' = tries /\ seq0' = seq0 /\ buf' = buf
  BY DEF locals
<1>3. rpc[s] \in {"copy", "check"} /\ s \notin RawReaders =>
        seq0'[s] % 2 = 0 /\ seq0'[s] <= write_seq' /\ seq0'[s] # write_seq'
  BY <1>2 DEF ReaderInv, TypeOK
<1>4. WordsOf(req[s], buf[s])' = WordsOf(req[s], buf[s])
  BY <1>2 DEF WordsOf
<1>5. QED
  BY <1>1, <1>2, <1>3, <1>4 DEF ReaderInv

\* A reader that has returned, or starts another try, knows nothing.
LEMMA ReaderReturned ==
  ASSUME IInv, NEW r \in Readers, NEW a, Return(r, a) \/ (rpc[r] # "idle" /\ Retry(r)),
         UNCHANGED <<block, writer, process>>
  PROVE  \A s \in Readers : ReaderInv(s)'
<1> USE DEF IInv
<1>1. \A s \in Readers : Attached(s)' = Attached(s)
  BY DEF Attached, writer, process
<1>2. ASSUME NEW s \in Readers, s # r PROVE ReaderInv(s)'
  <2>1. /\ rpc'[s] = rpc[s] /\ req'[s] = req[s] /\ tries'[s] = tries[s]
        /\ seq0'[s] = seq0[s] /\ buf'[s] = buf[s]
    BY <1>2 DEF Return, Retry, TypeOK
  <2>2. QED
    BY <2>1, <1>1, ReaderFrame
<1>3. ASSUME NEW b, Return(r, b) PROVE ReaderInv(r)'
  BY <1>3 DEF Return, ReaderInv, TypeOK
<1>4. ASSUME rpc[r] # "idle", tries[r] # 1, Retry(r) PROVE ReaderInv(r)'
  <2>1. /\ tries'[r] = tries[r] - 1 /\ rpc'[r] = "load" /\ buf'[r] = <<>> /\ req' = req
    BY <1>4 DEF Retry, TypeOK
  <2>2. tries[r] \in 1 .. MaxRetries /\ Attached(r) /\ req[r] \in Requests
    BY <1>4 DEF ReaderInv
  <2>3. QED
    BY <1>1, <1>4, <2>1, <2>2, SeqlockAssumption DEF ReaderInv
<1>5. QED
  BY <1>2, <1>3, <1>4 DEF Retry

\* Appending a word leaves the meaning of the words before it.
LEMMA WordStable ==
  ASSUME NEW q \in Requests, NEW b \in Seq(Int), NEW x \in Int, NEW i \in 1 .. Len(b) + 1
  PROVE  Word(q, Append(b, x), i) = Word(q, b, i)
<1>1. CASE i <= 2
  BY <1>1 DEF Word, Requests, Board!Requests
<1>2. CASE i > 2
  <2>1. Append(b, x)[1] = b[1] /\ Append(b, x)[2] = b[2]
    BY <1>2
  <2>2. QED
    BY <2>1 DEF Word
<1>3. QED
  BY <1>1, <1>2

LEMMA CopyKnows ==
  ASSUME IInv, NEW r \in Readers, CopyWord(r)
  PROVE  \A s \in Readers : ReaderInv(s)'
<1> USE DEF IInv
<1> DEFINE q == req[r]
           b == buf[r]
           x == Word(q, b, Len(b) + 1)
           c == Append(b, x)
<1>1. /\ rpc[r] = "copy" /\ q \in Requests /\ b \in Seq(Int) /\ Len(b) < WordsOf(q, b)
      /\ Attached(r) /\ tries[r] \in 1 .. MaxRetries
  BY DEF CopyWord, ReaderInv, TypeOK
<1>2. x \in Int
  BY <1>1, WordTyped
<1>3. \A s \in Readers : Attached(s)' = Attached(s)
  BY DEF CopyWord, Attached, writer, process
<1>4. ASSUME NEW s \in Readers, s # r PROVE ReaderInv(s)'
  <2>1. /\ rpc'[s] = rpc[s] /\ req'[s] = req[s] /\ tries'[s] = tries[s]
        /\ seq0'[s] = seq0[s] /\ buf'[s] = buf[s]
    BY <1>4 DEF CopyWord, TypeOK
  <2>2. QED
    BY <2>1, <1>3, ReaderFrame DEF CopyWord
<1>5. /\ buf'[r] = c /\ req' = req /\ seq0' = seq0 /\ tries' = tries
      /\ rpc'[r] = IF Len(c) < WordsOf(q, c) THEN "copy" ELSE "check"
      /\ UNCHANGED block
  BY DEF CopyWord, TypeOK
<1>6. c \in Seq(Int) /\ Len(c) = Len(b) + 1 /\ c # <<>> /\ Len(b) \in Nat
      /\ \A i \in 1 .. Len(b) : c[i] = b[i]
      /\ c[Len(b) + 1] = x
  BY <1>1, <1>2
<1>7. ~(Len(c) < WordsOf(q, c)) => Len(c) = WordsOf(q, c)
  <2>1. CASE q.what # "history"
    <3>1. q.what \in {"current", "all"}
      BY <1>1, <2>1 DEF Requests, Board!Requests
    <3>2. WordsOf(q, c) = WordsOf(q, b) /\ WordsOf(q, b) \in Nat
      BY <3>1, SeqlockAssumption DEF WordsOf
    <3>3. QED
      BY <1>1, <1>6, <3>2
  <2>2. CASE q.what = "history" /\ b = <<>>
    <3>1. ring[q.metric] \in Ring /\ q.n \in 1 .. Depth
      BY <1>1, <2>2 DEF Requests, Board!Requests, TypeOK, Metrics
    <3>2. x = ring[q.metric].count
      BY <2>2 DEF Word
    <3>3. x \in 0 .. Depth /\ c[1] = x /\ Len(c) = 1
      BY <3>1, <3>2, <1>6, <2>2, RingFields
    <3>4. Available(x, q.n) \in Nat
      BY <3>1, <3>3, DepthAssumption DEF Available
    <3>5. QED
      BY <3>3, <3>4, <2>2, <1>6 DEF WordsOf
  <2>3. CASE q.what = "history" /\ b # <<>>
    <3>1. c[1] = b[1]
      BY <1>1, <1>6, <2>3
    <3>2. WordsOf(q, c) = WordsOf(q, b) /\ WordsOf(q, b) = 2 + Available(b[1], q.n)
      BY <3>1, <1>6, <2>3 DEF WordsOf
    <3>3. b[1] \in Int /\ q.n \in Int
      BY <1>1, <2>3, DepthAssumption DEF Requests, Board!Requests
    <3>4. WordsOf(q, b) \in Int
      BY <3>2, <3>3 DEF Available
    <3>5. QED
      BY <1>1, <1>6, <3>2, <3>4
  <2>4. QED
    BY <2>1, <2>2, <2>3
<1>8. ASSUME r \notin RawReaders, seq0[r] = write_seq, NEW i \in 1 .. Len(c)
      PROVE  c[i] = Word(q, c, i)
  <2>1. Word(q, c, i) = Word(q, b, i)
    BY <1>1, <1>2, <1>6, WordStable
  <2>2. CASE i \in 1 .. Len(b)
    BY <2>1, <2>2, <1>1, <1>6, <1>8 DEF ReaderInv
  <2>3. CASE i = Len(b) + 1
    BY <2>1, <2>3, <1>6
  <2>4. QED
    BY <2>2, <2>3, <1>6
<1>9. \A i \in Int : Word(q, c, i)' = Word(q, c, i)
  BY <1>5 DEF Word, block
<1>10. ReaderInv(r)'
  <2>1. WordsOf(req[r], buf[r])' = WordsOf(q, c)
    BY <1>5 DEF WordsOf
  <2>2. ASSUME NEW i \in 1 .. Len(c) PROVE Word(req[r], buf[r], i)' = Word(q, c, i)
    BY <1>5 DEF Word, block
  <2> HIDE DEF c, x
  <2>3. QED
    BY <1>1, <1>3, <1>5, <1>7, <1>8, <2>1, <2>2 DEF ReaderInv, block
<1>11. QED
  BY <1>4, <1>10

LEMMA ReadersStep ==
  ASSUME IInv, [Next]_vars
  PROVE  \A s \in Readers : ReaderInv(s)'
<1> USE DEF IInv
<1>1. CASE ShmOpen
  <2>1. \A s \in Readers : rpc[s] # "idle" => clientOpen /\ s \in ClientReaders
    BY <1>1 DEF ShmOpen, ReaderInv, Attached
  <2>2. \A s \in Readers : Attached(s) => Attached(s)'
    BY <1>1 DEF ShmOpen, Attached, process
  <2>3. CASE clientOpen
    BY <1>1, <2>2, <2>3, ReaderFrame DEF ShmOpen, locals
  <2>4. CASE ~clientOpen
    BY <1>1, <2>1, <2>4 DEF ShmOpen, locals, ReaderInv
  <2>5. QED
    BY <2>3, <2>4
<1>2. CASE Write
  <2>1. UNCHANGED <<locals, clientOpen>> /\ wpc # "down" /\ wpc' # "down"
    BY <1>2 DEF Write, ShmBeginWrite, WriteHeader, WriteHead, WriteValue, WriteCurrent,
                WriteExtremes, ShmEndWrite, WriteRing, process
  <2>2. CASE ShmBeginWrite \/ ShmEndWrite
    <3>1. write_seq' = write_seq + 1
      BY <2>2 DEF ShmBeginWrite, ShmEndWrite
    <3>2. QED
      BY <2>1, <3>1, ReaderDuringWrite
  <2>3. CASE ~(ShmBeginWrite \/ ShmEndWrite)
    <3>1. write_seq' = write_seq /\ Writing
      BY <1>2, <2>3 DEF Write, WriteHeader, WriteHead, WriteValue, WriteCurrent,
                        WriteExtremes, WriteRing, Writing
    <3>2. write_seq % 2 = 1
      BY <2>1, <3>1 DEF OddDuringWrite, Mapped
    <3>3. QED
      BY <2>1, <3>1, <3>2, ReaderDuringWrite
  <2>4. QED
    BY <2>2, <2>3
<1>3. CASE ServiceStop
  <2>1. \A s \in Readers : rpc[s] # "idle" => Attached(s)'
    BY <1>3 DEF ServiceStop, ReaderInv, Attached, Readers
  <2>2. QED
    BY <1>3, <2>1, ReaderFrame DEF ServiceStop, locals
<1>4. CASE ServiceCrash
  <2>1. ASSUME NEW s \in Readers, s \in ServiceReaders PROVE ReaderInv(s)'
    BY <1>4, <2>1 DEF ServiceCrash, ReaderInv, block
  <2>2. ASSUME NEW s \in Readers, s \notin ServiceReaders PROVE ReaderInv(s)'
    <3>1. Attached(s) => Attached(s)'
      BY <1>4, <2>2 DEF ServiceCrash, Attached, Readers
    <3>2. QED
      BY <1>4, <2>2, <3>1, ReaderFrame DEF ServiceCrash
  <2>3. QED
    BY <2>1, <2>2
<1>5. CASE ShmReaderOpen
  BY <1>5, ReaderFrame DEF ShmReaderOpen, Attached, writer, locals
<1>6. CASE ShmReaderClose
  <2>1. \A s \in Readers : rpc[s] # "idle" /\ Attached(s) => Attached(s)'
    BY <1>6 DEF ShmReaderClose, Attached, Readers, writer
  <2>2. QED
    BY <1>6, <2>1, ReaderFrame DEF ShmReaderClose, locals
<1>7. ASSUME NEW r \in Readers, NEW q \in Requests, Begin(r, q)
      PROVE  \A s \in Readers : ReaderInv(s)'
  <2>1. \A s \in Readers : Attached(s)' = Attached(s)
    BY <1>7 DEF Begin, Attached, writer, process
  <2>2. ASSUME NEW s \in Readers, s # r PROVE ReaderInv(s)'
    <3>1. /\ rpc'[s] = rpc[s] /\ req'[s] = req[s] /\ tries'[s] = tries[s]
          /\ seq0'[s] = seq0[s] /\ buf'[s] = buf[s]
      BY <1>7, <2>2 DEF Begin, TypeOK
    <3>2. QED
      BY <1>7, <2>1, <3>1, ReaderFrame DEF Begin
  <2>3. ReaderInv(r)'
    <3>1. /\ rpc[r] = "idle" /\ buf'[r] = <<>> /\ req'[r] = q /\ tries'[r] = MaxRetries
          /\ rpc'[r] = IF r \in RawReaders THEN "copy" ELSE "load"
          /\ Attached(r)'
      BY <1>7, <2>1 DEF Begin, TypeOK, ReaderInv
    <3>2. WordsOf(q, <<>>) > 0
      BY SeqlockAssumption DEF WordsOf, Requests, Board!Requests
    <3>3. WordsOf(req[r], buf[r])' = WordsOf(q, <<>>)
      BY <3>1 DEF WordsOf
    <3>4. QED
      BY <3>1, <3>2, <3>3, SeqlockAssumption DEF ReaderInv
  <2>4. QED
    BY <2>2, <2>3
<1>8. ASSUME NEW r \in Readers, LoadEven(r)
      PROVE  \A s \in Readers : ReaderInv(s)'
  <2>1. \A s \in Readers : Attached(s)' = Attached(s)
    BY <1>8 DEF LoadEven, Attached, writer, process
  <2>2. ASSUME NEW s \in Readers, s # r PROVE ReaderInv(s)'
    <3>1. /\ rpc'[s] = rpc[s] /\ req'[s] = req[s] /\ tries'[s] = tries[s]
          /\ seq0'[s] = seq0[s] /\ buf'[s] = buf[s]
      BY <1>8, <2>2 DEF LoadEven, TypeOK
    <3>2. QED
      BY <1>8, <2>1, <3>1, ReaderFrame DEF LoadEven
  <2>3. ReaderInv(r)'
    <3>1. /\ rpc[r] = "load" /\ rpc'[r] = "copy" /\ buf[r] = <<>> /\ buf' = buf /\ req' = req
          /\ tries' = tries /\ seq0'[r] = write_seq /\ write_seq' = write_seq
          /\ write_seq % 2 = 0
          /\ req[r] \in Requests /\ tries[r] \in 1 .. MaxRetries /\ Attached(r)'
      BY <1>8, <2>1 DEF LoadEven, Stable, TypeOK, ReaderInv, block
    <3>2. WordsOf(req[r], <<>>) > 0
      BY <3>1, SeqlockAssumption DEF WordsOf, Requests, Board!Requests
    <3>3. WordsOf(req[r], buf[r])' = WordsOf(req[r], <<>>)
      BY <3>1 DEF WordsOf
    <3>4. QED
      BY <3>1, <3>2, <3>3 DEF ReaderInv, TypeOK
  <2>4. QED
    BY <2>2, <2>3
<1>9. ASSUME NEW r \in Readers, LoadOdd(r) \/ Accept(r) \/ TornRead(r)
      PROVE  \A s \in Readers : ReaderInv(s)'
  <2>1. rpc[r] # "idle" /\ UNCHANGED <<block, writer, process>>
    BY <1>9 DEF LoadOdd, Accept, TornRead
  <2>2. Retry(r) \/ (\E a : Return(r, a))
    BY <1>9 DEF LoadOdd, Accept, TornRead
  <2>3. QED
    BY <2>1, <2>2, ReaderReturned
<1>10. ASSUME NEW r \in Readers, CopyWord(r)
       PROVE  \A s \in Readers : ReaderInv(s)'
  BY <1>10, CopyKnows
<1>11. CASE UNCHANGED vars
  BY <1>11, ReaderFrame DEF vars, locals, Attached, writer, process
<1>12. QED
  BY <1>1, <1>2, <1>3, <1>4, <1>5, <1>6, <1>7, <1>8, <1>9, <1>10, <1>11
  DEF Next, Lifecycle, Read

-----------------------------------------------------------------------------
(* The writer's progress, and the parity of the number. *)

ReaderStep == UNCHANGED <<block, writer, process, pub>>

LEMMA ReadIsReaderStep ==
  ASSUME NEW r \in Readers, Read(r)
  PROVE  ReaderStep
BY DEF Read, Begin, LoadEven, LoadOdd, CopyWord, Accept, TornRead, ReaderStep

LEMMA Parity == \A n \in Nat : n % 2 \in {0, 1} /\ ((n + 1) % 2 = 1 <=> n % 2 = 0)
OBVIOUS

LEMMA OddStep ==
  ASSUME IInv, ~CrashMidWrite, [Next]_vars
  PROVE  OddDuringWrite'
<1> USE DEF IInv, OddDuringWrite, Mapped, Writing
<1>1. CASE ShmOpen
  BY <1>1 DEF ShmOpen, process, block
<1>2. CASE ShmBeginWrite \/ ShmEndWrite
  <2>1. write_seq' = write_seq + 1 /\ write_seq \in Nat /\ wpc # "down" /\ wpc' # "down"
    BY <1>2 DEF ShmBeginWrite, ShmEndWrite, TypeOK
  <2>2. (wpc' = "idle") <=> (wpc # "idle")
    BY <1>2 DEF ShmBeginWrite, ShmEndWrite
  <2>3. (write_seq' % 2 = 1) <=> ~(write_seq % 2 = 1)
    BY <2>1, Parity
  <2>4. QED
    BY <2>1, <2>2, <2>3
<1>3. CASE WriteHeader \/ WriteHead \/ WriteValue \/ WriteCurrent \/ WriteExtremes
  BY <1>3 DEF WriteHeader, WriteHead, WriteValue, WriteCurrent, WriteExtremes, WriteRing, process
<1>4. CASE ServiceStop \/ ServiceCrash
  BY <1>4 DEF ServiceStop, ServiceCrash, block
<1>5. CASE ShmReaderOpen \/ ShmReaderClose
  BY <1>5 DEF ShmReaderOpen, ShmReaderClose, block, writer
<1>6. CASE ReaderStep \/ UNCHANGED vars
  BY <1>6 DEF ReaderStep, vars, block, writer, process
<1>7. QED
  BY <1>1, <1>2, <1>3, <1>4, <1>5, <1>6, ReadIsReaderStep DEF Next, Write, Lifecycle

\* The board at the end of a poll is the one before it with one push a ring.
LEMMA EndBoard ==
  ASSUME TypeOK, WriterInv, Mapped, wpc = "end"
  PROVE  /\ ts = polls /\ pub.ts < polls /\ polls \in 1 .. MaxPolls
         /\ ring = [m \in Metrics |-> Push(pub.ring[m], polls)]
<1>1. pub.ts \in Nat
  BY SameRing DEF TypeOK
<1>2. QED
  BY <1>1, SeqlockAssumption DEF TypeOK, WriterInv

LEMMA WriterStep ==
  ASSUME IInv, ~CrashMidWrite, [Next]_vars
  PROVE  WriterInv'
<1> USE DEF IInv
<1>1. /\ pub.ts \in Nat /\ pub.ring \in [Metrics -> Ring] /\ polls \in Nat
      /\ ring \in [Metrics -> Ring] /\ wi \in Metrics /\ Metrics = 1 .. NumMetrics
  BY SameRing DEF TypeOK, Metrics, Board!Metrics
<1>2. CASE ShmOpen
  <2>1. CASE clientOpen
    BY <1>2, <2>1 DEF ShmOpen, WriterInv, Mapped, process, block
  <2>2. CASE ~clientOpen
    <3>1. pub'.ts = 0 /\ pub'.ring = ring' /\ ts' = 0
      BY <1>2, <2>2, SameRing DEF ShmOpen, Board!EmptyBlock, Metrics
    <3>2. QED
      BY <1>1, <1>2, <3>1 DEF ShmOpen, WriterInv
  <2>3. QED
    BY <2>1, <2>2
<1>3. CASE ShmBeginWrite
  <2>1. Mapped /\ pub' = pub /\ ts' = ts /\ ring' = ring /\ wpc' = "header" /\ polls' = polls + 1
        /\ polls < MaxPolls /\ wpc = "idle"
    BY <1>3 DEF ShmBeginWrite, Mapped
  <2>2. QED
    BY <1>1, <2>1, SeqlockAssumption DEF WriterInv
<1>4. CASE WriteHeader
  <2>1. Mapped /\ pub' = pub /\ ts' = polls /\ ring' = ring /\ wpc' = "head" /\ polls' = polls
        /\ wi' = 1 /\ wpc = "header"
    BY <1>4 DEF WriteHeader, Mapped
  <2>2. \A m \in Metrics : InProgress(m)' = pub.ring[m]
    BY <2>1 DEF InProgress
  <2>3. \A m \in Metrics : ring'[m] = IF m < wi' THEN Push(pub.ring[m], polls)
                                    ELSE IF m = wi' THEN InProgress(m)' ELSE pub.ring[m]
    <3>1. ring = pub.ring
      BY <2>1 DEF WriterInv
    <3>2. \A m \in Metrics : ~(m < 1)
      BY <1>1, SeqlockAssumption
    <3>3. QED
      BY <2>1, <2>2, <3>1, <3>2
  <2>4. pub.ts < polls /\ polls <= MaxPolls
    BY <2>1 DEF WriterInv
  <2>5. QED
    BY <2>1, <2>3, <2>4 DEF WriterInv
<1>5. ASSUME NEW from \in {"head", "value", "current"}, NEW to \in {"value", "current", "extremes"},
             NEW new, WriteRing(from, to, new),
             \A m \in Metrics : wi = m => InProgress(m)' = new
      PROVE  WriterInv'
  <2>1. Mapped /\ pub' = pub /\ ts' = ts /\ wpc' = to /\ polls' = polls
        /\ wi' = wi /\ wpc = from /\ ring' = [ring EXCEPT ![wi] = new]
    BY <1>5 DEF WriteRing, Mapped
  <2>2. \A m \in Metrics : ring'[m] = IF m = wi THEN new ELSE ring[m]
    BY <1>1, <2>1
  <2>3. QED
    BY <1>1, <1>5, <2>1, <2>2 DEF WriterInv
<1>6. wpc \in {"head", "value", "current", "extremes"} => ring[wi] = InProgress(wi)
  BY <1>1 DEF WriterInv, Mapped
<1>7. CASE WriteHead
  <2>1. wpc = "head" /\ wpc' = "value" /\ pub' = pub /\ polls' = polls
    BY <1>7 DEF WriteHead, WriteRing
  <2>2. ring[wi] = pub.ring[wi]
    BY <1>6, <2>1 DEF InProgress
  <2>3. \A m \in Metrics : wi = m => InProgress(m)' = PushHead(ring[wi])
    BY <2>1, <2>2 DEF InProgress
  <2>4. QED
    BY <1>5, <1>7, <2>3 DEF WriteHead
<1>8. CASE WriteValue
  <2>1. wpc = "value" /\ wpc' = "current" /\ pub' = pub /\ polls' = polls
    BY <1>8 DEF WriteValue, WriteRing
  <2>2. ring[wi] = PushHead(pub.ring[wi])
    BY <1>6, <2>1 DEF InProgress
  <2>3. \A m \in Metrics : wi = m => InProgress(m)' = PushValue(ring[wi], polls)
    BY <2>1, <2>2 DEF InProgress
  <2>4. QED
    BY <1>5, <1>8, <2>3 DEF WriteValue
<1>9. CASE WriteCurrent
  <2>1. wpc = "current" /\ wpc' = "extremes" /\ pub' = pub /\ polls' = polls
    BY <1>9 DEF WriteCurrent, WriteRing
  <2>2. ring[wi] = PushValue(PushHead(pub.ring[wi]), polls)
    BY <1>6, <2>1 DEF InProgress
  <2>3. \A m \in Metrics : wi = m => InProgress(m)' = PushCurrent(ring[wi], polls)
    BY <2>1, <2>2 DEF InProgress
  <2>4. QED
    BY <1>5, <1>9, <2>3 DEF WriteCurrent
<1>10. CASE WriteExtremes
  <2>1. Mapped /\ pub' = pub /\ ts' = ts /\ polls' = polls /\ wpc = "extremes"
    BY <1>10 DEF WriteExtremes, Mapped
  <2>2. PushExtremes(ring[wi], polls) = Push(pub.ring[wi], polls)
    BY <1>6, <2>1 DEF InProgress, Push
  <2>3. \A m \in Metrics : ring'[m] = IF m = wi THEN Push(pub.ring[wi], polls) ELSE ring[m]
    BY <1>1, <1>10, <2>2 DEF WriteExtremes
  <2>4. CASE wi < NumMetrics
    <3>1. wi' = wi + 1 /\ wpc' = "head"
      BY <1>10, <2>4 DEF WriteExtremes
    <3>2. \A m \in Metrics : InProgress(m)' = pub.ring[m]
      BY <2>1, <3>1 DEF InProgress
    <3>3. \A m \in Metrics : ring'[m] = IF m < wi' THEN Push(pub.ring[m], polls)
                                      ELSE IF m = wi' THEN InProgress(m)' ELSE pub.ring[m]
      BY <1>1, <2>1, <2>3, <3>1, <3>2 DEF WriterInv
    <3>4. QED
      BY <1>1, <2>1, <3>1, <3>3 DEF WriterInv
  <2>5. CASE ~(wi < NumMetrics)
    <3>1. wpc' = "end"
      BY <1>10, <2>5 DEF WriteExtremes
    <3>4. \A m \in Metrics : m < wi => ring[m] = Push(pub.ring[m], polls)
      BY <1>1, <2>1 DEF WriterInv
    <3>5. \A m \in Metrics : m < wi \/ m = wi
      BY <1>1, <2>5, SeqlockAssumption
    <3>2. \A m \in Metrics : ring'[m] = Push(pub.ring[m], polls)
      BY <2>3, <3>4, <3>5
    <3>3. QED
      BY <1>1, <2>1, <3>1, <3>2 DEF WriterInv
  <2>6. QED
    BY <2>4, <2>5
<1>11. CASE ShmEndWrite
  <2>1. /\ wpc = "end" /\ Mapped /\ wpc' = "idle" /\ pub' = [ts |-> ts, ring |-> ring]
        /\ ts' = ts /\ ring' = ring /\ polls' = polls
    BY <1>11 DEF ShmEndWrite, Mapped
  <2>2. ts = polls
    BY <2>1 DEF WriterInv
  <2>3. QED
    BY <1>1, <2>1, <2>2 DEF WriterInv
<1>12. CASE ServiceStop \/ ServiceCrash
  <2>1. /\ wpc # "down" /\ wpc' = "down" /\ clientOpen' = clientOpen
        /\ ts' = ts /\ ring' = ring /\ pub' = pub /\ polls' = polls
        /\ clientOpen => wpc = "idle"
    BY <1>12 DEF ServiceStop, ServiceCrash, block, Writing
  <2>2. QED
    BY <1>1, <2>1 DEF WriterInv, Mapped
<1>13. CASE ShmReaderOpen \/ ShmReaderClose
  <2>1. /\ Mapped' => Mapped
        /\ wpc' = wpc /\ wi' = wi /\ ts' = ts /\ ring' = ring /\ pub' = pub /\ polls' = polls
    BY <1>13 DEF ShmReaderOpen, ShmReaderClose, block, writer, Mapped
  <2>2. QED
    BY <2>1 DEF WriterInv, InProgress
<1>14. CASE ReaderStep \/ UNCHANGED vars
  BY <1>14 DEF ReaderStep, vars, block, writer, process, WriterInv, InProgress, Mapped
<1>15. QED
  BY <1>2, <1>3, <1>4, <1>7, <1>8, <1>9, <1>10, <1>11, <1>12, <1>13, <1>14, ReadIsReaderStep
  DEF Next, Write, Lifecycle

LEMMA BoardStep ==
  ASSUME IInv, [Next]_vars
  PROVE  BoardInv'
<1> USE DEF IInv
<1>1. pub.ring \in [Metrics -> Ring] /\ 1 \in Metrics
  BY SameRing, SeqlockAssumption DEF TypeOK, Metrics, Board!Metrics
<1>2. CASE pub' = pub
  BY <1>2 DEF BoardInv
<1>3. CASE pub' = Board!EmptyBlock
  BY <1>1, <1>3, SameRing DEF BoardInv, Board!EmptyBlock, EmptyRing, Metrics
<1>4. CASE ShmEndWrite
  <2>1. pub' = [ts |-> polls, ring |-> [m \in Metrics |-> Push(pub.ring[m], polls)]]
    BY <1>4, EndBoard DEF ShmEndWrite, Mapped
  <2>2. ASSUME NEW m \in Metrics
        PROVE  /\ pub'.ring[m].current = pub'.ts
               /\ pub'.ring[m].count = pub'.ring[1].count
               /\ pub'.ring[m].values[pub'.ring[m].head] = pub'.ts
    <3>1. /\ pub'.ring[m] = Push(pub.ring[m], polls) /\ pub'.ring[1] = Push(pub.ring[1], polls)
          /\ pub'.ts = polls /\ pub.ring[m] \in Ring /\ pub.ring[1] \in Ring /\ polls \in Int
          /\ pub.ring[m].count = pub.ring[1].count
      BY <1>1, <2>1 DEF TypeOK, BoardInv
    <3> DEFINE h == (pub.ring[m].head + 1) % Depth
    <3>2. /\ Push(pub.ring[m], polls).current = polls
          /\ Push(pub.ring[m], polls).count = Push(pub.ring[1], polls).count
          /\ Push(pub.ring[m], polls).head = h /\ Push(pub.ring[m], polls) \in Ring
          /\ Push(pub.ring[m], polls).values = [pub.ring[m].values EXCEPT ![h] = polls]
      <4>1. /\ Push(pub.ring[m], polls).current = polls
            /\ Push(pub.ring[m], polls).head = h /\ Push(pub.ring[m], polls) \in Ring
            /\ Push(pub.ring[m], polls).values = [pub.ring[m].values EXCEPT ![h] = polls]
            /\ Push(pub.ring[m], polls).count =
                 IF pub.ring[m].count < Depth THEN pub.ring[m].count + 1 ELSE pub.ring[m].count
        BY <3>1, PushFields
      <4>2. Push(pub.ring[1], polls).count =
              IF pub.ring[1].count < Depth THEN pub.ring[1].count + 1 ELSE pub.ring[1].count
        BY <3>1, PushFields
      <4>3. QED
        BY <3>1, <4>1, <4>2
    <3>3. h \in Slots /\ pub.ring[m].values \in [Slots -> Int]
      BY <3>1, <3>2, RingFields
    <3>4. QED
      BY <3>1, <3>2, <3>3
  <2>3. QED
    BY <2>2 DEF BoardInv
<1>5. ~ShmEndWrite => pub' = pub \/ pub' = Board!EmptyBlock
  BY ReadIsReaderStep
  DEF Next, Write, Lifecycle, ShmOpen, ShmBeginWrite, WriteHeader, WriteHead, WriteValue,
      WriteCurrent, WriteExtremes, WriteRing, ServiceStop, ServiceCrash, ShmReaderOpen,
      ShmReaderClose, ReaderStep, vars
<1>6. QED
  BY <1>2, <1>3, <1>4, <1>5

LEMMA AnswerStep ==
  ASSUME IInv, [Next]_vars
  PROVE  AnswerInv'
<1> USE DEF IInv, AnswerInv
<1>1. CASE ServiceCrash
  BY <1>1 DEF ServiceCrash
<1>2. ASSUME NEW r \in Readers, Read(r) PROVE AnswerInv'
  BY <1>2 DEF Read, Begin, LoadEven, LoadOdd, CopyWord, Accept, TornRead, Retry, Return
<1>3. CASE answer' = answer
  BY <1>3
<1>4. QED
  BY <1>1, <1>2, <1>3
  DEF Next, Write, Lifecycle, ShmOpen, ShmBeginWrite, WriteHeader, WriteHead, WriteValue,
      WriteCurrent, WriteExtremes, WriteRing, ShmEndWrite, ServiceStop, ShmReaderOpen,
      ShmReaderClose, vars

-----------------------------------------------------------------------------
LEMMA InitIInv == Init => IInv
<1> SUFFICES ASSUME Init PROVE IInv
  OBVIOUS
<1>1. TypeOK
  <2>1. 1 \in Metrics /\ 0 \in 0 .. MaxRetries
    BY SeqlockAssumption DEF Metrics, Board!Metrics
  <2>2. ring \in [Metrics -> Ring] /\ pub \in Board!Block
    BY EmptyTyped DEF Init
  <2>3. tries \in [Readers -> 0 .. MaxRetries] /\ buf \in [Readers -> Seq(Int)]
    BY <2>1 DEF Init
  <2>4. QED
    BY <2>1, <2>2, <2>3 DEF Init, TypeOK, Phases
<1>2. /\ Board!EmptyBlock.ts = 0
      /\ \A m \in Metrics : Board!EmptyBlock.ring[m] = EmptyRing
  BY SameRing DEF Board!EmptyBlock, Metrics
<1>3. 1 \in Metrics
  BY SeqlockAssumption DEF Metrics, Board!Metrics
<1>4. BoardInv
  BY <1>2, <1>3 DEF Init, BoardInv, EmptyRing
<1>5. QED
  BY <1>1, <1>4, SeqlockAssumption DEF Init, IInv, AnswerInv, OddDuringWrite, Mapped, WriterInv, ReaderInv

THEOREM SeqlockInductive ==
  ASSUME ~CrashMidWrite
  PROVE  Spec => []IInv
<1>1. Init => IInv
  BY InitIInv
<1>2. IInv /\ [Next]_vars => IInv'
  <2> SUFFICES ASSUME IInv, [Next]_vars PROVE IInv'
    OBVIOUS
  <2>1. TypeOK'
    BY TypeStep
  <2>2. \A s \in Readers : ReaderInv(s)'
    BY ReadersStep
  <2>3. OddDuringWrite' /\ WriterInv' /\ BoardInv' /\ AnswerInv'
    BY OddStep, WriterStep, BoardStep, AnswerStep
  <2>4. QED
    BY <2>1, <2>2, <2>3 DEF IInv
<1>3. QED
  BY <1>1, <1>2, PTL DEF Spec

\* Types, and the parity of write_seq, whatever the readers do.
THEOREM TypeCorrect ==
  ASSUME ~CrashMidWrite
  PROVE  Spec => [](TypeOK /\ OddDuringWrite)
BY SeqlockInductive, PTL DEF IInv

\* A reader of an even number sees the rings of one poll.
THEOREM EvenBlockCorrect ==
  ASSUME ~CrashMidWrite
  PROVE  Spec => []EvenBlockIsOnePoll
<1>1. ASSUME IInv PROVE EvenBlockIsOnePoll
  <2>1. SUFFICES ASSUME Mapped, write_seq % 2 = 0 PROVE EvenBlockIsOnePoll
    BY DEF EvenBlockIsOnePoll
  <2>2. wpc \in {"down", "idle"}
    BY <1>1, <2>1 DEF IInv, OddDuringWrite, Writing
  <2>3. ts = pub.ts /\ ring = pub.ring
    BY <1>1, <2>1, <2>2 DEF IInv, WriterInv
  <2>4. QED
    BY <1>1, <2>3 DEF IInv, BoardInv, EvenBlockIsOnePoll
<1>2. QED
  BY <1>1, SeqlockInductive, PTL

-----------------------------------------------------------------------------
(* What a reader accepts, and the refinement. *)

\* A reader that finds the number unchanged has loaded the answer to its
\* request from the block as it is.
LEMMA AcceptedWords ==
  ASSUME IInv, NEW r \in Readers, r \notin RawReaders, rpc[r] = "check", write_seq = seq0[r]
  PROVE  Result(req[r], buf[r]) = Board!AnswerTo([ts |-> ts, ring |-> ring], req[r])
<1> USE DEF IInv
<1> DEFINE q == req[r]
           b == buf[r]
           now == [ts |-> ts, ring |-> ring]
<1>1. /\ q \in Requests /\ b \in Seq(Int) /\ Len(b) = WordsOf(q, b)
      /\ \A i \in 1 .. Len(b) : b[i] = Word(q, b, i)
  BY DEF ReaderInv, TypeOK
<1>2. b = [i \in 1 .. Len(b) |-> b[i]] /\ Len(b) \in Nat
  BY <1>1
<1>3. CASE q.what = "current"
  <2>1. Len(b) = 1 /\ b[1] = ring[q.metric].current
    BY <1>1, <1>3 DEF WordsOf, Word
  <2>2. b = <<ring[q.metric].current>>
    BY <1>1, <2>1
  <2>3. QED
    BY <1>3, <2>2 DEF Result, Board!AnswerTo
<1>4. CASE q.what = "all"
  <2>1. Len(b) = NumMetrics + 1
    BY <1>1, <1>4 DEF WordsOf
  <2>2. \A i \in 1 .. NumMetrics + 1 : b[i] = IF i = 1 THEN ts ELSE ring[i - 1].current
    BY <1>1, <1>4, <2>1 DEF Word
  <2>3. b = [i \in 1 .. NumMetrics + 1 |-> IF i = 1 THEN ts ELSE ring[i - 1].current]
    BY <1>2, <2>1, <2>2
  <2>4. QED
    BY <1>4, <2>3 DEF Result, Board!AnswerTo
<1>5. CASE q.what = "history"
  <2> DEFINE rg == ring[q.metric]
             av == Available(rg.count, q.n)
  <2>1. rg \in Ring /\ q.n \in 1 .. Depth
    BY <1>1, <1>5 DEF Requests, Board!Requests, TypeOK, Metrics
  <2>2. b # <<>>
    <3>1. SUFFICES ASSUME b = <<>> PROVE FALSE
      OBVIOUS
    <3>2. WordsOf(q, b) = 2
      BY <1>5, <3>1 DEF WordsOf
    <3>3. QED
      BY <1>1, <3>1, <3>2
  <2>3. Len(b) = 2 + Available(b[1], q.n) /\ b[1] = rg.count
    BY <1>1, <1>2, <1>5, <2>2 DEF WordsOf, Word
  <2>4. av \in Nat /\ Len(b) = 2 + av
    BY <2>1, <2>3, RingFields, DepthAssumption DEF Available
  <2>5. b[2] = rg.head
    BY <1>1, <1>5, <2>4 DEF Word
  <2>6. ASSUME NEW i \in 1 .. av
        PROVE  b[i + 2] = rg.values[SlotOf(rg.head, av, i - 1)]
    <3>1. i + 2 \in 1 .. Len(b) /\ i + 2 # 1 /\ i + 2 # 2 /\ (i + 2) - 3 = i - 1
      BY <2>4
    <3>2. b[i + 2] = Word(q, b, i + 2)
      BY <1>1, <3>1
    <3>3. QED
      BY <1>5, <2>3, <2>5, <3>1, <3>2 DEF Word
  <2>7. Result(q, b) = [i \in 1 .. av |-> b[i + 2]]
    BY <1>5, <2>4 DEF Result
  <2>8. Result(q, b) = ReadLast(rg, q.n)
    BY <2>6, <2>7 DEF ReadLast
  <2>9. QED
    BY <1>5, <2>8, SameRing DEF Board!AnswerTo
<1>6. QED
  BY <1>1, <1>3, <1>4, <1>5 DEF Requests, Board!Requests

\* Whatever the interleaving, a read the code is about to accept is the
\* answer the block gives now.
THEOREM AcceptedReadCorrect ==
  ASSUME ~CrashMidWrite
  PROVE  Spec => []AcceptedReadIsCurrent
<1>1. ASSUME IInv PROVE AcceptedReadIsCurrent
  BY <1>1, AcceptedWords DEF AcceptedReadIsCurrent
<1>2. QED
  BY <1>1, SeqlockInductive, PTL

\* A reader that finds the number unchanged finds the last board.
LEMMA BlockIsBoard ==
  ASSUME IInv, NEW r \in Readers, r \notin RawReaders, rpc[r] = "check", write_seq = seq0[r]
  PROVE  [ts |-> ts, ring |-> ring] = pub
<1> USE DEF IInv
<1>1. Mapped /\ write_seq % 2 = 0
  BY DEF ReaderInv, Attached, Mapped
<1>2. wpc \in {"down", "idle"}
  BY <1>1 DEF OddDuringWrite, Writing
<1>3. ts = pub.ts /\ ring = pub.ring
  BY <1>1, <1>2 DEF WriterInv
<1>4. QED
  BY <1>3, SameRing DEF TypeOK

\* The return of a call is a step of the board's reader.
LEMMA ReturnAnswers ==
  ASSUME IInv, NEW r \in Readers, NEW a, Return(r, a), UNCHANGED pub,
         a = Refused \/ \E q \in Requests : a = Board!AnswerTo(pub, q)
  PROVE  Board!Answer(r)
BY DEF Return, Board!Answer, Requests

LEMMA ReaderRefines ==
  ASSUME IInv, RawReaders = {}, NEW r \in Readers, Read(r)
  PROVE  [Board!Next]_(Board!vars)
<1> USE DEF IInv
<1>1. pub' = pub
  BY ReadIsReaderStep DEF ReaderStep
<1>2. ASSUME NEW q \in Requests, Begin(r, q) PROVE Board!Forget({r})
  BY <1>1, <1>2 DEF Begin, Board!Forget, AnswerInv
<1>3. CASE LoadEven(r) \/ CopyWord(r)
  BY <1>1, <1>3 DEF LoadEven, CopyWord, Board!vars
<1>4. CASE LoadOdd(r) \/ TornRead(r)
  <2>1. Return(r, Refused) \/ answer' = answer
    BY <1>4 DEF LoadOdd, TornRead, Retry
  <2>2. QED
    BY <1>1, <2>1, ReturnAnswers DEF Board!Next, Board!vars
<1>5. CASE Accept(r)
  <2>1. rpc[r] = "check" /\ write_seq = seq0[r] /\ Return(r, Result(req[r], buf[r]))
    BY <1>5 DEF Accept, Consistent
  <2>2. req[r] \in Requests
    BY <2>1 DEF ReaderInv
  <2>3. Result(req[r], buf[r]) = Board!AnswerTo(pub, req[r])
    BY <2>1, AcceptedWords, BlockIsBoard
  <2>4. QED
    BY <1>1, <2>1, <2>2, <2>3, ReturnAnswers DEF Board!Next
<1>6. QED
  BY <1>2, <1>3, <1>4, <1>5 DEF Read, Board!Next

LEMMA StepRefines ==
  ASSUME IInv, ~CrashMidWrite, RawReaders = {}, [Next]_vars
  PROVE  [Board!Next]_(Board!vars)
<1> USE DEF IInv
<1>1. CASE ShmOpen
  BY <1>1 DEF ShmOpen, Board!Recreate, Board!Next, Board!vars
<1>2. CASE ShmEndWrite
  <2>1. /\ polls \in 1 .. MaxPolls /\ polls > pub.ts
        /\ pub' = [ts |-> polls, ring |-> [m \in Metrics |-> Push(pub.ring[m], polls)]]
        /\ answer' = answer
    <3>1. pub.ts \in Nat
      BY SameRing DEF TypeOK
    <3>2. QED
      BY <1>2, <3>1, EndBoard DEF ShmEndWrite, Mapped
  <2>2. QED
    BY <2>1, SameRing DEF Board!Publish, Board!Next, Metrics
<1>3. CASE ServiceCrash
  <2>1. ServiceReaders \in SUBSET Readers
    BY DEF Readers
  <2>2. Board!Forget(ServiceReaders)
    BY <1>3 DEF ServiceCrash, Board!Forget
  <2>3. QED
    BY <2>1, <2>2 DEF Board!Next
<1>4. ASSUME NEW r \in Readers, Read(r) PROVE [Board!Next]_(Board!vars)
  BY <1>4, ReaderRefines
<1>5. CASE answer' = answer /\ pub' = pub
  BY <1>5 DEF Board!vars
<1>6. QED
  BY <1>1, <1>2, <1>3, <1>4, <1>5
  DEF Next, Write, Lifecycle, ShmBeginWrite, WriteHeader, WriteHead, WriteValue,
      WriteCurrent, WriteExtremes, WriteRing, ServiceStop, ShmReaderOpen,
      ShmReaderClose, vars

\* With the lock-free route left out, the block and its readers implement
\* the atomic board.
THEOREM SeqlockRefines ==
  ASSUME ~CrashMidWrite, RawReaders = {}
  PROVE  Spec => ImplementsBoard
<1>1. Init => Board!Init
  BY DEF Init, Board!Init
<1>2. IInv /\ [Next]_vars => [Board!Next]_(Board!vars)
  BY StepRefines
<1>3. QED
  BY <1>1, <1>2, SeqlockInductive, PTL DEF Spec, Board!Spec, ImplementsBoard
=============================================================================
