------------------------- MODULE Subsequences_proof -------------------------
(***************************************************************************)
(* What is left of a list when elements are erased from it: facts that the *)
(* proofs about the session store, the watcher and the key store use.      *)
(***************************************************************************)
EXTENDS Subsequences, SequencesExt, FiniteSetTheorems, SequenceTheorems,
        WellFoundedInduction, TLAPS

\* r is s without its i-th element, those after it moved up by one.
IsWithout(r, S, s, i) ==
  /\ r \in Seq(S) /\ Len(r) = Len(s) - 1
  /\ \A k \in 1 .. Len(r) : r[k] = IF k < i THEN s[k] ELSE s[k + 1]

\* Erasing an element is that.
LEMMA RemoveAtFacts ==
  ASSUME NEW S, NEW s \in Seq(S), NEW i \in 1 .. Len(s), NEW r, r = RemoveAt(s, i)
  PROVE  IsWithout(r, S, s, i)
<1> DEFINE a == SubSeq(s, 1, i - 1)
           b == SubSeq(s, i + 1, Len(s))
<1>1. a \in Seq(S) /\ Len(a) = i - 1 /\ \A k \in 1 .. i - 1 : a[k] = s[k]
  OBVIOUS
<1>2. b \in Seq(S) /\ Len(b) = Len(s) - i /\ \A k \in 1 .. Len(s) - i : b[k] = s[k + i]
  OBVIOUS
<1>3. r = a \o b
  BY DEF RemoveAt
<1> HIDE DEF a, b
<1>8. Len(s) \in Nat /\ Len(a) + Len(b) = Len(s) - 1
  BY <1>1, <1>2
<1>9. /\ r \in Seq(S) /\ Len(r) = Len(a) + Len(b)
      /\ \A k \in 1 .. Len(a) + Len(b) : r[k] = IF k <= Len(a) THEN a[k] ELSE b[k - Len(a)]
  <2>1. a \in Seq(S) /\ b \in Seq(S)
    BY <1>1, <1>2
  <2>2. /\ a \o b \in Seq(S) /\ Len(a \o b) = Len(a) + Len(b)
        /\ \A k \in 1 .. Len(a) + Len(b) : (a \o b)[k] = IF k <= Len(a) THEN a[k] ELSE b[k - Len(a)]
    BY <2>1, ConcatProperties
  <2>3. QED
    BY <2>2, <1>3
<1>4. /\ r \in Seq(S) /\ Len(r) = Len(s) - 1
      /\ \A k \in 1 .. Len(r) : k < i => r[k] = a[k]
      /\ \A k \in i .. Len(r) : r[k] = b[k - (i - 1)]
  BY <1>1, <1>8, <1>9
<1>5. \A k \in i .. Len(r) : k - (i - 1) \in 1 .. Len(s) - i /\ k - (i - 1) + i = k + 1
  BY <1>4
<1>6. \A k \in i .. Len(r) : r[k] = s[k + 1]
  BY <1>2, <1>4, <1>5
<1>7. QED
  BY <1>1, <1>4, <1>6 DEF IsWithout

\* Of different elements one is gone.
LEMMA RemovedRange ==
  ASSUME NEW S, NEW s \in Seq(S), \A i, j \in DOMAIN s : s[i] = s[j] => i = j,
         NEW n \in DOMAIN s, NEW r, r = RemoveAt(s, n)
  PROVE  Range(r) = Range(s) \ {s[n]}
<1>1. DOMAIN s = 1 .. Len(s) /\ Len(s) \in Nat /\ n \in 1 .. Len(s)
  OBVIOUS
<1>2. /\ r \in Seq(S) /\ Len(r) = Len(s) - 1
      /\ \A k \in 1 .. Len(r) : r[k] = IF k < n THEN s[k] ELSE s[k + 1]
  <2>1. s \in Seq(S) /\ n \in 1 .. Len(s) /\ r = RemoveAt(s, n)
    BY <1>1
  <2>2. IsWithout(r, S, s, n)
    BY <2>1, RemoveAtFacts
  <2>3. QED
    BY <2>2 DEF IsWithout
<1>3. Range(r) = {r[i] : i \in 1 .. Len(r)} /\ Range(s) = {s[i] : i \in 1 .. Len(s)}
  BY <1>2, RangeEquality
<1>4. ASSUME NEW i \in 1 .. Len(r)
      PROVE  \E j \in 1 .. Len(s) : j # n /\ r[i] = s[j]
  <2>1. CASE i < n
    BY <2>1, <1>1, <1>2
  <2>2. CASE ~(i < n)
    <3>1. i + 1 \in 1 .. Len(s) /\ i + 1 # n
      BY <2>2, <1>1, <1>2
    <3>2. QED
      BY <2>2, <3>1, <1>2
  <2>3. QED
    BY <2>1, <2>2
<1>5. ASSUME NEW i \in 1 .. Len(s), i # n
      PROVE  \E j \in 1 .. Len(r) : r[j] = s[i]
  <2>1. CASE i < n
    <3>1. i \in 1 .. Len(r)
      BY <2>1, <1>1, <1>2
    <3>2. QED
      BY <2>1, <3>1, <1>2
  <2>2. CASE i > n
    <3>1. i - 1 \in 1 .. Len(r) /\ ~(i - 1 < n) /\ i - 1 + 1 = i
      BY <2>2, <1>1, <1>2
    <3>2. QED
      BY <3>1, <1>2
  <2>3. QED
    BY <2>1, <2>2, <1>1, <1>5
<1>6. ASSUME NEW d \in Range(r) PROVE d \in Range(s) \ {s[n]}
  BY <1>1, <1>3, <1>4
<1>7. ASSUME NEW d \in Range(s) \ {s[n]} PROVE d \in Range(r)
  <2>1. PICK i \in 1 .. Len(s) : d = s[i]
    BY <1>3
  <2>2. i # n
    BY <2>1
  <2>3. QED
    BY <2>1, <2>2, <1>3, <1>5
<1>8. QED
  BY <1>6, <1>7

\* What is kept of a sequence is a sequence of elements at different positions.
LEMMA KeptFacts ==
  ASSUME NEW S, NEW s \in Seq(S), NEW P \in SUBSET DOMAIN s, NEW r \in Kept(s, P)
  PROVE  /\ r \in Seq(S)
         /\ \A i \in DOMAIN r : \E k \in P : r[i] = s[k]
         /\ \A i, j \in DOMAIN r : i # j => \E k, l \in P : k # l /\ r[i] = s[k] /\ r[j] = s[l]
<1>1. PICK p \in InOrder(P) : r = [i \in DOMAIN p |-> s[p[i]]]
  BY DEF Kept
<1>2. Cardinality(P) \in Nat
  <2>1. IsFiniteSet(1 .. Len(s))
    BY FS_Interval
  <2>2. QED
    BY <2>1, FS_Subset, FS_CardinalityType
<1>3. /\ p \in [1 .. Cardinality(P) -> P]
      /\ \A i, j \in 1 .. Cardinality(P) : i < j => p[i] < p[j]
  BY DEF InOrder
<1>4. \A i \in 1 .. Cardinality(P) : p[i] \in P /\ p[i] \in 1 .. Len(s) /\ r[i] = s[p[i]]
  BY <1>1, <1>3
<1>5. r \in Seq(S) /\ DOMAIN r = 1 .. Cardinality(P)
  BY <1>1, <1>2, <1>3, <1>4
<1>6. ASSUME NEW i \in DOMAIN r, NEW j \in DOMAIN r, i # j
      PROVE  p[i] # p[j]
  <2>1. i < j \/ j < i
    BY <1>2, <1>5, <1>6
  <2>2. p[i] < p[j] \/ p[j] < p[i]
    BY <1>3, <1>5, <2>1
  <2>3. QED
    BY <1>4, <1>5, <2>2
<1>7. QED
  BY <1>4, <1>5, <1>6

\* Every element that is to be kept is kept.
LEMMA KeptAll ==
  ASSUME NEW S, NEW s \in Seq(S), NEW P \in SUBSET DOMAIN s, NEW r \in Kept(s, P), NEW k \in P
  PROVE  \E i \in DOMAIN r : r[i] = s[k]
<1>1. PICK p \in InOrder(P) : r = [i \in DOMAIN p |-> s[p[i]]]
  BY DEF Kept
<1>2. PICK i \in DOMAIN p : p[i] = k
  BY DEF InOrder
<1>3. QED
  BY <1>1, <1>2

\* Two lists one after the other.
LEMMA Joined ==
  ASSUME NEW S, NEW a \in Seq(S), NEW b \in Seq(S), NEW r, r = a \o b
  PROVE  /\ r \in Seq(S)
         /\ \A i \in DOMAIN r :
              \/ i \in DOMAIN a /\ r[i] = a[i]
              \/ i \notin DOMAIN a /\ i - Len(a) \in DOMAIN b /\ r[i] = b[i - Len(a)]
         /\ \A i \in DOMAIN a : i \in DOMAIN r /\ r[i] = a[i]
<1>1. /\ r \in Seq(S) /\ Len(r) = Len(a) + Len(b)
      /\ \A k \in 1 .. Len(a) + Len(b) : r[k] = IF k <= Len(a) THEN a[k] ELSE b[k - Len(a)]
  <2>1. /\ a \o b \in Seq(S) /\ Len(a \o b) = Len(a) + Len(b)
        /\ \A k \in 1 .. Len(a) + Len(b) : (a \o b)[k] = IF k <= Len(a) THEN a[k] ELSE b[k - Len(a)]
    BY ConcatProperties
  <2>2. QED
    BY <2>1
<1>2. /\ Len(a) \in Nat /\ Len(b) \in Nat /\ DOMAIN a = 1 .. Len(a) /\ DOMAIN b = 1 .. Len(b)
      /\ DOMAIN r = 1 .. Len(a) + Len(b)
  BY <1>1
<1>3. QED
  BY <1>1, <1>2

\* What a loop counts up to: the least number of a set, and induction over the
\* rounds of a loop, with the set of the rounds in the place of a predicate.
LEMMA Least ==
  ASSUME NEW T \in SUBSET Nat, T # {}
  PROVE  \E m \in T : \A k \in T : m <= k
<1> DEFINE R == OpToRel(<, Nat)
<1>1. IsWellFoundedOn(R, Nat)
  BY NatLessThanWellFounded
<1>2. \A x, y \in Nat : x < y => <<x, y>> \in R
  BY DEF OpToRel
<1> HIDE DEF R
<1>3. \E x \in T : \A y \in T : ~(<<y, x>> \in R)
  BY <1>1, WFMin
<1>4. PICK x \in T : \A y \in T : ~(<<y, x>> \in R)
  BY <1>3
<1>5. \A y \in T : ~(y < x)
  BY <1>2, <1>4
<1>6. \A y \in T : x <= y
  BY <1>5
<1>7. QED
  BY <1>6

LEMMA Rounds ==
  ASSUME NEW N \in Nat, NEW S, 0 \in S, \A n \in 0 .. N - 1 : n \in S => n + 1 \in S
  PROVE  0 .. N \subseteq S
<1> SUFFICES ASSUME NEW T, T = (0 .. N) \ S, T # {} PROVE FALSE
  OBVIOUS
<1>1. T \in SUBSET Nat
  OBVIOUS
<1>2. PICK m \in T : \A k \in T : m <= k
  BY <1>1, Least
<1>3. m # 0 /\ m \in 0 .. N /\ m \notin S
  OBVIOUS
<1>4. m - 1 \in 0 .. N - 1 /\ m - 1 \notin T /\ (m - 1) + 1 = m
  BY <1>1, <1>2, <1>3
<1>5. m - 1 \in S
  BY <1>4
<1>6. QED
  BY <1>3, <1>4, <1>5
=============================================================================
