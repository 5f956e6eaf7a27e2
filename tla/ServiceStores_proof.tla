------------------------- MODULE ServiceStores_proof -------------------------
(***************************************************************************)
(* The two files the service opens at every start, for any number of       *)
(* threads, keys, hosts, identities and restarts.                          *)
(*                                                                         *)
(* The keys: KeysInv and AcceptedIsGranted. A key in the list or in        *)
(* store.json is what its owner was told, an active session key was made   *)
(* since the last start, and an id a request removes has left the list at  *)
(* once, and the file when that request has opened it.                     *)
(*                                                                         *)
(* The identity: EnrolledIsGranted and EnrolmentIsKept. What cfg says was  *)
(* granted to its identity, the file says of the identity in the file, and *)
(* a thread that is inside RecordLabEnrollment carries a host granted to   *)
(* the identity of cfg, which stays the same as long as there is such a    *)
(* thread.                                                                 *)
(***************************************************************************)
EXTENDS ApiKeyStore, SensorIdentity, Subsequences_proof

-----------------------------------------------------------------------------
\* The keys.

Guarding == {"save", "write", "md"}

Grant == [state : {"none", "made", "told", "doomed", "revoked"}, type : Types \cup {"none"},
          boot : Nat, until : Dates \cup 0 .. MaxTime + Week]

Requests == [at : Guarding \cup {"idle", "handler", "generate"},
             made : SUBSET Ids, gone : SUBSET Ids]

KeyTypes ==
  /\ up \in BOOLEAN /\ unsaved \in BOOLEAN /\ boot \in 0 .. MaxBoots /\ now \in 0 .. MaxTime
  /\ keys \in Seq(Key) /\ store \in [whole : BOOLEAN, keys : Seq(Key)]
  /\ apiMd \subseteq Ids /\ next \in 0 .. MaxKeys
  /\ pc \in [Https -> Requests]
  /\ seen \in [Https -> SUBSET Ids]
  /\ granted \in [Ids -> Grant]

\* One thread at a time holds the store's mutex.
Mutex == \A g, h \in Https : pc[g].at \in Guarding /\ pc[h].at \in Guarding => g = h

\* Ids are drawn one after the other, and those that were not are nowhere.
Drawn ==
  /\ \A id \in IdsOf(keys) \cup IdsOf(store.keys) : id <= next
  /\ \A h \in Https : \A id \in pc[h].gone : id <= next
  /\ \A id \in Ids : id > next => granted[id].state = "none"

Distinct(list) == \A i, j \in DOMAIN list : list[i].id = list[j].id => i = j

\* A key is good for what its owner was told.
Vouched(k) ==
  /\ granted[k.id].state # "none" /\ granted[k.id].type = k.type
  /\ granted[k.id].until = IF k.type \in {"week", "custom"} THEN k.expires_at ELSE 0

Authentic(list) == Distinct(list) /\ \A i \in DOMAIN list : Vouched(list[i])

\* An active session key was made since the service was started.
Sessions ==
  \A i \in DOMAIN keys :
    keys[i].active /\ keys[i].type = "session" => granted[keys[i].id].boot = boot

\* What a request has removed is not in the list, and as soon as it has opened the
\* file not in the file either.
Leaving ==
  \A h \in Https : \A id \in pc[h].gone :
    /\ id \notin IdsOf(keys)
    /\ pc[h].at # "save" /\ ~unsaved => id \notin IdsOf(store.keys)

\* Nor is it once the request was answered.
Left ==
  \A id \in Ids : granted[id].state = "revoked" /\ ~unsaved
    => id \notin IdsOf(keys) \cup IdsOf(store.keys)

Down == ~up => keys = <<>> /\ \A h \in Https : pc[h] = Idle

KeyIInv ==
  /\ KeyTypes /\ Mutex /\ Drawn /\ Authentic(keys) /\ Authentic(store.keys)
  /\ Sessions /\ Leaving /\ Left /\ Down

\* Dates and times are natural numbers.
LEMMA DatesAreNumbers ==
  /\ \A t \in Dates \cup 0 .. MaxTime + Week : t \in Nat
  /\ \A t \in 0 .. MaxTime : t \in Nat
BY KeysAssumption

\* The invariant is what is claimed, and more.
LEMMA KeyInvariantSuffices == KeyIInv => KeysInv /\ AcceptedIsGranted
<1> SUFFICES ASSUME KeyIInv PROVE KeysInv /\ AcceptedIsGranted
  OBVIOUS
<1> USE KeysAssumption DEF KeyIInv
<1>1. Cardinality({h \in Https : pc[h].at \in {"save", "write", "md"}}) <= 1
  <2> DEFINE S == {h \in Https : pc[h].at \in {"save", "write", "md"}}
  <2>1. CASE S = {}
    <3> HIDE DEF S
    <3>1. Cardinality(S) = 0
      BY <2>1, FS_EmptySet
    <3>2. QED
      BY <3>1 DEF S
  <2>2. CASE S # {}
    <3>1. PICK h \in S : TRUE
      BY <2>2
    <3>2. S = {h}
      BY <3>1 DEF Mutex, Guarding
    <3> HIDE DEF S
    <3>3. Cardinality(S) = 1
      BY <3>2, FS_Singleton
    <3>4. QED
      BY <3>3 DEF S
  <2>3. QED
    BY <2>1, <2>2
<1>2. TypeOK
  BY <1>1 DEF TypeOK, KeyTypes, Authentic, Distinct, Requests, Guarding
<1>3. RevokedStaysRevoked
  BY DEF RevokedStaysRevoked, Left, Validate, IdsOf
<1>4. ASSUME NEW id \in Ids, up, Validate(id)
      PROVE  /\ granted[id].state # "none"
             /\ granted[id].type = "session" => granted[id].boot = boot
             /\ granted[id].until # 0 => now <= granted[id].until
  <2>1. PICK i \in DOMAIN keys : keys[i].id = id /\ ~IsExpired(keys[i])
    BY <1>4 DEF Validate
  <2>2. keys[i] \in Key /\ Vouched(keys[i])
    BY DEF KeyTypes, Authentic
  <2>3. granted[id].type = "session" => granted[id].boot = boot
    BY <2>1, <2>2 DEF IsExpired, Vouched, Sessions
  <2>4. granted[id].until # 0 => now <= granted[id].until
    <3> DEFINE k == keys[i]
    <3>1. k.expires_at \in Nat /\ now \in Nat
      <4>1. k.expires_at \in Dates \cup 0 .. MaxTime + Week
        BY <2>2 DEF Key
      <4>2. now \in 0 .. MaxTime
        BY DEF KeyTypes
      <4>3. QED
        BY <4>1, <4>2, DatesAreNumbers
    <3>2. CASE k.type \in {"week", "custom"}
      <4>1. granted[id].until = k.expires_at
        BY <2>1, <2>2, <3>2 DEF Vouched
      <4>2. k.expires_at # 0 => ~(now > k.expires_at)
        BY <2>1, <3>2 DEF IsExpired
      <4>3. QED
        BY <3>1, <4>1, <4>2
    <3>3. CASE k.type \notin {"week", "custom"}
      BY <2>1, <2>2, <3>3 DEF Vouched
    <3>4. QED
      BY <3>2, <3>3
  <2>5. QED
    BY <2>1, <2>2, <2>3, <2>4 DEF Vouched
<1>5. QED
  BY <1>2, <1>3, <1>4 DEF KeysInv, AcceptedIsGranted

\* m_keys.erase.
LEMMA Erased ==
  ASSUME NEW list \in Seq(Key), Distinct(list), NEW i \in DOMAIN list,
         NEW r, r = RemoveAt(list, i)
  PROVE  /\ r \in Seq(Key) /\ Distinct(r)
         /\ IdsOf(r) = IdsOf(list) \ {list[i].id}
         /\ \A k \in DOMAIN r : \E j \in DOMAIN list : r[k] = list[j]
<1>1. list \in Seq(Key) /\ i \in 1 .. Len(list) /\ r = RemoveAt(list, i)
  OBVIOUS
<1>2. /\ r \in Seq(Key) /\ Len(r) = Len(list) - 1
      /\ \A k \in 1 .. Len(r) : r[k] = IF k < i THEN list[k] ELSE list[k + 1]
  <2>1. IsWithout(r, Key, list, i)
    BY <1>1, RemoveAtFacts
  <2>2. QED
    BY <2>1 DEF IsWithout
<1> DEFINE Old(k) == IF k < i THEN k ELSE k + 1
<1>3. /\ DOMAIN r = 1 .. Len(r) /\ DOMAIN list = 1 .. Len(list) /\ Len(list) \in Nat
      /\ \A k \in DOMAIN r : Old(k) \in DOMAIN list /\ Old(k) # i /\ r[k] = list[Old(k)]
  <2>1. DOMAIN r = 1 .. Len(r) /\ DOMAIN list = 1 .. Len(list) /\ Len(list) \in Nat
    BY <1>1, <1>2
  <2>2. \A k \in 1 .. Len(r) : Old(k) \in 1 .. Len(list) /\ Old(k) # i
    BY <1>1, <1>2, <2>1
  <2>3. \A k \in 1 .. Len(r) : r[k] = list[Old(k)]
    BY <1>2
  <2>4. QED
    BY <2>1, <2>2, <2>3
<1>4. \A k, l \in DOMAIN r : Old(k) = Old(l) => k = l
  BY <1>3
<1>5. ASSUME NEW j \in DOMAIN list, j # i PROVE \E k \in DOMAIN r : Old(k) = j
  <2>1. CASE j < i
    <3>1. j \in DOMAIN r /\ Old(j) = j
      BY <2>1, <1>1, <1>2, <1>3
    <3>2. QED
      BY <3>1
  <2>2. CASE j > i
    <3>1. j - 1 \in DOMAIN r /\ Old(j - 1) = j
      BY <2>2, <1>1, <1>2, <1>3
    <3>2. QED
      BY <3>1
  <2>3. QED
    BY <2>1, <2>2, <1>3, <1>5
<1> HIDE DEF Old
<1>6. Distinct(r)
  BY <1>3, <1>4 DEF Distinct
<1>7. ASSUME NEW id \in IdsOf(r) PROVE id \in IdsOf(list) \ {list[i].id}
  BY <1>3 DEF IdsOf, Distinct
<1>8. ASSUME NEW id \in IdsOf(list) \ {list[i].id} PROVE id \in IdsOf(r)
  <2>1. PICK j \in DOMAIN list : list[j].id = id /\ j # i
    BY DEF IdsOf
  <2>2. PICK k \in DOMAIN r : Old(k) = j
    BY <2>1, <1>5
  <2>3. QED
    BY <2>1, <2>2, <1>3 DEF IdsOf
<1>9. QED
  BY <1>2, <1>3, <1>6, <1>7, <1>8

\* What m_keys.push_back makes of the list.
Extends(r, list, k) ==
  /\ r \in Seq(Key) /\ Distinct(r) /\ IdsOf(r) = IdsOf(list) \cup {k.id}
  /\ r[Len(r)] = k
  /\ \A j \in DOMAIN r : (\E i \in DOMAIN list : r[j] = list[i]) \/ r[j] = k

LEMMA Added ==
  ASSUME NEW list \in Seq(Key), Distinct(list), NEW k \in Key, k.id \notin IdsOf(list),
         NEW r, r = Append(list, k)
  PROVE  Extends(r, list, k)
<1>1. /\ r \in Seq(Key) /\ Len(r) = Len(list) + 1 /\ Len(list) \in Nat
      /\ DOMAIN r = 1 .. Len(list) + 1 /\ DOMAIN list = 1 .. Len(list)
      /\ r[Len(list) + 1] = k /\ \A j \in 1 .. Len(list) : r[j] = list[j]
  OBVIOUS
<1>2. Distinct(r)
  BY <1>1 DEF Distinct, IdsOf
<1>3. IdsOf(r) = IdsOf(list) \cup {k.id}
  <2>1. ASSUME NEW id \in IdsOf(r) PROVE id \in IdsOf(list) \cup {k.id}
    BY <1>1 DEF IdsOf
  <2>2. ASSUME NEW id \in IdsOf(list) PROVE id \in IdsOf(r)
    BY <1>1 DEF IdsOf
  <2>3. k.id \in IdsOf(r)
    BY <1>1 DEF IdsOf
  <2>4. QED
    BY <2>1, <2>2, <2>3
<1>4. QED
  BY <1>1, <1>2, <1>3 DEF Extends

\* The ids of a list of keys are ids.
LEMMA IdsAreIds == ASSUME NEW list \in Seq(Key) PROVE IdsOf(list) \subseteq Ids
<1>1. \A i \in DOMAIN list : list[i] \in Key
  OBVIOUS
<1>2. QED
  BY <1>1 DEF IdsOf, Key

\* Nothing is stored or granted at the start.
LEMMA KeyInitialStates == KeysInit => KeyIInv
<1> SUFFICES ASSUME KeysInit PROVE KeyIInv
  OBVIOUS
<1> USE KeysAssumption DEF KeysInit
<1>1. KeyTypes
  <2>1. [state |-> "none", type |-> "none", boot |-> 0, until |-> 0] \in Grant
    BY DEF Grant
  <2>2. Idle \in Requests /\ File(<<>>) \in [whole : BOOLEAN, keys : Seq(Key)]
    BY DEF Idle, Requests, File
  <2>3. up \in BOOLEAN /\ unsaved \in BOOLEAN
    BY Zenon
  <2>4. QED
    BY <2>1, <2>2, <2>3 DEF KeyTypes
<1>2. Authentic(keys) /\ Authentic(store.keys) /\ IdsOf(keys) = {} /\ IdsOf(store.keys) = {}
  BY DEF Authentic, Distinct, File, IdsOf
<1>3. QED
  BY <1>1, <1>2 DEF KeyIInv, Mutex, Drawn, Sessions, Leaving, Left, Down, Idle, Guarding

\* A request that changes the list: what it adds has the next id, what it removes
\* is gone from the list, and nobody else is in Save.
Rewrites(list, made, gone, new) ==
  /\ made \in SUBSET Ids /\ gone \in SUBSET IdsOf(keys)
  /\ list \in Seq(Key) /\ Distinct(list) /\ new \in Key
  /\ IdsOf(list) = (IdsOf(keys) \ gone) \cup made
  /\ \/ made = {}
     \/ /\ made = {next + 1} /\ next < MaxKeys
        /\ list[Len(list)] = new /\ new.id = next + 1
  /\ \A j \in DOMAIN list :
       (\E i \in DOMAIN keys : list[j] = keys[i]) \/ (made # {} /\ list[j] = new)

LEMMA EnterKeeps ==
  ASSUME KeyIInv, NEW h \in Https, NEW made, NEW gone, Enter(h, made, gone),
         NEW list, keys' = list, NEW new, Rewrites(list, made, gone, new)
  PROVE  KeyIInv'
<1> USE KeysAssumption DEF KeyIInv, Rewrites
<1>1. /\ up /\ pc[h].at = "idle" /\ \A g \in Https : pc[g].at \notin Guarding
      /\ UNCHANGED <<up, boot, now, store, apiMd, seen, unsaved>>
  BY DEF Enter, Locked, Guarding
<1>2. /\ next' \in 0 .. MaxKeys /\ next <= next' /\ next \in Nat
      /\ \A id \in made : id = next + 1 /\ id <= next'
  <2>1. next \in 0 .. MaxKeys
    BY DEF KeyTypes
  <2>2. next' = next + Cardinality(made)
    BY DEF Enter
  <2>3. CASE made = {}
    <3>1. Cardinality(made) = 0
      BY <2>3, FS_EmptySet
    <3>2. QED
      BY <2>1, <2>2, <2>3, <3>1
  <2>4. CASE made = {next + 1} /\ next < MaxKeys
    <3>1. Cardinality(made) = 1
      BY <2>4, FS_Singleton
    <3>2. QED
      BY <2>1, <2>2, <2>4, <3>1
  <2>5. QED
    BY <2>3, <2>4
<1>3. /\ pc' \in [Https -> Requests]
      /\ pc'[h].at = "save" /\ pc'[h].gone = gone
      /\ \A g \in Https : g # h => pc'[g] = pc[g]
  <2>1. pc \in [Https -> Requests] /\ gone \in SUBSET Ids
    BY IdsAreIds DEF KeyTypes
  <2>2. pc' = [pc EXCEPT ![h] = [at |-> "save", made |-> made, gone |-> gone]]
    BY DEF Enter
  <2>3. [at |-> "save", made |-> made, gone |-> gone] \in Requests
    BY <2>1 DEF Requests, Guarding
  <2>4. QED
    BY <2>1, <2>2, <2>3
<1>4. IdsOf(keys) \subseteq Ids /\ IdsOf(store.keys) \subseteq Ids
  BY IdsAreIds DEF KeyTypes
<1>5. \A id \in IdsOf(keys) \cup IdsOf(store.keys) : id \in Ids /\ id <= next /\ id \notin made
  BY <1>2, <1>4 DEF Drawn, Ids
<1>6. ASSUME NEW id \in Ids
      PROVE  /\ id \in made =>
                  /\ granted'[id].state = "made" /\ granted'[id].type = new.type
                  /\ granted'[id].boot = boot
                  /\ granted'[id].until =
                       IF new.type \in {"week", "custom"} THEN new.expires_at ELSE 0
             /\ id \in gone =>
                  /\ granted'[id].state = "doomed" /\ granted'[id].type = granted[id].type
                  /\ granted'[id].boot = granted[id].boot
                  /\ granted'[id].until = granted[id].until
             /\ id \notin made /\ id \notin gone => granted'[id] = granted[id]
             /\ granted'[id] \in Grant
  <2>1. granted'[id] = IF id \in made THEN GrantOf(list[Len(list)])
          ELSE IF id \in gone THEN [granted[id] EXCEPT !.state = "doomed"] ELSE granted[id]
    BY DEF Enter
  <2>2. granted[id] \in Grant
    BY DEF KeyTypes
  <2>3. CASE id \in made
    <3>1. granted'[id] = GrantOf(new) /\ id \notin gone
      BY <2>1, <2>3, <1>5
    <3>2. new.type \in Types /\ new.expires_at \in Dates \cup 0 .. MaxTime + Week
      BY DEF Key
    <3>3. boot \in Nat
      BY DEF KeyTypes
    <3>4. 0 \in 0 .. MaxTime + Week
      OBVIOUS
    <3>5. GrantOf(new) \in Grant
      BY <3>2, <3>3, <3>4 DEF GrantOf, Grant
    <3>6. QED
      BY <2>3, <3>1, <3>5 DEF GrantOf
  <2>4. CASE id \in gone
    BY <2>1, <2>2, <2>4, <1>5 DEF Grant
  <2>5. CASE id \notin made /\ id \notin gone
    BY <2>1, <2>2, <2>5
  <2>6. QED
    BY <2>3, <2>4, <2>5
<1>7. granted' \in [Ids -> Grant]
  <2>1. \E f : granted' = [id \in Ids |-> f[id]]
    <3> DEFINE f == [id \in Ids |->
       IF id \in made THEN GrantOf(list[Len(list)])
       ELSE IF id \in gone THEN [granted[id] EXCEPT !.state = "doomed"] ELSE granted[id]]
    <3>1. granted' = f
      BY DEF Enter
    <3>2. f = [id \in Ids |-> f[id]]
      OBVIOUS
    <3> HIDE DEF f
    <3>3. QED
      BY <3>1, <3>2
  <2>2. QED
    BY <2>1, <1>6
<1>8. KeyTypes'
  BY <1>1, <1>2, <1>3, <1>7 DEF KeyTypes
<1>9. Mutex'
  BY <1>1, <1>3 DEF Mutex
<1>10. Drawn'
  <2>1. \A id \in IdsOf(list) \cup IdsOf(store.keys) : id <= next'
    <3>1. \A id \in IdsOf(keys) \cup IdsOf(store.keys) : id <= next'
      BY <1>2, <1>5 DEF Ids
    <3>2. QED
      BY <3>1, <1>2
  <2>2. \A g \in Https : \A id \in pc'[g].gone : id <= next'
    <3>1. \A id \in gone : id <= next'
      BY <1>2, <1>5 DEF Ids
    <3>2. \A g \in Https : \A id \in pc[g].gone : id \in Ids /\ id <= next
      BY DEF Drawn, KeyTypes, Requests
    <3>3. \A g \in Https : \A id \in pc[g].gone : id <= next'
      BY <3>2, <1>2 DEF Ids
    <3>4. QED
      BY <3>1, <3>3, <1>3
  <2>3. ASSUME NEW id \in Ids, id > next' PROVE granted'[id].state = "none"
    <3>1. id > next /\ id \notin made /\ id \notin gone
      BY <2>3, <1>2, <1>5 DEF Ids
    <3>2. QED
      BY <3>1, <1>6 DEF Drawn
  <2>4. QED
    BY <1>1, <2>1, <2>2, <2>3 DEF Drawn
<1>11. ASSUME NEW k \in Key, k.id \notin made, Vouched(k) PROVE Vouched(k)'
  <2>1. k.id \in Ids
    BY DEF Key
  <2>2. QED
    BY <1>6, <1>11, <2>1 DEF Vouched
<1>12. made # {} => Vouched(new)'
  <2>1. made # {} => new.id \in made
    OBVIOUS
  <2>2. QED
    BY <2>1, <1>6 DEF Vouched
<1>13. Authentic(list)'
  <2>1. \A i \in DOMAIN keys : keys[i] \in Key /\ keys[i].id \notin made /\ Vouched(keys[i])
    BY <1>5 DEF KeyTypes, Authentic, IdsOf
  <2>2. ASSUME NEW j \in DOMAIN list PROVE Vouched(list[j])'
    <3>1. CASE \E i \in DOMAIN keys : list[j] = keys[i]
      BY <3>1, <2>1, <1>11
    <3>2. CASE made # {} /\ list[j] = new
      BY <3>2, <1>12
    <3>3. QED
      BY <3>1, <3>2
  <2>3. QED
    BY <2>2 DEF Authentic, Distinct
<1>14. Authentic(store.keys)'
  <2>1. store.keys \in Seq(Key)
    BY DEF KeyTypes
  <2>2. \A i \in DOMAIN store.keys :
          store.keys[i] \in Key /\ store.keys[i].id \notin made /\ Vouched(store.keys[i])
    BY <2>1, <1>5 DEF Authentic, IdsOf
  <2>3. QED
    BY <2>2, <1>1, <1>11 DEF Authentic, Distinct
<1>15. Sessions'
  <2>1. ASSUME NEW j \in DOMAIN list, list[j].active, list[j].type = "session"
        PROVE  granted'[list[j].id].boot = boot
    <3>1. CASE \E i \in DOMAIN keys : list[j] = keys[i]
      <4>1. PICK i \in DOMAIN keys : list[j] = keys[i]
        BY <3>1
      <4>2. keys[i].id \in Ids /\ keys[i].id \notin made /\ granted[keys[i].id].boot = boot
        BY <2>1, <4>1, <1>5 DEF Sessions, IdsOf
      <4>3. QED
        BY <4>1, <4>2, <1>6
    <3>2. CASE made # {} /\ list[j] = new
      <4>1. new.id \in made
        BY <3>2
      <4>2. QED
        BY <3>2, <4>1, <1>6
    <3>3. QED
      BY <3>1, <3>2
  <2>2. QED
    BY <2>1, <1>1 DEF Sessions
<1>16. Leaving'
  <2>1. \A id \in gone : id \notin IdsOf(list)
    BY <1>5
  <2>2. \A g \in Https : \A id \in pc[g].gone : id \notin IdsOf(list)
    BY <1>2 DEF Leaving, Drawn
  <2>3. QED
    BY <2>1, <2>2, <1>1, <1>3 DEF Leaving
<1>17. Left'
  <2>1. ASSUME NEW id \in Ids, granted'[id].state = "revoked"
        PROVE  id \notin made /\ granted[id].state = "revoked"
    BY <2>1, <1>6
  <2>2. QED
    BY <2>1, <1>1 DEF Left
<1>18. Down'
  BY <1>1 DEF Down
<1>19. QED
  BY <1>8, <1>9, <1>10, <1>13, <1>14, <1>15, <1>16, <1>17, <1>18

\* Create.
LEMMA CreateKeeps ==
  ASSUME KeyIInv, NEW h \in Https, NEW type \in Types, NEW custom \in Dates,
         Create(h, type, custom)
  PROVE  KeyIInv'
<1>0. PICK new : new = NewKey(type, ExpiryMs(type, custom))
  OBVIOUS
<1>1. /\ next < MaxKeys /\ keys' = Append(keys, new) /\ Enter(h, {next + 1}, {})
      /\ next \in Nat /\ next + 1 \in Ids /\ keys \in Seq(Key) /\ Distinct(keys)
  BY <1>0, KeysAssumption DEF Create, KeyIInv, KeyTypes, Authentic, Ids
<1>2. new \in Key /\ new.id = next + 1
  <2>1. ExpiryMs(type, custom) \in Dates \cup 0 .. MaxTime + Week
    BY KeysAssumption DEF ExpiryMs, KeyIInv, KeyTypes
  <2>2. QED
    BY <1>0, <1>1, <2>1 DEF NewKey, Key
<1>3. new.id \notin IdsOf(keys)
  BY <1>1, <1>2 DEF KeyIInv, Drawn
<1>4. PICK list : list = Append(keys, new)
  OBVIOUS
<1>5. /\ list \in Seq(Key) /\ Distinct(list) /\ IdsOf(list) = IdsOf(keys) \cup {new.id}
      /\ list[Len(list)] = new
      /\ \A j \in DOMAIN list : (\E i \in DOMAIN keys : list[j] = keys[i]) \/ list[j] = new
  <2>1. /\ keys \in Seq(Key) /\ Distinct(keys) /\ new \in Key /\ new.id \notin IdsOf(keys)
        /\ list = Append(keys, new)
    BY <1>1, <1>2, <1>3, <1>4
  <2>2. Extends(list, keys, new)
    BY <2>1, Added
  <2>3. QED
    BY <2>2 DEF Extends
<1>6. IdsOf(list) = (IdsOf(keys) \ {}) \cup {next + 1} /\ keys' = list
  BY <1>1, <1>2, <1>4, <1>5
<1>7. Rewrites(list, {next + 1}, {}, new)
  BY <1>1, <1>2, <1>5, <1>6 DEF Rewrites
<1>8. QED
  BY <1>1, <1>6, <1>7, EnterKeeps

\* Delete.
LEMMA DeleteKeeps ==
  ASSUME KeyIInv, NEW h \in Https, NEW id \in Ids, Delete(h, id)
  PROVE  KeyIInv'
<1>1. PICK i \in DOMAIN keys : keys[i].id = id /\ keys' = RemoveAt(keys, i)
  BY DEF Delete
<1>2. /\ Enter(h, {}, {id}) /\ keys \in Seq(Key) /\ Distinct(keys)
      /\ keys[i] \in Key /\ {id} \in SUBSET IdsOf(keys)
  BY <1>1 DEF Delete, KeyIInv, KeyTypes, Authentic, IdsOf
<1>3. PICK list : list = RemoveAt(keys, i)
  OBVIOUS
<1>4. /\ list \in Seq(Key) /\ Distinct(list) /\ IdsOf(list) = IdsOf(keys) \ {keys[i].id}
      /\ \A k \in DOMAIN list : \E j \in DOMAIN keys : list[k] = keys[j]
  BY <1>2, <1>3, Erased
<1>5. IdsOf(list) = (IdsOf(keys) \ {id}) \cup {} /\ keys' = list /\ {} \in SUBSET Ids
  BY <1>1, <1>3, <1>4
<1>6. PICK new \in Key : TRUE
  BY <1>2
<1>7. Rewrites(list, {}, {id}, new)
  BY <1>2, <1>4, <1>5, <1>6 DEF Rewrites
<1>8. QED
  BY <1>2, <1>5, <1>7, EnterKeeps

\* Rotate.
LEMMA RotateKeeps ==
  ASSUME KeyIInv, NEW h \in Https, NEW id \in Ids, Rotate(h, id)
  PROVE  KeyIInv'
<1>1. PICK i \in DOMAIN keys :
        keys[i].id = id /\ keys' = Append(RemoveAt(keys, i), Replacement(keys[i]))
  BY DEF Rotate
<1>0. PICK new : new = Replacement(keys[i])
  OBVIOUS
<1>2. /\ next < MaxKeys /\ Enter(h, {next + 1}, {id}) /\ next \in Nat /\ next + 1 \in Ids
      /\ keys \in Seq(Key) /\ Distinct(keys) /\ keys[i] \in Key /\ {id} \in SUBSET IdsOf(keys)
  BY <1>1, KeysAssumption DEF Rotate, KeyIInv, KeyTypes, Authentic, Ids, IdsOf
<1>3. new \in Key /\ new.id = next + 1
  <2>1. ExpiryMs("week", 0) \in 0 .. MaxTime + Week
    BY KeysAssumption DEF ExpiryMs, KeyIInv, KeyTypes
  <2>2. QED
    BY <1>0, <1>2, <2>1 DEF Replacement, NewKey, Key
<1>4. PICK rest : rest = RemoveAt(keys, i)
  OBVIOUS
<1>5. /\ rest \in Seq(Key) /\ Distinct(rest) /\ IdsOf(rest) = IdsOf(keys) \ {keys[i].id}
      /\ \A k \in DOMAIN rest : \E j \in DOMAIN keys : rest[k] = keys[j]
  BY <1>2, <1>4, Erased
<1>6. PICK list : list = Append(rest, new)
  OBVIOUS
<1>7. new.id \notin IdsOf(rest)
  BY <1>2, <1>3, <1>5 DEF KeyIInv, Drawn
<1>8. /\ list \in Seq(Key) /\ Distinct(list) /\ IdsOf(list) = IdsOf(rest) \cup {new.id}
      /\ list[Len(list)] = new
      /\ \A j \in DOMAIN list : (\E k \in DOMAIN rest : list[j] = rest[k]) \/ list[j] = new
  <2>1. /\ rest \in Seq(Key) /\ Distinct(rest) /\ new \in Key /\ new.id \notin IdsOf(rest)
        /\ list = Append(rest, new)
    BY <1>3, <1>5, <1>6, <1>7
  <2>2. Extends(list, rest, new)
    BY <2>1, Added
  <2>3. QED
    BY <2>2 DEF Extends
<1>9. \A j \in DOMAIN list : (\E k \in DOMAIN keys : list[j] = keys[k]) \/ list[j] = new
  BY <1>5, <1>8
<1>10. IdsOf(list) = (IdsOf(keys) \ {id}) \cup {next + 1}
  BY <1>1, <1>3, <1>5, <1>8
<1>11. keys' = list
  BY <1>0, <1>1, <1>4, <1>6
<1>12. Rewrites(list, {next + 1}, {id}, new)
  BY <1>2, <1>3, <1>8, <1>9, <1>10 DEF Rewrites
<1>13. QED
  BY <1>2, <1>11, <1>12, EnterKeeps

\* What a thread that goes on changes.
LEMMA Gone ==
  ASSUME KeyTypes, NEW h \in Https,
         NEW at \in {"md", "write", "handler", "generate"}, Go(h, at)
  PROVE  /\ pc' \in [Https -> Requests] /\ pc'[h].at = at /\ pc'[h].gone = pc[h].gone
         /\ \A g \in Https : g # h => pc'[g] = pc[g]
<1>1. pc \in [Https -> Requests] /\ pc' = [pc EXCEPT ![h] = [pc[h] EXCEPT !.at = at]]
  BY DEF KeyTypes, Go
<1>2. [pc[h] EXCEPT !.at = at] \in Requests
  BY <1>1 DEF Requests, Guarding
<1>3. [pc[h] EXCEPT !.at = at].at = at /\ [pc[h] EXCEPT !.at = at].gone = pc[h].gone
  BY <1>1 DEF Requests
<1>4. QED
  BY <1>1, <1>2, <1>3

\* A list with no keys.
LEMMA NoKeys ==
  IdsOf(<<>>) = {} /\ <<>> \in Seq(Key) /\ Authentic(<<>>) /\ Authentic(<<>>)'
BY DEF IdsOf, Authentic, Distinct

\* Save and what the handler does after it, and a request for a key that is not there.
LEMMA SaveKeeps ==
  ASSUME KeyIInv, NEW h \in Https,
         \/ OpenStore(h) \/ OnChange(h) \/ WriteStore(h) \/ ReadForApiMd(h)
         \/ \E id \in Ids : Missing(h, id)
  PROVE  KeyIInv'
<1> USE DEF KeyIInv
<1>1. CASE OpenStore(h)
  <2>1. PICK at \in {"md", "handler"} : Go(h, at)
    BY <1>1 DEF OpenStore
  <2>2. /\ pc' \in [Https -> Requests] /\ pc'[h].at = at /\ pc'[h].gone = pc[h].gone
        /\ \A g \in Https : g # h => pc'[g] = pc[g]
    BY <2>1, Gone
  <2>3. /\ pc[h].at = "save" /\ up
        /\ UNCHANGED <<up, boot, now, keys, apiMd, next, seen, granted>>
        /\ \/ store' = Torn /\ UNCHANGED unsaved
           \/ unsaved' = TRUE /\ UNCHANGED store
    BY <1>1 DEF OpenStore
  <2>4. \/ store'.keys = <<>> /\ UNCHANGED unsaved
        \/ unsaved' = TRUE /\ UNCHANGED store
    BY <2>3 DEF Torn
  <2>5. KeyTypes'
    <3>1. Torn \in [whole : BOOLEAN, keys : Seq(Key)]
      BY NoKeys DEF Torn
    <3>2. unsaved' \in BOOLEAN
      BY <2>3, Zenon DEF KeyTypes
    <3>3. QED
      BY <2>2, <2>3, <3>1, <3>2 DEF KeyTypes
  <2>6. Mutex'
    BY <2>2, <2>3 DEF Mutex, Guarding
  <2>7. Drawn'
    BY <2>2, <2>3, <2>4, NoKeys DEF Drawn
  <2>8. Authentic(keys)' /\ Sessions'
    BY <2>3 DEF Authentic, Vouched, Sessions
  <2>9. Authentic(store.keys)'
    BY <2>3, <2>4, NoKeys DEF Authentic, Vouched
  <2>10. Leaving' /\ Left'
    BY <2>2, <2>3, <2>4, NoKeys DEF Leaving, Left
  <2>11. Down'
    BY <2>3 DEF Down
  <2>12. QED
    BY <2>5, <2>6, <2>7, <2>8, <2>9, <2>10, <2>11
<1>2. CASE OnChange(h)
  <2>1. /\ pc' \in [Https -> Requests] /\ pc'[h].at = "write" /\ pc'[h].gone = pc[h].gone
        /\ \A g \in Https : g # h => pc'[g] = pc[g]
    BY <1>2, Gone DEF OnChange
  <2>2. /\ pc[h].at = "md" /\ up /\ apiMd' = IdsOf(keys)
        /\ UNCHANGED <<up, boot, now, keys, store, next, seen, granted, unsaved>>
    BY <1>2 DEF OnChange
  <2>3. KeyTypes'
    BY <2>1, <2>2, IdsAreIds DEF KeyTypes
  <2>4. Mutex'
    BY <2>1, <2>2 DEF Mutex, Guarding
  <2>5. Leaving'
    BY <2>1, <2>2 DEF Leaving
  <2>6. QED
    BY <2>1, <2>2, <2>3, <2>4, <2>5 DEF Drawn, Authentic, Vouched, Sessions, Left, Down
<1>3. CASE WriteStore(h)
  <2>1. /\ pc' \in [Https -> Requests] /\ pc'[h].at = "handler" /\ pc'[h].gone = pc[h].gone
        /\ \A g \in Https : g # h => pc'[g] = pc[g]
    BY <1>3, Gone DEF WriteStore
  <2>2. /\ pc[h].at = "write" /\ up /\ store' = File(keys) /\ store'.keys = keys
        /\ UNCHANGED <<up, boot, now, keys, apiMd, next, seen, granted, unsaved>>
    BY <1>3 DEF WriteStore, File
  <2>3. KeyTypes'
    BY <2>1, <2>2 DEF KeyTypes, File
  <2>4. Mutex'
    BY <2>1, <2>2 DEF Mutex, Guarding
  <2>5. Leaving'
    BY <2>1, <2>2 DEF Leaving
  <2>6. QED
    BY <2>1, <2>2, <2>3, <2>4, <2>5 DEF Drawn, Authentic, Vouched, Sessions, Left, Down
<1>4. CASE ReadForApiMd(h)
  <2>1. /\ pc' \in [Https -> Requests] /\ pc'[h].at = "generate" /\ pc'[h].gone = pc[h].gone
        /\ \A g \in Https : g # h => pc'[g] = pc[g]
    BY <1>4, Gone DEF ReadForApiMd
  <2>2. /\ pc[h].at = "handler" /\ up /\ seen' = [seen EXCEPT ![h] = IdsOf(keys)]
        /\ UNCHANGED <<up, boot, now, keys, store, apiMd, next, granted, unsaved>>
    BY <1>4 DEF ReadForApiMd
  <2>3. KeyTypes'
    <3>1. IdsOf(keys) \subseteq Ids
      BY IdsAreIds DEF KeyTypes
    <3>2. QED
      BY <2>1, <2>2, <3>1 DEF KeyTypes
  <2>4. Mutex'
    BY <2>1, <2>2 DEF Mutex, Guarding
  <2>5. Leaving'
    BY <2>1, <2>2 DEF Leaving
  <2>6. QED
    BY <2>1, <2>2, <2>3, <2>4, <2>5 DEF Drawn, Authentic, Vouched, Sessions, Left, Down
<1>5. CASE \E id \in Ids : Missing(h, id)
  <2>1. /\ pc[h].at = "idle" /\ up /\ pc' = [pc EXCEPT ![h].at = "handler"]
        /\ UNCHANGED <<up, boot, now, keys, store, apiMd, next, seen, granted, unsaved>>
    BY <1>5 DEF Missing
  <2>2. /\ pc' \in [Https -> Requests] /\ pc'[h].at = "handler" /\ pc'[h].gone = pc[h].gone
        /\ \A g \in Https : g # h => pc'[g] = pc[g]
    BY <2>1, Gone DEF Go
  <2>3. KeyTypes'
    BY <2>1, <2>2 DEF KeyTypes
  <2>4. Mutex'
    BY <2>1, <2>2 DEF Mutex, Guarding
  <2>5. Leaving'
    BY <2>1, <2>2 DEF Leaving
  <2>6. QED
    BY <2>1, <2>2, <2>3, <2>4, <2>5 DEF Drawn, Authentic, Vouched, Sessions, Left, Down
<1>6. QED
  BY <1>1, <1>2, <1>3, <1>4, <1>5

\* The answer: what was removed is revoked, and is neither in the list nor, if the
\* file could be opened, in the file.
LEMMA AnswerKeeps ==
  ASSUME KeyIInv, NEW h \in Https, WriteApiMd(h) PROVE KeyIInv'
<1> USE DEF KeyIInv
<1>1. /\ up /\ pc[h].at = "generate" /\ apiMd' = seen[h] /\ pc' = [pc EXCEPT ![h] = Idle]
      /\ UNCHANGED <<up, boot, now, keys, store, next, seen, unsaved>>
  BY DEF WriteApiMd
<1>2. /\ pc' \in [Https -> Requests] /\ pc'[h].at = "idle" /\ pc'[h].gone = {}
      /\ \A g \in Https : g # h => pc'[g] = pc[g]
  <2>1. Idle \in Requests /\ Idle.at = "idle" /\ Idle.gone = {}
    BY DEF Idle, Requests
  <2>2. QED
    BY <1>1, <2>1 DEF KeyTypes
<1>3. ASSUME NEW id \in Ids
      PROVE  /\ granted'[id] \in Grant
             /\ granted'[id].type = granted[id].type /\ granted'[id].boot = granted[id].boot
             /\ granted'[id].until = granted[id].until
             /\ id \in pc[h].gone => granted'[id].state = "revoked"
             /\ id \notin pc[h].gone =>
                  \/ granted'[id].state = granted[id].state
                  \/ granted[id].state = "made" /\ granted'[id].state = "told"
  <2>1. granted'[id] = IF id \in pc[h].gone THEN [granted[id] EXCEPT !.state = "revoked"]
          ELSE IF id \in pc[h].made /\ granted[id].state = "made"
               THEN [granted[id] EXCEPT !.state = "told"] ELSE granted[id]
    BY DEF WriteApiMd
  <2>2. granted[id] \in Grant
    BY DEF KeyTypes
  <2>3. QED
    BY <2>1, <2>2 DEF Grant
<1>4. granted' \in [Ids -> Grant]
  <2> DEFINE f == [id \in Ids |->
        IF id \in pc[h].gone THEN [granted[id] EXCEPT !.state = "revoked"]
        ELSE IF id \in pc[h].made /\ granted[id].state = "made"
             THEN [granted[id] EXCEPT !.state = "told"] ELSE granted[id]]
  <2>1. granted' = f
    BY DEF WriteApiMd
  <2>2. f = [id \in Ids |-> f[id]]
    OBVIOUS
  <2> HIDE DEF f
  <2>3. QED
    BY <2>1, <2>2, <1>3
<1>5. IdsOf(keys) \subseteq Ids /\ IdsOf(store.keys) \subseteq Ids
  BY IdsAreIds DEF KeyTypes
<1>6. KeyTypes'
  BY <1>1, <1>2, <1>4 DEF KeyTypes
<1>7. Mutex'
  BY <1>2 DEF Mutex, Guarding
<1>8. Drawn'
  <2>1. ASSUME NEW id \in Ids, id > next PROVE granted'[id].state = "none"
    <3>1. granted[id].state = "none" /\ ~(id <= next)
      BY <2>1 DEF Drawn, KeyTypes, Ids
    <3>2. id \notin pc[h].gone
      BY <3>1 DEF Drawn
    <3>3. QED
      BY <3>1, <3>2, <1>3
  <2>2. \A g \in Https : \A id \in pc'[g].gone : id <= next
    BY <1>2 DEF Drawn
  <2>3. QED
    BY <2>1, <2>2, <1>1 DEF Drawn
<1>9. ASSUME NEW k \in Key, Vouched(k) PROVE Vouched(k)'
  <2>1. k.id \in Ids
    BY DEF Key
  <2>2. granted'[k.id].state # "none"
    BY <1>9, <2>1, <1>3 DEF Vouched
  <2>3. QED
    BY <1>9, <2>1, <2>2, <1>3 DEF Vouched
<1>10. Authentic(keys)'
  <2>1. \A i \in DOMAIN keys : keys[i] \in Key /\ Vouched(keys[i])
    BY DEF KeyTypes, Authentic
  <2>2. QED
    BY <2>1, <1>1, <1>9 DEF Authentic
<1>11. Authentic(store.keys)'
  <2>1. store.keys \in Seq(Key)
    BY DEF KeyTypes
  <2>2. \A i \in DOMAIN store.keys : store.keys[i] \in Key /\ Vouched(store.keys[i])
    BY <2>1 DEF Authentic
  <2>3. QED
    BY <2>2, <1>1, <1>9 DEF Authentic
<1>12. Sessions'
  <2>1. \A i \in DOMAIN keys : keys[i].id \in Ids
    BY <1>5 DEF IdsOf
  <2>2. QED
    BY <2>1, <1>1, <1>3 DEF Sessions
<1>13. Leaving'
  BY <1>1, <1>2 DEF Leaving
<1>14. Left'
  <2>1. ASSUME NEW id \in Ids, granted'[id].state = "revoked", ~unsaved
        PROVE  id \notin IdsOf(keys) \cup IdsOf(store.keys)
    <3>1. CASE id \in pc[h].gone
      BY <3>1, <2>1, <1>1 DEF Leaving
    <3>2. CASE id \notin pc[h].gone
      BY <3>2, <2>1, <1>3 DEF Left
    <3>3. QED
      BY <3>1, <3>2
  <2>2. QED
    BY <2>1, <1>1 DEF Left
<1>15. Down'
  BY <1>1 DEF Down
<1>16. QED
  BY <1>6, <1>7, <1>8, <1>10, <1>11, <1>12, <1>13, <1>14, <1>15

\* PurgeSessionKeys: every session key becomes inactive, and nothing else changes.
LEMMA Purged ==
  ASSUME NEW list \in Seq(Key), Authentic(list), NEW r, r = PurgeSessionKeys(list)
  PROVE  /\ r \in Seq(Key) /\ Authentic(r) /\ IdsOf(r) = IdsOf(list)
         /\ \A i \in DOMAIN r : ~(r[i].active /\ r[i].type = "session")
<1>1. DOMAIN r = DOMAIN list /\ DOMAIN list = 1 .. Len(list) /\ Len(list) \in Nat
  BY DEF PurgeSessionKeys
<1>2. ASSUME NEW i \in DOMAIN list
      PROVE  /\ r[i] \in Key /\ r[i].id = list[i].id /\ r[i].type = list[i].type
             /\ r[i].expires_at = list[i].expires_at
             /\ ~(r[i].active /\ r[i].type = "session")
  <2>1. r[i] = [list[i] EXCEPT !.active = list[i].active /\ list[i].type # "session"]
    BY DEF PurgeSessionKeys
  <2>2. list[i] \in Key
    OBVIOUS
  <2>3. QED
    BY <2>1, <2>2 DEF Key
<1>3. r \in Seq(Key)
  <2>1. r = [i \in 1 .. Len(list) |-> r[i]]
    BY <1>1 DEF PurgeSessionKeys
  <2>2. QED
    BY <2>1, <1>1, <1>2
<1>4. Authentic(r)
  BY <1>1, <1>2 DEF Authentic, Distinct, Vouched
<1>5. IdsOf(r) = IdsOf(list)
  BY <1>1, <1>2 DEF IdsOf
<1>6. QED
  BY <1>1, <1>2, <1>3, <1>4, <1>5

\* Starts, also those that end while the purge is saved, the end of the process,
\* and time.
LEMMA ProcessKeeps ==
  ASSUME KeyIInv, Boot \/ BootCut \/ Crash \/ Tick \/ UNCHANGED keyVars
  PROVE  KeyIInv'
<1> USE KeysAssumption DEF KeyIInv
<1>1. CASE Boot
  <2>1. /\ ~up /\ up' = TRUE /\ boot' = boot + 1 /\ boot < MaxBoots
        /\ keys' = PurgeSessionKeys(store.keys) /\ apiMd' = IdsOf(keys')
        /\ UNCHANGED <<now, next, pc, seen, granted>>
    BY <1>1 DEF Boot
  <2>2. PICK list : list = PurgeSessionKeys(store.keys)
    OBVIOUS
  <2>3. store.keys \in Seq(Key) /\ Authentic(store.keys)
    BY DEF KeyTypes
  <2>4. /\ list \in Seq(Key) /\ Authentic(list) /\ IdsOf(list) = IdsOf(store.keys)
        /\ \A i \in DOMAIN list : ~(list[i].active /\ list[i].type = "session")
    BY <2>2, <2>3, Purged
  <2>5. \/ UNCHANGED <<store, unsaved>>
        \/ store' = File(list) /\ UNCHANGED unsaved
        \/ unsaved' = TRUE /\ UNCHANGED store
    BY <1>1, <2>1, <2>2 DEF Boot
  <2>6. store'.keys = store.keys \/ store'.keys = list
    BY <2>5 DEF File
  <2>7. store' \in [whole : BOOLEAN, keys : Seq(Key)] /\ unsaved' \in BOOLEAN
    <3>1. File(list) \in [whole : BOOLEAN, keys : Seq(Key)]
      BY <2>4 DEF File
    <3>2. store' \in [whole : BOOLEAN, keys : Seq(Key)]
      BY <3>1, <2>5 DEF KeyTypes
    <3>3. unsaved' \in BOOLEAN
      BY <2>5, Zenon DEF KeyTypes
    <3>4. QED
      BY <3>2, <3>3
  <2>8. KeyTypes'
    <3>1. IdsOf(list) \subseteq Ids
      BY <2>4, IdsAreIds
    <3>2. boot' \in 0 .. MaxBoots
      BY <2>1 DEF KeyTypes
    <3>3. up' \in BOOLEAN
      BY <2>1, Zenon
    <3>4. QED
      BY <2>1, <2>2, <2>4, <2>7, <3>1, <3>2, <3>3 DEF KeyTypes
  <2>9. IdsOf(keys') = IdsOf(store.keys) /\ IdsOf(store'.keys) = IdsOf(store.keys)
    BY <2>1, <2>2, <2>4, <2>6
  <2>10. Drawn'
    BY <2>1, <2>9 DEF Drawn
  <2>11. Authentic(keys)' /\ Authentic(store.keys)'
    <3>1. Authentic(list)' /\ Authentic(store'.keys)
      BY <2>1, <2>3, <2>4, <2>6 DEF Authentic, Vouched
    <3>2. QED
      BY <3>1, <2>1, <2>2 DEF Authentic, Vouched
  <2>12. Sessions'
    BY <2>1, <2>2, <2>4 DEF Sessions
  <2>13. \A h \in Https : pc[h].gone = {} /\ pc[h].at = "idle"
    BY <2>1 DEF Down, Idle
  <2>14. Leaving' /\ Mutex' /\ Down'
    BY <2>1, <2>13 DEF Leaving, Mutex, Guarding, Down
  <2>15. Left'
    <3>1. CASE unsaved' = TRUE
      BY <3>1 DEF Left
    <3>2. CASE UNCHANGED unsaved
      BY <3>2, <2>1, <2>9 DEF Left
    <3>3. QED
      BY <3>1, <3>2, <2>5
  <2>16. QED
    BY <2>8, <2>10, <2>11, <2>12, <2>14, <2>15
<1>2. CASE BootCut
  <2>1. /\ ~up /\ boot' = boot + 1 /\ boot < MaxBoots /\ store' = Torn /\ store'.keys = <<>>
        /\ UNCHANGED <<up, now, keys, apiMd, next, pc, seen, granted, unsaved>>
    BY <1>2 DEF BootCut, Torn
  <2>2. KeyTypes'
    <3>1. Torn \in [whole : BOOLEAN, keys : Seq(Key)]
      BY NoKeys DEF Torn
    <3>2. boot' \in 0 .. MaxBoots
      BY <2>1 DEF KeyTypes
    <3>3. QED
      BY <2>1, <3>1, <3>2 DEF KeyTypes
  <2>3. keys = <<>>
    BY <2>1 DEF Down
  <2>4. QED
    BY <2>1, <2>2, <2>3, NoKeys
       DEF Mutex, Drawn, Authentic, Vouched, Sessions, Leaving, Left, Down
<1>3. CASE Crash
  <2>1. /\ up' = FALSE /\ keys' = <<>> /\ pc' = [h \in Https |-> Idle]
        /\ seen' = [h \in Https |-> {}]
        /\ UNCHANGED <<boot, now, store, apiMd, next, granted, unsaved>>
    BY <1>3 DEF Crash
  <2>2. Idle \in Requests /\ Idle.at = "idle" /\ Idle.gone = {}
    BY DEF Idle, Requests
  <2>3. KeyTypes'
    <3>1. up' \in BOOLEAN
      BY <2>1, Zenon
    <3>2. QED
      BY <2>1, <2>2, <3>1, NoKeys DEF KeyTypes
  <2>4. Mutex' /\ Leaving' /\ Down'
    BY <2>1, <2>2 DEF Mutex, Guarding, Leaving, Down
  <2>5. Authentic(keys)' /\ Sessions'
    BY <2>1, NoKeys DEF Authentic, Sessions
  <2>6. Drawn' /\ Left' /\ Authentic(store.keys)'
    BY <2>1, <2>2, NoKeys DEF Drawn, Left, Authentic, Vouched
  <2>7. QED
    BY <2>1, <2>3, <2>4, <2>5, <2>6 DEF Down
<1>4. CASE Tick
  <2>1. /\ now' = now + 1 /\ now < MaxTime
        /\ UNCHANGED <<up, boot, keys, store, apiMd, next, pc, seen, granted, unsaved>>
    BY <1>4 DEF Tick
  <2>2. now' \in 0 .. MaxTime
    BY <2>1 DEF KeyTypes
  <2>3. QED
    BY <2>1, <2>2 DEF KeyTypes, Mutex, Drawn, Authentic, Vouched, Sessions, Leaving, Left, Down
<1>5. CASE UNCHANGED keyVars
  BY <1>5 DEF keyVars, KeyTypes, Mutex, Drawn, Authentic, Vouched, Sessions, Leaving, Left, Down
<1>6. QED
  BY <1>1, <1>2, <1>3, <1>4, <1>5

\* Every reachable state has the invariant.
LEMMA KeyInvariance == KeysSpec => []KeyIInv
<1>1. KeysInit => KeyIInv
  BY KeyInitialStates
<1>2. KeyIInv /\ [KeysNext]_keyVars => KeyIInv'
  BY CreateKeeps, DeleteKeeps, RotateKeeps, SaveKeeps, AnswerKeeps, ProcessKeeps
     DEF KeysNext, Request, Handler
<1>3. QED
  BY <1>1, <1>2, PTL DEF KeysSpec

\* However requests, the steps of Save, failed and torn writes and restarts follow
\* each other: one thread at a time is in Save, no id is twice in the list, and while
\* store.json could always be opened, no token is accepted whose deletion or
\* rotation (ApiKeyStore::Delete, Rotate) was answered.
THEOREM RevokedKeysStayRevoked == KeysSpec => []KeysInv
<1>1. KeyIInv => KeysInv
  BY KeyInvariantSuffices
<1>2. QED
  BY <1>1, KeyInvariance, PTL

\* Nor is one accepted (ApiKeyStore::Validate) after the date that was granted for
\* it, or, of a session key, after the service was started again.
THEOREM KeysAreAcceptedAsGranted == KeysSpec => []AcceptedIsGranted
<1>1. KeyIInv => AcceptedIsGranted
  BY KeyInvariantSuffices
<1>2. QED
  BY <1>1, KeyInvariance, PTL


-----------------------------------------------------------------------------
\* The identity.

States == {"not_enrolled", "enrolled_lab"}
Urls   == Hosts \cup {NoHost}
Files  == [whole : BOOLEAN, id : Nat, url : Urls, state : States, host : Urls]
Steps  == {"idle", "state", "host", "url", "open", "write", "answer"}

Threads == [at : Steps, host : Urls, scheme : BOOLEAN, json : Files]

IdentityTypes ==
  /\ phase \in {"down", "starting", "up"}
  /\ cfg \in [id : Nat, mode : Modes, url : Urls, state : States, host : Urls]
  /\ env \in [mode : Modes, url : Urls]
  /\ enrollment \in Files /\ ids \in Nat
  /\ enrol \in [EnrolThreads -> Threads]
  /\ NoHost \in configured

\* A configuration or a file in which everything was granted to its identity.
Sound(c) ==
  /\ c.state = "enrolled_lab" => \E host \in Hosts : Granted(host, c.id)
  /\ c.host # NoHost => Granted(c.host, c.id)
  /\ c.url \in configured \/ Granted(c.url, c.id)

FileInv == enrollment.whole \/ enrollment = TornFile

Carries(t) ==
  /\ t.at # "idle" => t.host \in Hosts /\ Granted(t.host, cfg.id)
  /\ t.at \in {"open", "write"} => t.json.whole /\ Sound(t.json)

ThreadInv ==
  \A h \in EnrolThreads :
    /\ phase # "up" => enrol[h].at = "idle"
    /\ Carries(enrol[h])

SentInv == sent.to \in configured \cup {Garbled} \/ Granted(sent.to, sent.id)

IdentityIInv == IdentityTypes /\ Sound(cfg) /\ Sound(enrollment) /\ FileInv /\ ThreadInv /\ SentInv

\* The invariant is what is claimed, and more.
LEMMA IdentityInvariantSuffices == IdentityIInv => EnrolledIsGranted
BY DEF IdentityIInv, Sound, SentInv, EnrolledIsGranted

\* An empty file claims nothing.
LEMMA TornIsSound ==
  ASSUME NoHost \in configured PROVE TornFile \in Files /\ Sound(TornFile)
BY DEF TornFile, Files, Urls, States, Sound

\* Nothing is granted or sent at the start.
LEMMA IdentityInitialStates == IdentityInit => IdentityIInv
BY TornIsSound
   DEF IdentityInit, IdentityIInv, IdentityTypes, Sound, FileInv, ThreadInv, Carries, SentInv, TornFile, EnrolIdle,
       Files, Urls, States, Steps, Modes, Threads

\* A start takes what the file has, or a new identity with nothing, and replaces
\* the host URL by a configured one if there is one.
LEMMA IdentityStartKeeps ==
  ASSUME IdentityIInv, EnterpriseConfigInit PROVE IdentityIInv'
<1> USE IdentityAssumption DEF IdentityIInv
<1>1. /\ cfg' = Loaded(env') /\ env' \in [mode : Modes, url : Urls]
      /\ configured' = configured \cup {env'.url} /\ UNCHANGED <<consent, enrol, sent>>
      /\ enrollment' = TornFile \/ enrollment' = enrollment
      /\ ids' \in Nat /\ phase' \in {"starting", "up"} /\ phase = "down"
  BY DEF EnterpriseConfigInit, OpenEnrollment, IdentityTypes, Urls
<1>2. TornFile \in Files /\ Sound(TornFile)
  BY TornIsSound DEF IdentityTypes
<1>3. IdentityTypes'
  BY <1>1, <1>2 DEF IdentityTypes, Loaded, Files
<1>4. Sound(cfg)'
  BY <1>1 DEF IdentityTypes, Loaded, Files, Sound, FileInv, TornFile, Granted
<1>5. Sound(enrollment)' /\ FileInv'
  BY <1>1, <1>2 DEF Sound, FileInv, Granted, TornFile
<1>6. ThreadInv'
  BY <1>1 DEF ThreadInv, Carries
<1>7. SentInv'
  BY <1>1 DEF SentInv, Granted
<1>8. QED
  BY <1>3, <1>4, <1>5, <1>6, <1>7

\* The rest of the service's own steps.
LEMMA ServiceKeeps ==
  ASSUME IdentityIInv, InitWritten \/ ServiceEnds \/ FleetHeartbeat \/ UNCHANGED identityVars
  PROVE  IdentityIInv'
<1> USE IdentityAssumption DEF IdentityIInv, boundVars, ghostVars
<1>1. CASE InitWritten
  <2>1. /\ enrollment' = Stored(cfg) /\ phase' = "up"
        /\ UNCHANGED <<cfg, env, ids, enrol, sent, configured, consent>>
    BY <1>1 DEF InitWritten
  <2>2. enrollment' \in Files /\ Sound(enrollment)' /\ FileInv'
    BY <2>1 DEF Stored, IdentityTypes, Files, Sound, FileInv, Granted
  <2>3. QED
    BY <2>1, <2>2 DEF IdentityTypes, Sound, ThreadInv, Carries, SentInv, Granted
<1>2. CASE ServiceEnds
  <2>1. EnrolIdle \in Threads
    BY TornIsSound DEF EnrolIdle, Threads, Steps, Urls, IdentityTypes
  <2>2. QED
    BY <1>2, <2>1 DEF ServiceEnds, IdentityTypes, Sound, FileInv, ThreadInv, Carries, SentInv, Granted, EnrolIdle
<1>3. CASE FleetHeartbeat
  <2>1. (sent'.to = cfg.url /\ sent'.id = cfg.id) \/ sent'.to = Garbled
    BY <1>3 DEF FleetHeartbeat
  <2>2. UNCHANGED <<phase, cfg, env, enrollment, ids, enrol, configured, consent>>
    BY <1>3 DEF FleetHeartbeat
  <2>3. SentInv'
    BY <2>1, <2>2 DEF SentInv, Sound, Granted
  <2>4. QED
    BY <2>2, <2>3 DEF IdentityTypes, Sound, FileInv, ThreadInv, Carries, Granted
<1>4. CASE UNCHANGED identityVars
  <2>1. UNCHANGED <<phase, cfg, env, enrollment, ids, enrol, sent, configured, consent>>
    BY <1>4 DEF identityVars
  <2>2. IdentityTypes' /\ FileInv'
    BY <2>1 DEF IdentityTypes, FileInv
  <2>3. Sound(cfg)' /\ Sound(enrollment)' /\ SentInv'
    BY <2>1 DEF SentInv, Sound, Granted
  <2>4. ThreadInv'
    BY <2>1 DEF ThreadInv, Carries, Sound, Granted
  <2>5. QED
    BY <2>2, <2>3, <2>4
<1>5. QED
  BY <1>1, <1>2, <1>3, <1>4

\* A step of one thread that leaves it sound keeps the others, as the identity
\* stays and consent is not withdrawn.
LEMMA OneThread ==
  ASSUME ThreadInv, phase = "up", phase' = "up", cfg'.id = cfg.id,
         consent \subseteq consent', configured' = configured,
         NEW h \in EnrolThreads, Carries(enrol[h])',
         \A g \in EnrolThreads : g # h => enrol'[g] = enrol[g]
  PROVE  ThreadInv'
<1>1. ASSUME NEW g \in EnrolThreads, g # h PROVE Carries(enrol[g])'
  <2>1. enrol'[g] = enrol[g] /\ Carries(enrol[g])
    BY <1>1 DEF ThreadInv
  <2>2. QED
    BY <2>1 DEF Carries, Sound, Granted
<1>2. QED
  BY <1>1 DEF ThreadInv

\* What replacing the state of one thread does to the function of them all.
LEMMA Replaced ==
  ASSUME IdentityTypes, NEW h \in EnrolThreads, NEW t \in Threads,
         enrol' = [enrol EXCEPT ![h] = t]
  PROVE  /\ enrol' \in [EnrolThreads -> Threads] /\ enrol'[h] = t
         /\ \A g \in EnrolThreads : g # h => enrol'[g] = enrol[g]
BY DEF IdentityTypes

\* The steps of RecordLabEnrollment on its thread.
LEMMA RecordKeeps ==
  ASSUME IdentityIInv, NEW h \in EnrolThreads,
         \/ AssignState(h) \/ AssignHost(h) \/ AssignUrl(h)
         \/ OpenToEnrol(h) \/ WriteEnrolment(h) \/ Answer(h)
  PROVE  IdentityIInv'
<1> USE IdentityAssumption DEF IdentityIInv, boundVars, ghostVars, At, GoOn
<1>0. /\ TornFile \in Files /\ Sound(TornFile)
      /\ enrol[h] \in Threads /\ Carries(enrol[h])
  BY TornIsSound DEF IdentityTypes, ThreadInv
<1>1. CASE AssignState(h)
  <2> DEFINE t == [enrol[h] EXCEPT !.at = "host"]
  <2>1. /\ enrol' = [enrol EXCEPT ![h] = t] /\ enrol[h].at = "state" /\ phase = "up"
        /\ cfg' = [cfg EXCEPT !.state = "enrolled_lab"]
        /\ UNCHANGED <<phase, env, enrollment, ids, sent, configured, consent>>
    BY <1>1 DEF AssignState
  <2>2. t \in Threads /\ t.at \notin {"idle", "open", "write"} /\ t.host = enrol[h].host
    BY <1>0 DEF Threads, Steps
  <2>3. cfg' \in [id : Nat, mode : Modes, url : Urls, state : States, host : Urls]
        /\ cfg'.id = cfg.id
    BY <2>1 DEF IdentityTypes, States
  <2>4. /\ enrol' \in [EnrolThreads -> Threads] /\ enrol'[h] = t
        /\ \A g \in EnrolThreads : g # h => enrol'[g] = enrol[g]
    BY <2>1, <2>2, Replaced
  <2>5. Carries(enrol[h])'
    BY <1>0, <2>1, <2>2, <2>3, <2>4 DEF Carries, Granted
  <2>6. ThreadInv'
    BY <2>1, <2>3, <2>4, <2>5, OneThread
  <2>7. Sound(cfg)'
    BY <1>0, <2>1 DEF IdentityTypes, Sound, Carries, Granted
  <2>8. QED
    BY <2>1, <2>3, <2>4, <2>6, <2>7 DEF IdentityTypes, Sound, FileInv, SentInv, Granted
<1>2. CASE AssignHost(h)
  <2> DEFINE t == [enrol[h] EXCEPT !.at = "url"]
  <2>1. /\ enrol' = [enrol EXCEPT ![h] = t] /\ enrol[h].at = "host" /\ phase = "up"
        /\ cfg' = [cfg EXCEPT !.host = enrol[h].host]
        /\ UNCHANGED <<phase, env, enrollment, ids, sent, configured, consent>>
    BY <1>2 DEF AssignHost
  <2>2. t \in Threads /\ t.at \notin {"idle", "open", "write"} /\ t.host = enrol[h].host
    BY <1>0 DEF Threads, Steps
  <2>3. cfg' \in [id : Nat, mode : Modes, url : Urls, state : States, host : Urls]
        /\ cfg'.id = cfg.id
    BY <1>0, <2>1 DEF IdentityTypes, Threads
  <2>4. /\ enrol' \in [EnrolThreads -> Threads] /\ enrol'[h] = t
        /\ \A g \in EnrolThreads : g # h => enrol'[g] = enrol[g]
    BY <2>1, <2>2, Replaced
  <2>5. Carries(enrol[h])'
    BY <1>0, <2>1, <2>2, <2>3, <2>4 DEF Carries, Granted
  <2>6. ThreadInv'
    BY <2>1, <2>3, <2>4, <2>5, OneThread
  <2>7. Sound(cfg)'
    BY <1>0, <2>1 DEF IdentityTypes, Sound, Carries, Granted
  <2>8. QED
    BY <2>1, <2>3, <2>4, <2>6, <2>7 DEF IdentityTypes, Sound, FileInv, SentInv, Granted
<1>3. CASE AssignUrl(h)
  <2> DEFINE t == [enrol[h] EXCEPT !.at = "open", !.json = Stored(cfg')]
  <2>1. /\ enrol' = [enrol EXCEPT ![h] = t] /\ enrol[h].at = "url" /\ phase = "up"
        /\ cfg' = IF enrol[h].scheme THEN [cfg EXCEPT !.url = enrol[h].host] ELSE cfg
        /\ UNCHANGED <<phase, env, enrollment, ids, sent, configured, consent>>
    BY <1>3 DEF AssignUrl
  <2>2. cfg' \in [id : Nat, mode : Modes, url : Urls, state : States, host : Urls]
        /\ cfg'.id = cfg.id
    BY <1>0, <2>1 DEF IdentityTypes, Threads
  <2>3. Sound(cfg)'
    BY <1>0, <2>1 DEF IdentityTypes, Sound, Carries, Granted
  <2>4. Stored(cfg') \in Files /\ Stored(cfg').whole /\ Sound(Stored(cfg))'
    BY <2>2, <2>3 DEF Stored, Files, Sound, Granted
  <2>5. t \in Threads
    BY <1>0, <2>4 DEF Threads, Steps
  <2>6. t.at = "open" /\ t.host = enrol[h].host /\ t.json = Stored(cfg')
    BY <1>0 DEF Threads
  <2>7. /\ enrol' \in [EnrolThreads -> Threads] /\ enrol'[h] = t
        /\ \A g \in EnrolThreads : g # h => enrol'[g] = enrol[g]
    BY <2>1, <2>5, Replaced
  <2>8. Carries(enrol[h])'
    BY <1>0, <2>1, <2>2, <2>4, <2>6, <2>7 DEF Carries, Granted, Sound
  <2>9. ThreadInv'
    BY <2>1, <2>2, <2>7, <2>8, OneThread
  <2>10. QED
    BY <2>1, <2>2, <2>3, <2>7, <2>9 DEF IdentityTypes, Sound, FileInv, SentInv, Granted
<1>4. CASE OpenToEnrol(h)
  <2>1. PICK to \in {"write", "answer"} :
          enrol' = [enrol EXCEPT ![h] = [enrol[h] EXCEPT !.at = to]]
    BY <1>4 DEF OpenToEnrol
  <2> DEFINE t == [enrol[h] EXCEPT !.at = to]
  <2>2. /\ enrollment' = TornFile \/ enrollment' = enrollment
        /\ enrol[h].at = "open" /\ phase = "up"
        /\ UNCHANGED <<phase, cfg, env, ids, sent, configured, consent>>
    BY <1>4 DEF OpenToEnrol, OpenEnrollment
  <2>3. t \in Threads /\ t.at # "idle" /\ t.host = enrol[h].host /\ t.json = enrol[h].json
    BY <1>0 DEF Threads, Steps
  <2>4. /\ enrol' \in [EnrolThreads -> Threads] /\ enrol'[h] = t
        /\ \A g \in EnrolThreads : g # h => enrol'[g] = enrol[g]
    BY <2>1, <2>3, Replaced
  <2>5. ThreadInv'
    <3>1. Carries(enrol[h])'
      BY <1>0, <2>2, <2>3, <2>4 DEF Carries, Sound, Granted
    <3>2. QED
      BY <2>2, <2>4, <3>1, OneThread
  <2>6. enrollment' \in Files /\ Sound(enrollment)' /\ FileInv'
    BY <1>0, <2>2 DEF IdentityTypes, Sound, FileInv, Granted
  <2>7. QED
    BY <2>2, <2>4, <2>5, <2>6 DEF IdentityTypes, Sound, SentInv, Granted
<1>5. CASE WriteEnrolment(h)
  <2> DEFINE t == [enrol[h] EXCEPT !.at = "answer"]
  <2>1. /\ enrollment' = enrol[h].json \/ enrollment' = TornFile
        /\ enrol' = [enrol EXCEPT ![h] = t] /\ enrol[h].at = "write" /\ phase = "up"
        /\ UNCHANGED <<phase, cfg, env, ids, sent, configured, consent>>
    BY <1>5 DEF WriteEnrolment
  <2>2. t \in Threads /\ t.at = "answer" /\ t.host = enrol[h].host
    BY <1>0 DEF Threads, Steps
  <2>3. /\ enrol' \in [EnrolThreads -> Threads] /\ enrol'[h] = t
        /\ \A g \in EnrolThreads : g # h => enrol'[g] = enrol[g]
    BY <2>1, <2>2, Replaced
  <2>4. enrol[h].json \in Files /\ enrol[h].json.whole /\ Sound(enrol[h].json)
    BY <1>0, <2>1 DEF Threads, Carries
  <2>5. enrollment' \in Files /\ Sound(enrollment)' /\ FileInv'
    BY <1>0, <2>1, <2>4 DEF Sound, FileInv, Granted
  <2>6. ThreadInv'
    <3>1. Carries(enrol[h])'
      BY <1>0, <2>1, <2>2, <2>3 DEF Carries, Granted
    <3>2. QED
      BY <2>1, <2>3, <3>1, OneThread
  <2>7. QED
    BY <2>1, <2>3, <2>5, <2>6 DEF IdentityTypes, Sound, SentInv, Granted
<1>6. CASE Answer(h)
  <2>1. /\ enrol' = [enrol EXCEPT ![h] = EnrolIdle] /\ phase = "up"
        /\ UNCHANGED <<phase, cfg, env, enrollment, ids, sent, configured, consent>>
    BY <1>6 DEF Answer
  <2>2. EnrolIdle \in Threads /\ EnrolIdle.at = "idle"
    BY <1>0 DEF EnrolIdle, Threads, Steps, Urls
  <2>3. /\ enrol' \in [EnrolThreads -> Threads] /\ enrol'[h] = EnrolIdle
        /\ \A g \in EnrolThreads : g # h => enrol'[g] = enrol[g]
    BY <2>1, <2>2, Replaced
  <2>4. ThreadInv'
    BY <2>1, <2>2, <2>3, OneThread DEF Carries
  <2>5. QED
    BY <2>1, <2>3, <2>4 DEF IdentityTypes, Sound, FileInv, SentInv, Granted
<1>7. QED
  BY <1>1, <1>2, <1>3, <1>4, <1>5, <1>6

\* A request reaches RecordLabEnrollment only with an operator's consent for the
\* identity of cfg.
LEMMA RequestKeeps ==
  ASSUME IdentityIInv, NEW h \in EnrolThreads, NEW host \in Hosts, NEW id \in 1 .. ids,
         NEW accept \in BOOLEAN, EnrolmentRequest(h, host, id, accept)
  PROVE  IdentityIInv'
<1> USE IdentityAssumption DEF IdentityIInv, ghostVars, At
<1>1. /\ phase = "up" /\ consent \subseteq consent'
      /\ accept => <<host, id>> \in consent'
      /\ UNCHANGED <<phase, cfg, env, enrollment, ids, sent, configured>>
  BY DEF EnrolmentRequest
<1>2. enrol' \in [EnrolThreads -> Threads] /\ ThreadInv'
  <2>1. CASE accept /\ id = cfg.id
    <3>1. PICK scheme \in BOOLEAN :
            enrol' = [enrol EXCEPT ![h] = [EnrolIdle EXCEPT !.at = "state", !.host = host,
                                                            !.scheme = scheme]]
      BY <2>1 DEF EnrolmentRequest
    <3> DEFINE t == [EnrolIdle EXCEPT !.at = "state", !.host = host, !.scheme = scheme]
    <3>2. EnrolIdle \in Threads
      BY TornIsSound DEF EnrolIdle, IdentityTypes, Threads, Steps, Urls
    <3>3. t \in Threads /\ t.at = "state" /\ t.host = host
      BY <3>2 DEF Threads, Steps, Urls
    <3>4. /\ enrol' \in [EnrolThreads -> Threads] /\ enrol'[h] = t
          /\ \A g \in EnrolThreads : g # h => enrol'[g] = enrol[g]
      BY <3>1, <3>3, Replaced
    <3>5. Carries(enrol[h])'
      BY <1>1, <2>1, <3>3, <3>4 DEF Carries, Granted
    <3>6. QED
      BY <1>1, <3>4, <3>5, OneThread
  <2>2. CASE ~(accept /\ id = cfg.id)
    <3>1. UNCHANGED enrol
      BY <2>2 DEF EnrolmentRequest
    <3>2. QED
      BY <1>1, <3>1 DEF IdentityTypes, ThreadInv, Carries, Sound, Granted
  <2>3. QED
    BY <2>1, <2>2
<1>3. QED
  BY <1>1, <1>2 DEF IdentityTypes, Sound, FileInv, SentInv, Granted

\* Every reachable state has the invariant.
LEMMA IdentityInvariance == IdentitySpec => []IdentityIInv
<1>1. IdentityInit => IdentityIInv
  BY IdentityInitialStates
<1>2. IdentityIInv /\ [IdentityNext]_identityVars => IdentityIInv'
  BY IdentityStartKeeps, ServiceKeeps, RequestKeeps, RecordKeeps DEF IdentityNext
<1>3. QED
  BY <1>1, <1>2, PTL DEF IdentitySpec

\* A sensor is enrolled, and tells of itself, only where an operator accepted
\* its identity (LabEnrollmentAllowed, FleetHeartbeatRun), or where it was
\* configured to.
THEOREM EnrolmentIsGranted ==
  IdentitySpec => []EnrolledIsGranted
<1>1. IdentityIInv => EnrolledIsGranted
  BY IdentityInvariantSuffices
<1>2. QED
  BY <1>1, IdentityInvariance, PTL

-----------------------------------------------------------------------------
\* Enrolments that were confirmed.

Confirmed(c) == c.state = "enrolled_lab" /\ answered = {c.id}

\* What a thread inside RecordLabEnrollment has done so far.
Enrolling(t) ==
  /\ t.at \notin {"idle", "state"} => cfg.state = "enrolled_lab"
  /\ t.at \in {"open", "write"} => t.json.state = "enrolled_lab" /\ t.json.id = cfg.id
  /\ t.at \in {"write", "answer"} /\ ~lost /\ enrollment.whole
       => enrollment.state = "enrolled_lab" /\ enrollment.id = cfg.id

KeptIInv ==
  /\ phase # "down" \/ answered # {} \/ enrollment.whole => ids > 0
  /\ ~lost /\ answered # {} =>
       /\ phase # "down" => Confirmed(cfg)
       /\ enrollment.whole => Confirmed(enrollment)
  /\ \A h \in EnrolThreads : Enrolling(enrol[h])

LEMMA KeptInitialStates == IdentityInit => KeptIInv
BY DEF IdentityInit, KeptIInv, Enrolling, EnrolIdle, TornFile

\* A start of a service whose file is not whole, although there was one, has lost it.
LEMMA KeptStartKeeps ==
  ASSUME IdentityIInv, KeptIInv, EnterpriseConfigInit PROVE KeptIInv'
<1>1. /\ phase = "down" /\ cfg' = Loaded(env')
      /\ ids' = (IF enrollment.whole THEN ids ELSE ids + 1)
      /\ lost' = (lost \/ (ids > 0 /\ ~enrollment.whole))
      /\ enrollment' = TornFile \/ enrollment' = enrollment
      /\ UNCHANGED <<enrol, answered>>
  BY DEF EnterpriseConfigInit, OpenEnrollment
<1>2. ids \in Nat
  BY DEF IdentityIInv, IdentityTypes
<1>3. ids' > 0
  BY <1>1, <1>2 DEF KeptIInv
<1>4. ASSUME ~lost', answered # {}
      PROVE  ~lost /\ enrollment.whole /\ Confirmed(enrollment) /\ Confirmed(cfg)'
  <2>1. ~lost /\ enrollment.whole /\ Confirmed(enrollment)
    BY <1>1, <1>4 DEF KeptIInv
  <2>2. cfg'.state = enrollment.state /\ cfg'.id = enrollment.id
    BY <1>1, <2>1 DEF Loaded
  <2>3. QED
    BY <1>1, <2>1, <2>2 DEF Confirmed
<1>5. ~TornFile.whole
  BY DEF TornFile
<1>6. \A h \in EnrolThreads : enrol'[h].at = "idle"
  BY <1>1 DEF IdentityIInv, ThreadInv
<1>7. \A h \in EnrolThreads : Enrolling(enrol[h])'
  BY <1>6 DEF Enrolling
<1>8. QED
  BY <1>1, <1>3, <1>4, <1>5, <1>7 DEF KeptIInv, Confirmed

\* The rest of the service's own steps, and a request.
LEMMA KeptServiceKeeps ==
  ASSUME IdentityIInv, KeptIInv,
         \/ InitWritten \/ ServiceEnds \/ FleetHeartbeat \/ UNCHANGED identityVars
         \/ \E h \in EnrolThreads, host \in Hosts, id \in 1 .. ids, accept \in BOOLEAN :
              EnrolmentRequest(h, host, id, accept)
  PROVE  KeptIInv'
<1> USE DEF KeptIInv, boundVars, ghostVars
<1>1. CASE InitWritten
  <2>1. /\ phase = "starting" /\ enrollment' = Stored(cfg) /\ enrollment'.whole
        /\ enrollment'.state = cfg.state /\ enrollment'.id = cfg.id
        /\ UNCHANGED <<cfg, ids, enrol, answered, lost>>
    BY <1>1 DEF InitWritten, Stored
  <2>2. \A h \in EnrolThreads : enrol'[h].at = "idle"
    BY <2>1 DEF IdentityIInv, ThreadInv
  <2>3. QED
    BY <2>1, <2>2 DEF Confirmed, Enrolling
<1>2. CASE ServiceEnds
  <2>1. /\ phase' = "down" /\ phase # "down" /\ enrol' = [h \in EnrolThreads |-> EnrolIdle]
        /\ UNCHANGED <<cfg, ids, enrollment, answered, lost>>
    BY <1>2 DEF ServiceEnds
  <2>2. \A h \in EnrolThreads : enrol'[h].at = "idle"
    BY <2>1 DEF EnrolIdle
  <2>3. QED
    BY <2>1, <2>2 DEF Confirmed, Enrolling
<1>3. CASE FleetHeartbeat
  BY <1>3 DEF FleetHeartbeat, Confirmed, Enrolling
<1>4. CASE UNCHANGED identityVars
  BY <1>4 DEF identityVars, Confirmed, Enrolling
<1>5. ASSUME NEW h \in EnrolThreads, NEW host \in Hosts, NEW id \in 1 .. ids,
             NEW accept \in BOOLEAN, EnrolmentRequest(h, host, id, accept)
      PROVE  KeptIInv'
  <2>1. UNCHANGED <<phase, cfg, ids, enrollment, answered, lost>>
    BY <1>5 DEF EnrolmentRequest
  <2>2. ASSUME NEW g \in EnrolThreads PROVE enrol'[g] = enrol[g] \/ enrol'[g].at = "state"
    <3>1. enrol \in [EnrolThreads -> Threads]
      BY DEF IdentityIInv, IdentityTypes
    <3>2. EnrolIdle \in Threads
      BY TornIsSound DEF IdentityIInv, EnrolIdle, IdentityTypes, Threads, Steps, Urls
    <3>3. CASE accept /\ id = cfg.id
      <4>1. PICK scheme \in BOOLEAN :
              enrol' = [enrol EXCEPT ![h] = [EnrolIdle EXCEPT !.at = "state", !.host = host,
                                                              !.scheme = scheme]]
        BY <1>5, <3>3 DEF EnrolmentRequest
      <4>2. [EnrolIdle EXCEPT !.at = "state", !.host = host, !.scheme = scheme].at = "state"
        BY <3>2 DEF Threads
      <4>3. QED
        BY <3>1, <4>1, <4>2
    <3>4. CASE ~(accept /\ id = cfg.id)
      BY <1>5, <3>4 DEF EnrolmentRequest
    <3>5. QED
      BY <3>3, <3>4
  <2>3. \A g \in EnrolThreads : Enrolling(enrol[g])'
    BY <2>1, <2>2 DEF Enrolling
  <2>4. QED
    BY <2>1, <2>3 DEF Confirmed
<1>6. QED
  BY <1>1, <1>2, <1>3, <1>4, <1>5

\* A step of a thread that leaves what the others have done.
LEMMA OtherThreads ==
  ASSUME KeptIInv, NEW h \in EnrolThreads, cfg'.id = cfg.id,
         cfg.state = "enrolled_lab" => cfg'.state = "enrolled_lab",
         ~lost' => ~lost,
         \/ enrollment' = enrollment
         \/ enrollment'.whole =>
              enrollment'.state = "enrolled_lab" /\ enrollment'.id = cfg.id,
         Enrolling(enrol[h])',
         \A g \in EnrolThreads : g # h => enrol'[g] = enrol[g]
  PROVE  \A g \in EnrolThreads : Enrolling(enrol[g])'
<1>1. ASSUME NEW g \in EnrolThreads, g # h PROVE Enrolling(enrol[g])'
  <2>1. enrol'[g] = enrol[g] /\ Enrolling(enrol[g])
    BY <1>1 DEF KeptIInv
  <2>2. QED
    BY <2>1 DEF Enrolling
<1>2. QED
  BY <1>1

\* The steps of RecordLabEnrollment, and the answer.
LEMMA KeptRecordKeeps ==
  ASSUME IdentityIInv, KeptIInv, NEW h \in EnrolThreads,
         \/ AssignState(h) \/ AssignHost(h) \/ AssignUrl(h)
         \/ OpenToEnrol(h) \/ WriteEnrolment(h) \/ Answer(h)
  PROVE  KeptIInv'
<1> USE DEF boundVars, ghostVars, At, GoOn
<1>0. /\ enrol \in [EnrolThreads -> Threads] /\ enrol[h] \in Threads /\ Enrolling(enrol[h])
      /\ cfg \in [id : Nat, mode : Modes, url : Urls, state : States, host : Urls]
  BY DEF IdentityIInv, IdentityTypes, KeptIInv
<1>1. CASE AssignState(h)
  <2>1. /\ phase = "up" /\ cfg' = [cfg EXCEPT !.state = "enrolled_lab"]
        /\ enrol' = [enrol EXCEPT ![h].at = "host"]
        /\ UNCHANGED <<phase, ids, enrollment, answered, lost>>
    BY <1>1 DEF AssignState
  <2>2. /\ cfg'.state = "enrolled_lab" /\ cfg'.id = cfg.id /\ enrol'[h].at = "host"
        /\ \A g \in EnrolThreads : g # h => enrol'[g] = enrol[g]
    BY <1>0, <2>1 DEF Threads
  <2>3. Enrolling(enrol[h])'
    BY <2>2 DEF Enrolling
  <2>4. \A g \in EnrolThreads : Enrolling(enrol[g])'
    BY <2>1, <2>2, <2>3, OtherThreads
  <2>5. QED
    BY <2>1, <2>2, <2>4 DEF KeptIInv, Confirmed
<1>2. CASE AssignHost(h)
  <2>1. /\ phase = "up" /\ cfg' = [cfg EXCEPT !.host = enrol[h].host]
        /\ enrol[h].at = "host" /\ enrol' = [enrol EXCEPT ![h].at = "url"]
        /\ UNCHANGED <<phase, ids, enrollment, answered, lost>>
    BY <1>2 DEF AssignHost
  <2>2. /\ cfg'.state = cfg.state /\ cfg'.id = cfg.id /\ enrol'[h].at = "url"
        /\ \A g \in EnrolThreads : g # h => enrol'[g] = enrol[g]
    BY <1>0, <2>1 DEF Threads
  <2>3. Enrolling(enrol[h])'
    BY <1>0, <2>1, <2>2 DEF Enrolling
  <2>4. \A g \in EnrolThreads : Enrolling(enrol[g])'
    BY <2>1, <2>2, <2>3, OtherThreads
  <2>5. QED
    BY <2>1, <2>2, <2>4 DEF KeptIInv, Confirmed
<1>3. CASE AssignUrl(h)
  <2>1. /\ phase = "up" /\ cfg' = (IF enrol[h].scheme THEN [cfg EXCEPT !.url = enrol[h].host] ELSE cfg)
        /\ enrol[h].at = "url"
        /\ enrol' = [enrol EXCEPT ![h] = [enrol[h] EXCEPT !.at = "open", !.json = Stored(cfg')]]
        /\ UNCHANGED <<phase, ids, enrollment, answered, lost>>
    BY <1>3 DEF AssignUrl
  <2>2. cfg'.state = cfg.state /\ cfg'.id = cfg.id
    BY <1>0, <2>1
  <2>3. /\ enrol'[h].at = "open" /\ enrol'[h].json = Stored(cfg')
        /\ \A g \in EnrolThreads : g # h => enrol'[g] = enrol[g]
    BY <1>0, <2>1 DEF Threads
  <2>4. Enrolling(enrol[h])'
    <3>1. cfg.state = "enrolled_lab"
      BY <1>0, <2>1 DEF Enrolling
    <3>2. Stored(cfg').state = cfg'.state /\ Stored(cfg').id = cfg'.id
      BY DEF Stored
    <3>3. QED
      BY <3>1, <3>2, <2>2, <2>3 DEF Enrolling
  <2>5. \A g \in EnrolThreads : Enrolling(enrol[g])'
    BY <2>1, <2>2, <2>3, <2>4, OtherThreads
  <2>6. QED
    BY <2>1, <2>2, <2>5 DEF KeptIInv, Confirmed
<1>4. CASE OpenToEnrol(h)
  <2>1. PICK opened \in BOOLEAN :
          /\ OpenEnrollment(opened)
          /\ enrol' = [enrol EXCEPT ![h].at = IF opened THEN "write" ELSE "answer"]
          /\ lost' = (lost \/ ~opened)
    BY <1>4 DEF OpenToEnrol
  <2>2. enrol[h].at = "open" /\ phase = "up" /\ UNCHANGED <<phase, cfg, ids, answered>>
    BY <1>4 DEF OpenToEnrol
  <2>3. /\ opened => ~enrollment'.whole
        /\ ~opened => enrollment' = enrollment /\ lost'
        /\ ~lost' => ~lost
    BY <2>1 DEF OpenEnrollment, TornFile
  <2>4. /\ enrol'[h].at = (IF opened THEN "write" ELSE "answer")
        /\ enrol'[h].json = enrol[h].json
        /\ \A g \in EnrolThreads : g # h => enrol'[g] = enrol[g]
    BY <1>0, <2>1 DEF Threads
  <2>5. Enrolling(enrol[h])'
    BY <1>0, <2>2, <2>3, <2>4 DEF Enrolling
  <2>6. \A g \in EnrolThreads : Enrolling(enrol[g])'
    BY <2>2, <2>3, <2>4, <2>5, OtherThreads
  <2>7. QED
    BY <2>2, <2>3, <2>6 DEF KeptIInv, Confirmed
<1>5. CASE WriteEnrolment(h)
  <2>1. /\ enrol[h].at = "write" /\ phase = "up"
        /\ enrollment' = enrol[h].json \/ enrollment' = TornFile
        /\ enrol' = [enrol EXCEPT ![h].at = "answer"]
        /\ UNCHANGED <<phase, cfg, ids, answered, lost>>
    BY <1>5 DEF WriteEnrolment
  <2>2. enrollment'.whole => enrollment'.state = "enrolled_lab" /\ enrollment'.id = cfg.id
    BY <1>0, <2>1 DEF Enrolling, TornFile
  <2>3. enrol'[h].at = "answer" /\ \A g \in EnrolThreads : g # h => enrol'[g] = enrol[g]
    BY <1>0, <2>1 DEF Threads
  <2>4. Enrolling(enrol[h])'
    BY <1>0, <2>1, <2>2, <2>3 DEF Enrolling
  <2>5. \A g \in EnrolThreads : Enrolling(enrol[g])'
    BY <2>1, <2>2, <2>3, <2>4, OtherThreads
  <2>6. QED
    BY <2>1, <2>2, <2>5 DEF KeptIInv, Confirmed
<1>6. CASE Answer(h)
  <2>1. /\ enrol[h].at = "answer" /\ phase = "up" /\ enrol' = [enrol EXCEPT ![h] = EnrolIdle]
        /\ answered' = answered \cup {cfg.id}
        /\ UNCHANGED <<phase, cfg, ids, enrollment, lost>>
    BY <1>6 DEF Answer
  <2>2. enrol'[h].at = "idle" /\ \A g \in EnrolThreads : g # h => enrol'[g] = enrol[g]
    BY <1>0, <2>1 DEF EnrolIdle
  <2>3. Enrolling(enrol[h])'
    BY <2>2 DEF Enrolling
  <2>4. \A g \in EnrolThreads : Enrolling(enrol[g])'
    BY <2>1, <2>2, <2>3, OtherThreads
  <2>5. ~lost => answered' = {cfg.id}
    BY <2>1 DEF KeptIInv, Confirmed
  <2>6. ~lost => Confirmed(cfg)' /\ (enrollment.whole => Confirmed(enrollment)')
    BY <1>0, <2>1, <2>5 DEF Enrolling, Confirmed
  <2>7. QED
    BY <2>1, <2>4, <2>6 DEF KeptIInv
<1>7. QED
  BY <1>1, <1>2, <1>3, <1>4, <1>5, <1>6

\* An enrolment that was confirmed to the host (RecordLabEnrollment) outlives the
\* service, unless its file was torn or not written.
THEOREM ConfirmedIsKept == IdentitySpec => []EnrolmentIsKept
<1>1. IdentityInit => KeptIInv
  BY KeptInitialStates
<1>2. IdentityIInv /\ KeptIInv /\ [IdentityNext]_identityVars => KeptIInv'
  BY KeptStartKeeps, KeptServiceKeeps, KeptRecordKeeps DEF IdentityNext
<1>3. KeptIInv => EnrolmentIsKept
  BY DEF KeptIInv, EnrolmentIsKept, Confirmed
<1>4. QED
  BY <1>1, <1>2, <1>3, IdentityInvariance, PTL DEF IdentitySpec
=============================================================================
