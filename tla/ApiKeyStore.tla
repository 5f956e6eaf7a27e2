---------------------------- MODULE ApiKeyStore -----------------------------
(***************************************************************************)
(* The store of API keys (service/api_key_store.cpp).  Every operation is  *)
(* under one mutex and ends with Save, which truncates store.json, puts    *)
(* the keys into the stream's buffer, regenerates API.md and only then     *)
(* closes the file; after that, without the mutex, the HTTP handler        *)
(* regenerates API.md once more.  The process may end at any point.        *)
(* A key's bearer token is as good as its id, which is drawn anew for each *)
(* key; the name stands for what a rotation hands on.                      *)
(***************************************************************************)
EXTENDS Integers, Sequences, FiniteSets, SequencesExt

CONSTANTS Https,      \* HTTP threads
          Types,      \* the expiry types asked for
          Dates,      \* the dates asked for with "custom"; 0: none
          SaveFails,  \* may store.json not be opened?
          Week,       \* the life of a "week" key
          MaxKeys,    \* bound: keys ever created
          MaxTime,    \* bound: the clock
          MaxBoots    \* bound: starts of the service

ASSUME KeysAssumption ==
  /\ Types \subseteq {"permanent", "session", "week", "custom"}
  /\ Dates \subseteq Nat /\ SaveFails \in BOOLEAN
  /\ Week \in Nat \ {0} /\ MaxKeys \in Nat /\ MaxTime \in Nat /\ MaxBoots \in Nat

VARIABLES
  up, boot,     \* is the service running, and for the how manieth time
  now,          \* the clock
  keys,         \* m_keys
  store,        \* store.json: the keys in it, and is it whole JSON?
  unsaved,      \* has an opening of store.json ever failed?
  apiMd,        \* API.md: the ids of the keys it lists
  next,         \* the ids drawn so far
  pc, seen,     \* per HTTP thread: where it is, the keys GenerateApiMd has read
  granted       \* per id what its owner was told: the type, the boot, the end,
                \* and how far its creation or its removal has got

keyVars == <<up, boot, now, keys, store, unsaved, apiMd, next, pc, seen, granted>>

Torn == [whole |-> FALSE, keys |-> <<>>]
File(list) == [whole |-> TRUE, keys |-> list]
Ids  == 1 .. MaxKeys
Key  == [id : Ids, type : Types, expires_at : Dates \cup 0 .. MaxTime + Week, active : BOOLEAN]

\* The mutex: who is in Save.
Locked == \E h \in Https : pc[h].at \in {"save", "write", "md"}

IdsOf(list) == {list[i].id : i \in DOMAIN list}
Idle == [at |-> "idle", made |-> {}, gone |-> {}]

KeysInit ==
  /\ up = FALSE /\ boot = 0 /\ now = 0
  /\ keys = <<>> /\ store = File(<<>>) /\ unsaved = FALSE /\ apiMd = {}
  /\ next = 0
  /\ pc = [h \in Https |-> Idle] /\ seen = [h \in Https |-> {}]
  /\ granted = [i \in Ids |-> [state |-> "none", type |-> "none", boot |-> 0, until |-> 0]]

-----------------------------------------------------------------------------
\* Expiry.

ExpiryMs(type, custom) == CASE type = "week" -> now + Week
                            [] type = "custom" -> custom
                            [] OTHER -> 0

\* A custom key with no date does not expire; session keys have none.
IsExpired(k) ==
  \/ ~k.active
  \/ k.type \notin {"permanent", "session"} /\ k.expires_at # 0 /\ now > k.expires_at

\* Validate, for the token that belongs to the id.
Validate(id) == \E i \in DOMAIN keys : keys[i].id = id /\ ~IsExpired(keys[i])

-----------------------------------------------------------------------------
\* The operations, up to Save.

NewKey(type, expires_at) ==
  [id |-> next + 1, type |-> type, expires_at |-> expires_at, active |-> TRUE]

\* What the key is good for: a rotated custom key only as long as the old one.
GrantOf(k) ==
  [state |-> "made", type |-> k.type, boot |-> boot,
   until |-> IF k.type \in {"week", "custom"} THEN k.expires_at ELSE 0]

\* The request of h: made are the ids it creates, gone those it removes.
Enter(h, made, gone) ==
  /\ up /\ pc[h].at = "idle" /\ ~Locked
  /\ pc' = [pc EXCEPT ![h] = [at |-> "save", made |-> made, gone |-> gone]]
  /\ next' = next + Cardinality(made)
  /\ granted' = [id \in Ids |->
       IF id \in made THEN GrantOf(keys'[Len(keys')])
       ELSE IF id \in gone THEN [granted[id] EXCEPT !.state = "doomed"] ELSE granted[id]]
  /\ UNCHANGED <<up, boot, now, store, apiMd, seen, unsaved>>

Create(h, type, custom) ==
  /\ next < MaxKeys
  /\ keys' = Append(keys, NewKey(type, ExpiryMs(type, custom)))
  /\ Enter(h, {next + 1}, {})

Delete(h, id) ==
  /\ \E i \in DOMAIN keys : keys[i].id = id /\ keys' = RemoveAt(keys, i)
  /\ Enter(h, {}, {id})

\* Delete or Rotate of a key that is not there: the handler goes on.
Missing(h, id) ==
  /\ up /\ pc[h].at = "idle" /\ ~Locked /\ id \notin IdsOf(keys)
  /\ pc' = [pc EXCEPT ![h].at = "handler"]
  /\ UNCHANGED <<up, boot, now, keys, store, apiMd, next, seen, granted, unsaved>>

Replacement(k) ==
  NewKey(k.type, IF k.type = "week" THEN ExpiryMs("week", 0) ELSE k.expires_at)

\* Mutant: the old key not erased.
RotateKeepsOld(h, id) ==
  /\ next < MaxKeys
  /\ \E i \in DOMAIN keys :
       keys[i].id = id /\ keys' = Append(keys, Replacement(keys[i]))
  /\ Enter(h, {next + 1}, {id})

(* The replacement has the name and type of the old key.  A week starts    *)
(* anew, a custom date stays, and an inactive key becomes an active one.   *)
Rotate(h, id) ==
  /\ next < MaxKeys
  /\ \E i \in DOMAIN keys :
       keys[i].id = id /\ keys' = Append(RemoveAt(keys, i), Replacement(keys[i]))
  /\ Enter(h, {next + 1}, {id})

-----------------------------------------------------------------------------
\* Save, and what the handler does after it.

Go(h, at) == pc' = [pc EXCEPT ![h].at = at]

\* The file is opened, which empties it; if that fails Save ends here, and
\* nobody looks at its result.
OpenStore(h) ==
  /\ up /\ pc[h].at = "save"
  /\ \/ store' = Torn /\ Go(h, "md") /\ UNCHANGED unsaved
     \/ SaveFails /\ Go(h, "handler") /\ unsaved' = TRUE /\ UNCHANGED store
  /\ UNCHANGED <<up, boot, now, keys, apiMd, next, seen, granted>>

\* m_on_change.
OnChange(h) ==
  /\ up /\ pc[h].at = "md"
  /\ apiMd' = IdsOf(keys)
  /\ Go(h, "write")
  /\ UNCHANGED <<up, boot, now, keys, store, next, seen, granted, unsaved>>

\* The file is closed and the mutex released.
WriteStore(h) ==
  /\ up /\ pc[h].at = "write"
  /\ store' = File(keys)
  /\ Go(h, "handler")
  /\ UNCHANGED <<up, boot, now, keys, apiMd, next, seen, granted, unsaved>>

\* The handler's GenerateApiMd reads the keys, without the mutex ...
ReadForApiMd(h) ==
  /\ up /\ pc[h].at = "handler"
  /\ seen' = [seen EXCEPT ![h] = IdsOf(keys)]
  /\ Go(h, "generate")
  /\ UNCHANGED <<up, boot, now, keys, store, apiMd, next, granted, unsaved>>

\* ... and what it has written is on disk when it closes the file; then the
\* request is answered.
WriteApiMd(h) ==
  /\ up /\ pc[h].at = "generate"
  /\ apiMd' = seen[h]
  /\ granted' = [id \in Ids |->
       IF id \in pc[h].gone THEN [granted[id] EXCEPT !.state = "revoked"]
       ELSE IF id \in pc[h].made /\ granted[id].state = "made"
            THEN [granted[id] EXCEPT !.state = "told"] ELSE granted[id]]
  /\ pc' = [pc EXCEPT ![h] = Idle]
  /\ UNCHANGED <<up, boot, now, keys, store, next, seen, unsaved>>

-----------------------------------------------------------------------------
\* Mutant: session keys stay.
PurgeSessionKeysNot(list) == list

PurgeSessionKeys(list) ==
  [i \in DOMAIN list |-> [list[i] EXCEPT !.active = @ /\ list[i].type # "session"]]

(* KeyStoreInit and the rest of InitStores, before any thread exists: a    *)
(* file that cannot be parsed counts as empty, and only a purge that       *)
(* changed something is saved.                                             *)
Boot ==
  /\ ~up /\ boot < MaxBoots
  /\ up' = TRUE /\ boot' = boot + 1
  /\ keys' = PurgeSessionKeys(store.keys)
  /\ \/ keys' = store.keys /\ UNCHANGED <<store, unsaved>>
     \/ keys' # store.keys /\ store' = File(keys') /\ UNCHANGED unsaved
     \/ keys' # store.keys /\ SaveFails /\ unsaved' = TRUE /\ UNCHANGED store
  /\ apiMd' = IdsOf(keys')
  /\ UNCHANGED <<now, next, pc, seen, granted>>

\* The process ends while the purge is saved.
BootCut ==
  /\ ~up /\ boot < MaxBoots /\ PurgeSessionKeys(store.keys) # store.keys
  /\ boot' = boot + 1 /\ store' = Torn
  /\ UNCHANGED <<up, now, keys, apiMd, next, pc, seen, granted, unsaved>>

Crash ==
  /\ up
  /\ up' = FALSE /\ keys' = <<>>
  /\ pc' = [h \in Https |-> Idle] /\ seen' = [h \in Https |-> {}]
  /\ UNCHANGED <<boot, now, store, apiMd, next, granted, unsaved>>

Tick == /\ now < MaxTime
        /\ now' = now + 1
        /\ UNCHANGED <<up, boot, keys, store, apiMd, next, pc, seen, granted, unsaved>>

-----------------------------------------------------------------------------
Request(h) == \/ \E type \in Types, custom \in Dates :
                   (type # "custom" => custom = 0) /\ Create(h, type, custom)
              \/ \E id \in Ids : Delete(h, id) \/ Rotate(h, id) \/ Missing(h, id)

Handler(h) == OpenStore(h) \/ WriteStore(h) \/ OnChange(h) \/ ReadForApiMd(h) \/ WriteApiMd(h)

KeysNext == (\E h \in Https : Request(h) \/ Handler(h)) \/ Boot \/ BootCut \/ Crash \/ Tick

KeysSpec == KeysInit /\ [][KeysNext]_keyVars

-----------------------------------------------------------------------------
TypeOK ==
  /\ up \in BOOLEAN /\ unsaved \in BOOLEAN /\ boot \in 0 .. MaxBoots /\ now \in 0 .. MaxTime
  /\ keys \in Seq(Key) /\ store \in [whole : BOOLEAN, keys : Seq(Key)]
  /\ apiMd \subseteq Ids /\ next \in 0 .. MaxKeys
  /\ pc \in [Https -> [at : {"idle", "save", "write", "md", "handler", "generate"},
                       made : SUBSET Ids, gone : SUBSET Ids]]
  /\ Cardinality({h \in Https : pc[h].at \in {"save", "write", "md"}}) <= 1
  /\ seen \in [Https -> SUBSET Ids]
  /\ \A i, j \in DOMAIN keys : keys[i].id = keys[j].id => i = j

(* README, "Permanent, Session (purged on service restart), 7-day, 30-day, *)
(* or Custom": no token is accepted after the end of what was granted for  *)
(* it, however often the service went down, also in the middle of a Save,  *)
(* and whatever was rotated.                                               *)
AcceptedIsGranted ==
  \A id \in Ids : up /\ Validate(id) =>
    LET g == granted[id]
    IN  /\ g.state # "none"
        /\ g.type = "session" => g.boot = boot
        /\ g.until # 0 => now <= g.until

(* README, rotation "invalidates the old one": a token whose deletion or   *)
(* rotation was answered is never accepted again, also after restarts;     *)
(* provided that store.json could always be opened.                        *)
RevokedStaysRevoked ==
  ~unsaved => \A id \in Ids : granted[id].state = "revoked" => ~Validate(id)

\* One thread at a time holds the store's mutex, no id is in it twice, and what
\* was removed stays removed.
KeysInv == TypeOK /\ RevokedStaysRevoked

-----------------------------------------------------------------------------
(* What the documents say, and the code does not do.                       *)

\* README.md:1036, of a rotation: "invalidates the old one", whether or not
\* store.json could be written.
RotationInvalidates ==
  \A id \in Ids : granted[id].state = "revoked" => ~Validate(id)

(* README, "Keys are stored hashed ... in store.json": a permanent key that *)
(* was handed out, and whose removal nobody has asked for, is accepted.    *)
KeysAreStored ==
  \A id \in Ids : up /\ granted[id].state = "told" /\ granted[id].type = "permanent"
    => Validate(id)

(* README, "auto-generated ... on every key create, delete, or rotate. It  *)
(* contains ... the active key prefix list": between requests API.md lists *)
(* the keys of the store.                                                  *)
ApiMdIsCurrent ==
  up /\ (\A h \in Https : pc[h].at = "idle") => apiMd = IdsOf(keys)
=============================================================================
