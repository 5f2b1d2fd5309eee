---------------------------- MODULE CommonProofs ----------------------------
(***************************************************************************)
(* Proofs about two components of darktable's core: NativeCache, the LRU   *)
(* cache of common/cache.c, and DevelopHistory, the edit history with the  *)
(* undo lists of common/undo.c.                                            *)
(*                                                                         *)
(* The cache: the inductive invariant says who may hold the mutex, what a  *)
(* thread at each point of a call holds, and that the table, the list and  *)
(* the cost agree; from it follow WellFormed and the refinement of         *)
(* LeaseCache.                                                             *)
(*                                                                         *)
(* The history: first what the operators on lists do (InOrder and Picked,  *)
(* the states on a list, the groups on it, a move from one list to the     *)
(* other, records), then what those on histories do (Shown, Added, Read,   *)
(* Compressed), then the inductive invariant HistoryInv; from it follow    *)
(* HistoryWellFormed, ControlsShowHistory and the refinement of Timeline.  *)
(***************************************************************************)
EXTENDS NativeCache, DevelopHistory, DataFacts, TLAPS

(* The LRU cache: NativeCache. *)

(* The table maps a key to an entry of that key. *)
MapInv == \A k \in Key : hashtable[k] # None => entryKey[hashtable[k]] = k

LruInv == Distinct(lru) /\ Range(lru) = Published

CostInv == cost = SumFunctionOnSet(entryCost, Published)

TableInv == MapInv /\ LruInv /\ CostInv

(* The mutex is kept over several steps by a collection and the allocation  *)
(* that follows it, for a key that stays missing all the while.             *)
LockInv ==
  \A t \in Thread :
    /\ pc[t] \in {"gc", "allocate"} <=> lock = t
    /\ lock = t => hashtable[key[t]] = None

(* What a collection has still to look at is in the table. *)
RestInv ==
  \A t \in Thread : pc[t] = "gc" => Distinct(rest[t]) /\ Range(rest[t]) \subseteq Published

Leasing == {"got", "generate", "demote", "held"}

(* A thread that has a slot holds the lock of the entry published for its   *)
(* key, and no other; a write lock excludes readers.                        *)
HoldInv ==
  /\ \A t \in Thread :
       /\ slot[t] # None <=> pc[t] \in Leasing
       /\ slot[t] # None => /\ hashtable[key[t]] = slot[t]
                            /\ t \in readers[slot[t]] \/ writer[slot[t]] = t
  /\ \A s \in Slot : \A t \in Thread : t \in readers[s] \/ writer[s] = t => slot[t] = s
  /\ \A s \in Slot : writer[s] # None => readers[s] = {}

IndInv == TypeOK /\ TableInv /\ LockInv /\ RestInv /\ HoldInv /\ FlagHasOwner

(* A step of a thread leaves the calls of the others alone. *)
Others(t) ==
  \A u \in Thread : u # t =>
    /\ pc'[u] = pc[u] /\ key'[u] = key[u] /\ mode'[u] = mode[u]
    /\ slot'[u] = slot[u] /\ again'[u] = again[u] /\ rest'[u] = rest[u]

-----------------------------------------------------------------------------
(* The table and its helpers. *)

(* Some key is a key.                                                       *)
LEMMA AnyKeyInKey == AnyKey \in Key
BY CacheConstants DEF AnyKey

(* What a published entry is.                                               *)
LEMMA PublishedFacts ==
  ASSUME TypeOK, MapInv
  PROVE  /\ Published \subseteq Slot /\ IsFiniteSet(Published) /\ None \notin Published
         /\ \A k \in Key : hashtable[k] # None => hashtable[k] \in Published
         /\ \A s \in Published : hashtable[entryKey[s]] = s
<1>1. Published \subseteq Slot
  BY DEF TypeOK, Published
<1>2. IsFiniteSet(Published)
  BY <1>1, CacheConstants, FS_Subset
<1> QED BY <1>1, <1>2 DEF Published, MapInv, TypeOK

(* There are no fewer slots than keys: a missing key leaves one free. *)
LEMMA NewSlotIsFree ==
  ASSUME TypeOK, MapInv, NEW k \in Key, hashtable[k] = None
  PROVE  NewSlot \in Slot /\ NewSlot \notin Published
<1> SUFFICES ASSUME Slot \subseteq Published PROVE FALSE
  BY DEF NewSlot
<1>1. Slot = Published
  BY PublishedFacts
<1>2. \A s \in Slot : entryKey[s] \in Key \ {k} /\ hashtable[entryKey[s]] = s
  BY <1>1, PublishedFacts, CacheConstants DEF TypeOK
<1>3. entryKey \in Injection(Slot, Key \ {k})
  BY <1>2 DEF TypeOK, Injection, IsInjective
<1>4. IsFiniteSet(Key \ {k}) /\ Cardinality(Key \ {k}) = Cardinality(Key) - 1
  BY CacheConstants, FS_RemoveElement
<1>5. Cardinality(Slot) =< Cardinality(Key \ {k})
  BY <1>3, <1>4, FS_Injection DEF ExistsInjection
<1>6. Cardinality(Slot) \in Nat /\ Cardinality(Key) \in Nat
  BY CacheConstants, FS_CardinalityType
<1> QED BY <1>4, <1>5, <1>6, CacheConstants

(* Moving an entry to the front of the list keeps table and list in         *)
(* agreement.                                                               *)
LEMMA BubbleUpKeepsTable ==
  ASSUME TypeOK, TableInv, NEW s \in Published, BubbleUp(s),
         UNCHANGED <<hashtable, cost, entryKey, entryCost>>
  PROVE  lru' \in Seq(Slot) /\ TableInv'
<1>1. s \in Slot /\ lru \in Seq(Slot) /\ Distinct(lru) /\ Range(lru) = Published
  BY PublishedFacts DEF TypeOK, TableInv, LruInv
<1>2. PICK q \in Seq(Slot) : q = RemoveFirst(lru, s) /\ Distinct(q) /\ Range(q) = Published \ {s}
  BY <1>1, RemoveFirstFacts
<1>3. lru' = Append(q, s)
  BY <1>2 DEF BubbleUp
<1>4. Published' = Published
  BY DEF Published
<1>5. lru' \in Seq(Slot) /\ Distinct(lru') /\ Range(lru') = Published
  <2>1. /\ Range(Append(q, s)) = Range(q) \cup {s}
        /\ s \notin Range(q) => Distinct(Append(q, s))
    BY <1>1, <1>2, AppendFacts
  <2>2. Append(q, s) \in Seq(Slot)
    BY <1>1
  <2>3. s \notin Range(q) /\ Range(q) \cup {s} = Published
    BY <1>2
  <2> QED BY <1>3, <2>1, <2>2, <2>3
<1> QED BY <1>4, <1>5 DEF TableInv, MapInv, LruInv, CostInv

(* Removing an entry from table, list and cost keeps them in agreement.     *)
LEMMA DeleteKeepsTable ==
  ASSUME TypeOK, TableInv, NEW s \in Published, Delete(s), UNCHANGED <<entryKey, entryCost>>
  PROVE  /\ hashtable' \in [Key -> Slot \cup {None}] /\ lru' \in Seq(Slot) /\ cost' \in Nat
         /\ TableInv' /\ Published' = Published \ {s}
         /\ \A k \in Key : \/ hashtable'[k] = hashtable[k]
                           \/ hashtable[k] = s /\ hashtable'[k] = None
<1>1. PICK k \in Key : k = entryKey[s] /\ hashtable[k] = s
  BY PublishedFacts DEF TypeOK, TableInv
<1>2. s \in Slot /\ s # None
  BY PublishedFacts DEF TableInv
<1>3. hashtable' = [hashtable EXCEPT ![k] = None]
  BY <1>1 DEF Delete
<1>4. \A j \in Key : hashtable[j] = s => j = k
  BY <1>1, <1>2 DEF TableInv, MapInv
<1>5. Published' = Published \ {s}
  BY <1>1, <1>3, <1>4 DEF Published, TypeOK
<1>6. lru' \in Seq(Slot) /\ Distinct(lru') /\ Range(lru') = Published \ {s}
  BY <1>2, RemoveFirstFacts DEF Delete, TypeOK, TableInv, LruInv
<1>7. \A x \in Published : entryCost[x] \in Nat
  BY PublishedFacts DEF TypeOK, TableInv
<1>8. IsFiniteSet(Published) /\ IsFiniteSet(Published \ {s})
  BY PublishedFacts, FS_Subset DEF TableInv
<1>9. SumFunctionOnSet(entryCost, Published) = entryCost[s] + SumFunctionOnSet(entryCost, Published \ {s})
  BY <1>7, <1>8, SumOverRemove
<1>10. SumFunctionOnSet(entryCost, Published \ {s}) \in Nat
  BY <1>7, <1>8, SumOverType
<1>11. cost' = cost - entryCost[s] /\ cost = SumFunctionOnSet(entryCost, Published)
  BY DEF Delete, TableInv, CostInv
<1>12. cost' = SumFunctionOnSet(entryCost, Published \ {s}) /\ cost' \in Nat
  BY <1>7, <1>9, <1>10, <1>11
<1>13. MapInv'
  BY <1>3 DEF MapInv, TableInv, TypeOK
<1> QED BY <1>1, <1>3, <1>4, <1>5, <1>6, <1>12, <1>13 DEF TableInv, LruInv, CostInv, TypeOK

(* Adding an entry to table, list and cost keeps them in agreement.         *)
LEMMA InsertKeepsTable ==
  ASSUME TypeOK, TableInv, NEW t \in Thread, hashtable[key[t]] = None,
         NEW s \in Slot, s \notin Published, NEW c \in Costs, Insert(t, s, c),
         entryKey' = [entryKey EXCEPT ![s] = key[t]],
         entryCost' = [entryCost EXCEPT ![s] = c]
  PROVE  /\ hashtable' \in [Key -> Slot \cup {None}] /\ lru' \in Seq(Slot) /\ cost' \in Nat
         /\ TableInv' /\ Published' = Published \cup {s}
<1>1. PICK k \in Key : k = key[t] /\ hashtable[k] = None
  BY DEF TypeOK
<1>2. hashtable' = [hashtable EXCEPT ![k] = s]
  BY <1>1 DEF Insert
<1>3. s # None /\ c \in Nat
  BY CacheConstants
<1>4. Published' = Published \cup {s}
  BY <1>1, <1>2, <1>3 DEF Published, TypeOK
<1>5. lru' \in Seq(Slot) /\ Distinct(lru') /\ Range(lru') = Published \cup {s}
  BY AppendFacts DEF Insert, TypeOK, TableInv, LruInv
<1>6. MapInv'
  BY <1>1, <1>2, <1>3, PublishedFacts DEF MapInv, TableInv, TypeOK
<1> DEFINE f == entryCost
           g == entryCost'
<1>7. /\ \A x \in Published : f[x] \in Nat /\ g[x] = f[x]
      /\ g[s] = c /\ IsFiniteSet(Published)
  BY PublishedFacts DEF TypeOK, TableInv
<1>8. cost = SumFunctionOnSet(f, Published) /\ cost \in Nat /\ cost' = cost + c
  BY DEF TableInv, CostInv, TypeOK, Insert
<1> HIDE DEF f, g
<1>9. SumFunctionOnSet(g, Published \cup {s}) = g[s] + SumFunctionOnSet(g, Published)
  BY <1>3, <1>7, SumOverAdd
<1>10. SumFunctionOnSet(g, Published) = SumFunctionOnSet(f, Published)
  BY <1>7, SumOverEqual
<1>11. cost' = SumFunctionOnSet(g, Published \cup {s}) /\ cost' \in Nat
  BY <1>3, <1>7, <1>8, <1>9, <1>10
<1>12. CostInv'
  BY <1>4, <1>11 DEF CostInv, g
<1> QED BY <1>2, <1>4, <1>5, <1>6, <1>11, <1>12 DEF TableInv, LruInv, TypeOK

(* A step that leaves table, list and cost alone keeps them in agreement.   *)
LEMMA TableUnchanged ==
  ASSUME TableInv, UNCHANGED <<cacheVars, entryKey, entryCost>>
  PROVE  TableInv' /\ Published' = Published
BY DEF TableInv, MapInv, LruInv, CostInv, Published, cacheVars

-----------------------------------------------------------------------------
(* Whose call a step is, and what it does to the table. *)

(* A call that returns leaves its thread nothing.                           *)
LEMMA ReturnFacts ==
  ASSUME TypeOK, NEW t \in Thread, Return(t)
  PROVE  /\ key'[t] = AnyKey /\ mode'[t] = "Read" /\ slot'[t] = None /\ pc'[t] = "idle"
         /\ UNCHANGED <<again, rest>> /\ Others(t)
BY AnyKeyInKey DEF Return, TypeOK, Others

(* A thread that arrives at an entry has it in its hands.                   *)
LEMMA ArriveFacts ==
  ASSUME TypeOK, NEW t \in Thread, NEW s \in Slot, Arrive(t, s), UNCHANGED <<key, mode, rest>>
  PROVE  /\ slot'[t] = s /\ again'[t] = FALSE /\ Others(t)
         /\ pc'[t] \in {"got", "held"}
BY DEF Arrive, Goto, TypeOK, Others

(* A step of one thread leaves the calls of the others alone.               *)
LEMMA OthersUnchanged ==
  ASSUME TypeOK, NEW t \in Thread, Step(t) \/ Call(t)
  PROVE  Others(t)
<1> USE DEF TypeOK, Others, Goto, callVars
<1>1. CASE GetHit(t) \/ \E c \in Costs, g \in BOOLEAN : Allocate(t, c, g)
  BY <1>1 DEF GetHit, Allocate, Arrive
<1>2. CASE GetOver(t) \/ GcStep(t) \/ GcEnd(t) \/ Got(t) \/ Generate(t) \/ Demote(t)
  BY <1>2 DEF GetOver, GcStep, GcEnd, Got, Generate, Demote
<1>3. CASE Release(t) \/ RemoveMissing(t) \/ RemoveEntry(t)
  BY <1>3 DEF Release, RemoveMissing, RemoveEntry, Return
<1>4. CASE Call(t)
  BY <1>4 DEF Call, StartGet, TestGet, StartRemove
<1> QED BY <1>1, <1>2, <1>3, <1>4 DEF Step

(* The entries a collection has still to look at are published.             *)
LEMMA RestIsPublished ==
  ASSUME TypeOK, RestInv, NEW t \in Thread, pc[t] = "gc", rest[t] # <<>>
  PROVE  /\ Head(rest[t]) \in Published /\ Tail(rest[t]) \in Seq(Slot)
         /\ Distinct(Tail(rest[t]))
         /\ Range(Tail(rest[t])) \subseteq Published \ {Head(rest[t])}
<1>1. rest[t] \in Seq(Slot) /\ Distinct(rest[t]) /\ Range(rest[t]) \subseteq Published
  BY DEF TypeOK, RestInv
<1> QED BY <1>1, TailFacts

(* Every step keeps the table, its list and its cost in agreement. *)
LEMMA TableStep ==
  ASSUME IndInv, NEW t \in Thread, Step(t) \/ Call(t)
  PROVE  /\ hashtable' \in [Key -> Slot \cup {None}] /\ lru' \in Seq(Slot) /\ cost' \in Nat
         /\ TableInv'
<1>t. TypeOK /\ TableInv
  BY DEF IndInv
<1>1. CASE UNCHANGED <<cacheVars, entryKey, entryCost>>
  BY <1>1, <1>t, TableUnchanged DEF TypeOK, cacheVars
<1>2. CASE GetHit(t)
  <2>1. hashtable[key[t]] \in Published
    BY <1>2, <1>t, PublishedFacts DEF GetHit, TableInv, TypeOK
  <2> QED BY <1>2, <1>t, <2>1, BubbleUpKeepsTable DEF GetHit, TypeOK
<1>3. ASSUME NEW k \in Key, NEW m \in Modes, TestGet(t, k, m)
      PROVE  /\ hashtable' \in [Key -> Slot \cup {None}] /\ lru' \in Seq(Slot) /\ cost' \in Nat
             /\ TableInv'
  <2>1. hashtable[k] \in Published
    BY <1>3, <1>t, PublishedFacts DEF TestGet, TableInv, TypeOK
  <2> QED BY <1>3, <1>t, <2>1, BubbleUpKeepsTable DEF TestGet, TypeOK
<1>4. ASSUME NEW c \in Costs, NEW g \in BOOLEAN, Allocate(t, c, g)
      PROVE  /\ hashtable' \in [Key -> Slot \cup {None}] /\ lru' \in Seq(Slot) /\ cost' \in Nat
             /\ TableInv'
  <2>1. hashtable[key[t]] = None
    BY <1>4 DEF Allocate, IndInv, LockInv
  <2>2. NewSlot \in Slot /\ NewSlot \notin Published
    BY <1>t, <2>1, NewSlotIsFree DEF TableInv, TypeOK
  <2> QED BY <1>4, <1>t, <2>1, <2>2, InsertKeepsTable DEF Allocate
<1>5. CASE GcStep(t)
  <2>1. CASE UNCHANGED cacheVars
    BY <1>1, <1>5, <2>1 DEF GcStep, entryVars
  <2>2. CASE Delete(Head(rest[t]))
    <3>1. Head(rest[t]) \in Published
      BY <1>5, <1>t, RestIsPublished DEF GcStep, IndInv
    <3> QED BY <1>5, <1>t, <2>2, <3>1, DeleteKeepsTable DEF GcStep, entryVars
  <2> QED BY <1>5, <2>1, <2>2 DEF GcStep
<1>6. CASE RemoveEntry(t)
  <2>1. hashtable[key[t]] \in Published
    BY <1>6, <1>t, PublishedFacts DEF RemoveEntry, TableInv, TypeOK
  <2> QED BY <1>6, <1>t, <2>1, DeleteKeepsTable DEF RemoveEntry, entryVars
<1>7. CASE \/ GetOver(t) \/ GcEnd(t) \/ Got(t) \/ Generate(t) \/ Demote(t) \/ Release(t)
           \/ RemoveMissing(t)
  BY <1>1, <1>7 DEF GetOver, GcEnd, Got, Generate, Demote, Release, RemoveMissing, entryVars
<1>8. CASE \/ \E k \in Key, m \in Modes : StartGet(t, k, m)
           \/ \E k \in Key : StartRemove(t, k)
  BY <1>1, <1>8 DEF StartGet, StartRemove, entryVars
<1> QED BY <1>2, <1>3, <1>4, <1>5, <1>6, <1>7, <1>8 DEF Step, Call

EntryType ==
  /\ lock \in Thread \cup {None} /\ user \in {"image", "mipmap"}
  /\ entryKey \in [Slot -> Key] /\ entryCost \in [Slot -> Nat]
  /\ readers \in [Slot -> SUBSET Thread] /\ writer \in [Slot -> Thread \cup {None}]
  /\ demoting \in [Slot -> BOOLEAN] /\ generate \in [Slot -> BOOLEAN]

Points == {"idle", "get", "gc", "allocate", "got", "generate", "demote", "held", "remove"}

CallType ==
  /\ pc \in [Thread -> Points]
  /\ key \in [Thread -> Key] /\ mode \in [Thread -> Modes]
  /\ slot \in [Thread -> Slot \cup {None}] /\ again \in [Thread -> BOOLEAN]
  /\ rest \in [Thread -> Seq(Slot)]

LEMMA LockType ==
  ASSUME EntryType, NEW t \in Thread, NEW s, NEW m, Lock(t, s, m)
  PROVE  /\ readers' \in [Slot -> SUBSET Thread] /\ writer' \in [Slot -> Thread \cup {None}]
<1>1. CASE m = "Write"
  BY <1>1 DEF Lock, EntryType
<1>2. CASE m # "Write"
  BY <1>2 DEF Lock, EntryType
<1> QED BY <1>1, <1>2

LEMMA UnlockType ==
  ASSUME EntryType, NEW t \in Thread, NEW s, Unlock(t, s)
  PROVE  /\ readers' \in [Slot -> SUBSET Thread] /\ writer' \in [Slot -> Thread \cup {None}]
<1>1. readers' \in [Slot -> SUBSET Thread]
  BY DEF Unlock, EntryType
<1>2. writer' \in [Slot -> Thread \cup {None}]
  BY DEF Unlock, EntryType
<1> QED BY <1>1, <1>2

LEMMA EntryTypeStep ==
  ASSUME EntryType, CallType, NEW t \in Thread, Step(t) \/ Call(t)
  PROVE  EntryType'
<1>1. CASE GetHit(t) \/ \E k \in Key, m \in Modes : TestGet(t, k, m)
  BY <1>1, LockType DEF GetHit, TestGet, FlagAfter, Arrive, EntryType
<1>2. ASSUME NEW c \in Costs, NEW g \in BOOLEAN, Allocate(t, c, g)
      PROVE  EntryType'
  <2>1. /\ readers' \in [Slot -> SUBSET Thread] /\ writer' \in [Slot -> Thread \cup {None}]
    BY <1>2, LockType DEF Allocate
  <2>2. c \in Nat /\ key[t] \in Key
    BY CacheConstants DEF CallType
  <2> QED BY <1>2, <2>1, <2>2 DEF Allocate, EntryType
<1>3. CASE Demote(t) \/ Release(t)
  BY <1>3, UnlockType DEF Demote, Release, Return, EntryType
<1>4. CASE GetOver(t) \/ GcStep(t) \/ GcEnd(t) \/ Got(t) \/ Generate(t)
  BY <1>4 DEF GetOver, GcStep, GcEnd, Got, Generate, EntryType, entryVars
<1>5. CASE RemoveMissing(t) \/ RemoveEntry(t)
  BY <1>5 DEF RemoveMissing, RemoveEntry, Return, EntryType, entryVars
<1>6. CASE \/ \E k \in Key, m \in Modes : StartGet(t, k, m)
           \/ \E k \in Key : StartRemove(t, k)
  BY <1>6 DEF StartGet, StartRemove, EntryType, entryVars
<1> QED BY <1>1, <1>2, <1>3, <1>4, <1>5, <1>6 DEF Step, Call

LEMMA CallTypeStep ==
  ASSUME IndInv, CallType, NEW t \in Thread, Step(t) \/ Call(t)
  PROVE  CallType'
<1>t. TypeOK /\ AnyKey \in Key
  BY AnyKeyInKey DEF IndInv
<1> USE DEF CallType, Goto, Points
<1>1. CASE GetHit(t)
  <2>1. hashtable[key[t]] \in Slot
    BY <1>t, <1>1 DEF GetHit, TypeOK
  <2> QED BY <1>1, <2>1 DEF GetHit, Arrive
<1>2. ASSUME NEW k \in Key, NEW m \in Modes, TestGet(t, k, m)
      PROVE  CallType'
  <2>1. hashtable[k] \in Slot
    BY <1>t, <1>2 DEF TestGet, TypeOK
  <2> QED BY <1>2, <2>1 DEF TestGet
<1>3. ASSUME NEW c \in Costs, NEW g \in BOOLEAN, Allocate(t, c, g)
      PROVE  CallType'
  <2>1. hashtable[key[t]] = None
    BY <1>3 DEF Allocate, IndInv, LockInv
  <2>2. NewSlot \in Slot
    BY <1>t, <2>1, NewSlotIsFree DEF TableInv, IndInv
  <2> QED BY <1>3, <2>2 DEF Allocate, Arrive
<1>4. CASE GcStep(t)
  <2>1. Tail(rest[t]) \in Seq(Slot)
    BY <1>4 DEF GcStep
  <2> QED BY <1>4, <2>1 DEF GcStep
<1>5. CASE GetOver(t)
  BY <1>t, <1>5 DEF GetOver, TypeOK
<1>6. CASE GcEnd(t)
  BY <1>6 DEF GcEnd
<1>7. CASE Got(t) \/ Generate(t)
  BY <1>7 DEF Got, Generate, Delivered
<1>8. CASE Demote(t)
  BY <1>8 DEF Demote
<1>9. CASE Release(t) \/ RemoveMissing(t) \/ RemoveEntry(t)
  <2>1. Return(t)
    BY <1>9 DEF Release, RemoveMissing, RemoveEntry
  <2> QED BY <1>t, <2>1 DEF Return, Modes
<1>10. CASE \E k \in Key, m \in Modes : StartGet(t, k, m)
  BY <1>10 DEF StartGet
<1>11. CASE \E k \in Key : StartRemove(t, k)
  BY <1>11 DEF StartRemove
<1> QED BY <1>1, <1>2, <1>3, <1>4, <1>5, <1>6, <1>7, <1>8, <1>9, <1>10, <1>11 DEF Step, Call

LEMMA TypeOKStep ==
  ASSUME IndInv, NEW t \in Thread, Step(t) \/ Call(t)
  PROVE  TypeOK'
<1>1. EntryType /\ CallType
  BY DEF IndInv, TypeOK, EntryType, CallType, Points
<1>2. EntryType' /\ CallType'
  BY <1>1, EntryTypeStep, CallTypeStep
<1> QED BY <1>2, TableStep DEF TypeOK, EntryType, CallType, Points

-----------------------------------------------------------------------------
(* A step of a thread holding the mutex, or for which nobody holds it. *)
LEMMA LockStep ==
  ASSUME IndInv, NEW t \in Thread, Step(t) \/ Call(t)
  PROVE  LockInv'
<1>t. TypeOK /\ LockInv /\ TableInv /\ Others(t)
  BY OthersUnchanged DEF IndInv
<1>k. key[t] \in Key /\ None \notin Thread
  BY <1>t, CacheConstants DEF TypeOK
(* While another thread holds the mutex, its key stays missing; a thread that *)
(* neither takes nor leaves it is at no point where it holds it.              *)
<1>1. ASSUME lock' = lock, pc'[t] \in {"gc", "allocate"} <=> pc[t] \in {"gc", "allocate"},
             lock = t => hashtable'[key'[t]] = None,
             \A u \in Thread : u # t /\ lock = u => hashtable'[key[u]] = None
      PROVE  LockInv'
  BY <1>t, <1>1 DEF LockInv, Others
<1>2. ASSUME UNCHANGED <<hashtable, lock>>, pc[t] \notin {"gc", "allocate"},
             pc'[t] \notin {"gc", "allocate"}
      PROVE  LockInv'
  BY <1>1, <1>2, <1>t DEF LockInv
<1>3. CASE GetHit(t)
  BY <1>2, <1>3, <1>t DEF GetHit, Arrive, Goto, TypeOK
<1>4. ASSUME NEW c \in Costs, NEW g \in BOOLEAN, Allocate(t, c, g)
      PROVE  LockInv'
  <2>1. lock \in {None, t} /\ lock' = None
    BY <1>4, <1>t DEF Allocate, LockInv
  <2>2. pc'[t] \notin {"gc", "allocate"}
    BY <1>4, <1>t DEF Allocate, Arrive, Goto, TypeOK
  <2> QED BY <1>t, <1>k, <2>1, <2>2 DEF LockInv, Others
<1>5. CASE GetOver(t)
  <2>1. lock = None /\ lock' = t /\ pc'[t] = "gc" /\ hashtable'[key'[t]] = None
    BY <1>5, <1>t DEF GetOver, Goto, TypeOK, cacheVars
  <2> QED BY <1>t, <1>k, <2>1 DEF LockInv, Others
<1>6. CASE GcStep(t)
  <2>1. pc[t] = "gc" /\ pc' = pc /\ lock' = lock /\ key' = key /\ lock = t
    BY <1>6, <1>t DEF GcStep, LockInv
  <2>2. hashtable[key[t]] = None
    BY <1>t, <2>1 DEF LockInv
  <2>3. hashtable'[key[t]] = None
    <3>1. CASE UNCHANGED cacheVars
      BY <2>2, <3>1 DEF cacheVars
    <3>2. CASE Delete(Head(rest[t]))
      BY <1>t, <2>2, <3>2 DEF Delete, TypeOK
    <3> QED BY <1>6, <3>1, <3>2 DEF GcStep
  <2> QED BY <1>1, <2>1, <2>3
<1>7. CASE GcEnd(t)
  <2>1. /\ pc[t] = "gc" /\ pc'[t] = "allocate"
        /\ UNCHANGED <<hashtable, lock, key>>
    BY <1>7, <1>t DEF GcEnd, Goto, TypeOK, cacheVars
  <2> QED BY <1>1, <1>t, <2>1 DEF LockInv
<1>8. CASE Got(t) \/ Generate(t) \/ Demote(t)
  BY <1>2, <1>8, <1>t DEF Got, Generate, Demote, Delivered, Goto, TypeOK, cacheVars
<1>9. CASE Release(t) \/ RemoveMissing(t)
  BY <1>2, <1>9, <1>t, ReturnFacts DEF Release, RemoveMissing, cacheVars
<1>10. CASE RemoveEntry(t)
  <2>1. lock = None /\ lock' = None /\ pc[t] = "remove" /\ pc'[t] = "idle"
    BY <1>10, <1>t, ReturnFacts DEF RemoveEntry
  <2> QED BY <1>1, <1>k, <2>1
<1>11. CASE Call(t)
  <2>1. /\ UNCHANGED <<hashtable, lock>> /\ pc[t] \notin {"gc", "allocate"}
        /\ pc'[t] \notin {"gc", "allocate"}
    BY <1>11, <1>t DEF Call, StartGet, TestGet, StartRemove, Goto, TypeOK, cacheVars
  <2> QED BY <1>2, <2>1
<1> QED BY <1>3, <1>4, <1>5, <1>6, <1>7, <1>8, <1>9, <1>10, <1>11 DEF Step

-----------------------------------------------------------------------------
(* An entry leaves the table when nobody holds its lock, and when no other  *)
(* thread holds the mutex.                                                  *)
LEMMA TableChange ==
  ASSUME IndInv, NEW t \in Thread, Step(t) \/ Call(t)
  PROVE  /\ \A u \in Thread : u # t /\ lock = u => UNCHANGED hashtable
         /\ \A u \in Thread : slot[u] # None => hashtable'[key[u]] = hashtable[key[u]]
<1>t. /\ TypeOK /\ TableInv /\ LockInv /\ HoldInv
      /\ \A u \in Thread : u # None /\ key[u] \in Key
  BY CacheConstants DEF IndInv, TypeOK
<1>1. CASE UNCHANGED hashtable
  BY <1>1
<1>2. ASSUME NEW s \in Published, Delete(s), Deletable(s), UNCHANGED <<entryKey, entryCost>>
      PROVE  \A u \in Thread : slot[u] # None => hashtable'[key[u]] = hashtable[key[u]]
  <2> TAKE u \in Thread
  <2> HAVE slot[u] # None
  <2>1. s \in Slot
    BY <1>t, PublishedFacts DEF TableInv
  <2>2. hashtable[key[u]] # s
    BY <1>t, <1>2, <2>1 DEF HoldInv, Deletable, Unlocked
  <2> QED BY <1>t, <1>2, <2>2, DeleteKeepsTable
<1>3. CASE GcStep(t)
  <2>1. lock = t
    BY <1>t, <1>3 DEF GcStep, LockInv
  <2>2. CASE Deletable(Head(rest[t]))
    <3>1. Head(rest[t]) \in Published
      BY <1>3, RestIsPublished DEF GcStep, IndInv
    <3> QED BY <1>2, <1>3, <2>1, <2>2, <3>1 DEF GcStep, entryVars
  <2> QED BY <1>1, <1>3, <2>2 DEF GcStep, cacheVars
<1>4. CASE RemoveEntry(t)
  <2>1. hashtable[key[t]] \in Published
    BY <1>4, <1>t, PublishedFacts DEF RemoveEntry, TableInv
  <2> QED BY <1>2, <1>4, <1>t, <2>1 DEF RemoveEntry, entryVars
<1>5. ASSUME NEW c \in Costs, NEW g \in BOOLEAN, Allocate(t, c, g)
      PROVE  /\ \A u \in Thread : u # t /\ lock = u => UNCHANGED hashtable
             /\ \A u \in Thread : slot[u] # None => hashtable'[key[u]] = hashtable[key[u]]
  <2>1. lock \in {None, t} /\ hashtable[key[t]] = None
    BY <1>5, <1>t DEF Allocate, LockInv
  <2>2. hashtable' = [hashtable EXCEPT ![key[t]] = NewSlot]
    BY <1>5 DEF Allocate, Insert
  <2>3. \A u \in Thread : slot[u] # None => key[u] # key[t]
    BY <1>t, <2>1 DEF HoldInv
  <2> QED BY <1>t, <2>1, <2>2, <2>3 DEF TypeOK
<1>6. CASE \/ GetHit(t) \/ GetOver(t) \/ GcEnd(t) \/ Got(t) \/ Generate(t) \/ Demote(t)
           \/ Release(t) \/ RemoveMissing(t) \/ Call(t)
  <2>1. UNCHANGED hashtable
    BY <1>6 DEF GetHit, GetOver, GcEnd, Got, Generate, Demote, Release, RemoveMissing, Call,
                StartGet, TestGet, StartRemove, cacheVars
  <2> QED BY <1>1, <2>1
<1> QED BY <1>3, <1>4, <1>5, <1>6 DEF Step

(* Only the collection that keeps the mutex shrinks what is published. *)
LEMMA RestStep ==
  ASSUME IndInv, NEW t \in Thread, Step(t) \/ Call(t)
  PROVE  RestInv'
<1>t. TypeOK /\ TypeOK' /\ TableInv /\ RestInv /\ LockInv /\ Others(t)
  BY OthersUnchanged, TypeOKStep DEF IndInv
<1> SUFFICES ASSUME NEW u \in Thread, pc'[u] = "gc"
             PROVE  Distinct(rest'[u]) /\ Range(rest'[u]) \subseteq Published'
  BY DEF RestInv
<1>1. CASE u # t
  <2>1. pc[u] = "gc" /\ rest'[u] = rest[u]
    BY <1>1, <1>t DEF Others
  <2>2. UNCHANGED hashtable
    BY <1>1, <1>t, <2>1, TableChange DEF LockInv
  <2> QED BY <1>t, <2>1, <2>2 DEF RestInv, Published
<1>2. CASE u = t
  <2>1. CASE GetOver(t)
    BY <1>2, <1>t, <2>1 DEF GetOver, TableInv, LruInv, TypeOK, Published, cacheVars
  <2>2. CASE GcStep(t)
    <3>1. /\ rest'[t] = Tail(rest[t]) /\ Head(rest[t]) \in Published
          /\ Distinct(Tail(rest[t]))
          /\ Range(Tail(rest[t])) \subseteq Published \ {Head(rest[t])}
      BY <1>t, <2>2, RestIsPublished DEF GcStep, TypeOK
    <3>2. Published \ {Head(rest[t])} \subseteq Published'
      <4>1. CASE UNCHANGED cacheVars
        BY <4>1 DEF cacheVars, Published
      <4>2. CASE Delete(Head(rest[t]))
        BY <1>t, <2>2, <3>1, <4>2, DeleteKeepsTable DEF GcStep, entryVars
      <4> QED BY <2>2, <4>1, <4>2 DEF GcStep
    <3> QED BY <1>2, <3>1, <3>2
  <2>3. ~ GetOver(t) /\ ~ GcStep(t) => pc'[t] # "gc"
    <3> USE DEF Goto, TypeOK
    <3>1. CASE GetHit(t) \/ \E c \in Costs, g \in BOOLEAN : Allocate(t, c, g)
      BY <1>t, <3>1 DEF GetHit, Allocate, Arrive
    <3>2. CASE GcEnd(t) \/ Got(t) \/ Generate(t) \/ Demote(t)
      BY <1>t, <3>2 DEF GcEnd, Got, Generate, Demote, Delivered
    <3>3. CASE Release(t) \/ RemoveMissing(t) \/ RemoveEntry(t)
      BY <1>t, <3>3 DEF Release, RemoveMissing, RemoveEntry, Return
    <3>4. CASE Call(t)
      BY <1>t, <3>4 DEF Call, StartGet, TestGet, StartRemove
    <3> QED BY <3>1, <3>2, <3>3, <3>4 DEF Step
  <2> QED BY <1>2, <2>1, <2>2, <2>3
<1> QED BY <1>1, <1>2

-----------------------------------------------------------------------------
(* Locks come and go with the thread's slot. *)

LEMMA QuietKeepsHold ==
  ASSUME TypeOK, HoldInv, NEW t \in Thread, Others(t), UNCHANGED <<readers, writer, slot>>,
         pc[t] \in Leasing <=> pc'[t] \in Leasing,
         slot[t] # None => key'[t] = key[t],
         \A u \in Thread : slot[u] # None => hashtable'[key[u]] = hashtable[key[u]]
  PROVE  HoldInv'
BY DEF HoldInv, Others

LEMMA LockKeepsHold ==
  ASSUME TypeOK, HoldInv, NEW t \in Thread, Others(t),
         NEW s \in Slot, NEW m \in Modes, Lockable(s, m), Lock(t, s, m),
         pc[t] \notin Leasing, pc'[t] \in Leasing, slot'[t] = s, hashtable'[key'[t]] = s,
         \A u \in Thread : slot[u] # None => hashtable'[key[u]] = hashtable[key[u]]
  PROVE  HoldInv'
<1>1. slot[t] = None /\ s # None /\ t # None
  BY CacheConstants DEF HoldInv
<1>2. \A r \in Slot : \A u \in Thread :
        /\ u \in readers'[r] => u \in readers[r] \/ (u = t /\ r = s /\ m = "Read")
        /\ writer'[r] = u => writer[r] = u \/ (u = t /\ r = s /\ m = "Write")
        /\ u # t /\ u \in readers[r] => u \in readers'[r]
        /\ u # t /\ writer[r] = u => writer'[r] = u
  <2>1. CASE m = "Write"
    BY <2>1, CacheConstants DEF Lock, Lockable, Unlocked, TypeOK
  <2>2. CASE m = "Read"
    BY <2>2 DEF Lock, TypeOK
  <2> QED BY <2>1, <2>2 DEF Modes
<1>3. t \in readers'[s] \/ writer'[s] = t
  BY DEF Lock, Modes, TypeOK
<1>4. \A r \in Slot : writer'[r] # None => readers'[r] = {}
  <2>1. CASE m = "Write"
    BY <2>1 DEF Lock, Lockable, Unlocked, HoldInv, TypeOK
  <2>2. CASE m = "Read"
    <3>1. \A r \in Slot : writer'[r] # None => r # s /\ writer[r] # None
      BY <2>2 DEF Lock, Lockable
    <3>2. \A r \in Slot : r # s => readers'[r] = readers[r]
      BY <2>2 DEF Lock, TypeOK
    <3> QED BY <3>1, <3>2 DEF HoldInv
  <2> QED BY <2>1, <2>2 DEF Modes
<1>5. \A u \in Thread :
        /\ slot'[u] # None <=> pc'[u] \in Leasing
        /\ slot'[u] # None => /\ hashtable'[key'[u]] = slot'[u]
                              /\ u \in readers'[slot'[u]] \/ writer'[slot'[u]] = u
  <2> TAKE u \in Thread
  <2>1. CASE u = t
    BY <1>1, <1>3, <2>1
  <2>2. CASE u # t
    <3>1. slot[u] \in Slot \cup {None}
      BY DEF TypeOK
    <3> QED BY <1>2, <2>2, <3>1 DEF HoldInv, Others
  <2> QED BY <2>1, <2>2
<1>6. \A r \in Slot : \A u \in Thread : u \in readers'[r] \/ writer'[r] = u => slot'[u] = r
  <2> TAKE r \in Slot
  <2> TAKE u \in Thread
  <2>1. u \in readers[r] \/ writer[r] = u => slot[u] = r /\ r # None
    BY CacheConstants DEF HoldInv
  <2> QED BY <1>1, <1>2, <2>1 DEF Others
<1> QED BY <1>4, <1>5, <1>6 DEF HoldInv

LEMMA UnlockKeepsHold ==
  ASSUME TypeOK, HoldInv, NEW t \in Thread, Others(t), UNCHANGED hashtable,
         pc[t] \in Leasing, pc'[t] \notin Leasing, slot'[t] = None, Unlock(t, slot[t])
  PROVE  HoldInv'
<1>1. slot[t] \in Slot
  BY DEF HoldInv, TypeOK
<1>2. \A r \in Slot : \A u \in Thread :
        /\ u \in readers'[r] <=> u \in readers[r] /\ (r # slot[t] \/ u # t)
        /\ u # None /\ writer'[r] = u <=> u # None /\ writer[r] = u /\ (r # slot[t] \/ u # t)
  BY <1>1 DEF Unlock, TypeOK
<1>3. \A r \in Slot : writer'[r] # None => readers'[r] = {}
  BY <1>1 DEF Unlock, HoldInv, TypeOK
<1>4. \A u \in Thread :
        /\ slot'[u] # None <=> pc'[u] \in Leasing
        /\ slot'[u] # None => /\ hashtable'[key'[u]] = slot'[u]
                              /\ u \in readers'[slot'[u]] \/ writer'[slot'[u]] = u
  <2> TAKE u \in Thread
  <2>1. slot[u] \in Slot \cup {None} /\ u # None
    BY CacheConstants DEF TypeOK
  <2> QED BY <1>2, <2>1 DEF HoldInv, Others
<1>5. \A r \in Slot : \A u \in Thread : u \in readers'[r] \/ writer'[r] = u => slot'[u] = r
  BY <1>2, CacheConstants DEF HoldInv, Others
<1> QED BY <1>3, <1>4, <1>5 DEF HoldInv

LEMMA HoldStep ==
  ASSUME IndInv, NEW t \in Thread, Step(t) \/ Call(t)
  PROVE  HoldInv'
<1>t. TypeOK /\ HoldInv /\ TableInv /\ LockInv /\ Others(t) /\ key[t] \in Key
  BY OthersUnchanged DEF IndInv, TypeOK
<1>h. \A u \in Thread : slot[u] # None => hashtable'[key[u]] = hashtable[key[u]]
  BY TableChange
<1>1. CASE GetHit(t)
  <2> DEFINE s == hashtable[key[t]]
  <2>1. s \in Slot /\ mode[t] \in Modes
    BY <1>1, <1>t DEF GetHit, TypeOK
  <2>2. /\ pc[t] = "get" /\ pc'[t] \in {"got", "held"} /\ slot'[t] = s /\ UNCHANGED <<key, hashtable>>
        /\ Lockable(s, mode[t]) /\ Lock(t, s, mode[t])
    BY <1>1, <1>t, <2>1, ArriveFacts DEF GetHit
  <2> HIDE DEF s
  <2>3. hashtable'[key'[t]] = s
    BY <2>2 DEF s
  <2> QED BY <1>t, <1>h, <2>1, <2>2, <2>3, LockKeepsHold DEF Leasing
<1>2. ASSUME NEW k \in Key, NEW m \in Modes, TestGet(t, k, m)
      PROVE  HoldInv'
  <2> DEFINE s == hashtable[k]
  <2>1. s \in Slot
    BY <1>2, <1>t DEF TestGet, TypeOK
  <2>2. /\ pc[t] = "idle" /\ pc'[t] = "held" /\ slot'[t] = s /\ hashtable'[key'[t]] = s
        /\ Lockable(s, m) /\ Lock(t, s, m)
    BY <1>2, <1>t DEF TestGet, Goto, TypeOK
  <2> QED BY <1>t, <1>h, <2>1, <2>2, LockKeepsHold DEF Leasing
<1>3. ASSUME NEW c \in Costs, NEW g \in BOOLEAN, Allocate(t, c, g)
      PROVE  HoldInv'
  <2>1. hashtable[key[t]] = None /\ pc[t] \in {"get", "allocate"}
    BY <1>3, <1>t DEF Allocate, LockInv
  <2>2. PICK s \in Slot : s = NewSlot /\ s \notin Published
    BY <1>t, <2>1, NewSlotIsFree DEF TableInv
  <2>3. \A u \in Thread : slot[u] # s
    <3>1. \A u \in Thread : hashtable[key[u]] # None => hashtable[key[u]] \in Published
      BY <1>t DEF TypeOK, Published
    <3>2. s # None
      BY CacheConstants
    <3> QED BY <1>t, <2>2, <3>1, <3>2 DEF HoldInv
  <2>4. readers[s] = {} /\ writer[s] = None
    BY <1>t, <2>3 DEF HoldInv, TypeOK
  <2>5. /\ Lock(t, s, "Write") /\ pc'[t] \in {"got", "held"} /\ slot'[t] = s
        /\ key' = key /\ hashtable' = [hashtable EXCEPT ![key[t]] = s]
    BY <1>3, <1>t, <2>2, ArriveFacts DEF Allocate, Insert
  <2>6. hashtable'[key'[t]] = s
    BY <1>t, <2>5 DEF TypeOK
  <2>7. Lockable(s, "Write")
    BY <2>4 DEF Lockable, Unlocked
  <2> QED BY <1>t, <1>h, <2>1, <2>5, <2>6, <2>7, LockKeepsHold DEF Leasing, Modes
<1>4. CASE Demote(t)
  <2>1. /\ pc[t] = "demote" /\ pc'[t] = "get" /\ slot'[t] = None /\ UNCHANGED hashtable
        /\ Unlock(t, slot[t])
    BY <1>4, <1>t DEF Demote, Goto, TypeOK, cacheVars
  <2> QED BY <1>t, <2>1, UnlockKeepsHold DEF Leasing
<1>5. CASE Release(t)
  <2>1. /\ pc[t] = "held" /\ pc'[t] = "idle" /\ slot'[t] = None /\ UNCHANGED hashtable
        /\ Unlock(t, slot[t])
    BY <1>5, <1>t, ReturnFacts DEF Release, cacheVars
  <2> QED BY <1>t, <2>1, UnlockKeepsHold DEF Leasing
<1>6. CASE RemoveMissing(t) \/ RemoveEntry(t)
  <2>1. /\ pc[t] = "remove" /\ pc'[t] = "idle" /\ UNCHANGED <<readers, writer>>
        /\ slot' = [slot EXCEPT ![t] = None]
    BY <1>6, <1>t, ReturnFacts DEF RemoveMissing, RemoveEntry, Return, entryVars
  <2>2. slot[t] = None
    BY <1>t, <2>1 DEF HoldInv, Leasing
  <2>3. slot' = slot
    BY <1>t, <2>1, <2>2 DEF TypeOK
  <2> QED BY <1>t, <1>h, <2>1, <2>2, <2>3, QuietKeepsHold DEF Leasing
<1>7. CASE \/ GetOver(t) \/ GcStep(t) \/ GcEnd(t) \/ Got(t) \/ Generate(t)
           \/ \E k \in Key, m \in Modes : StartGet(t, k, m)
           \/ \E k \in Key : StartRemove(t, k)
  <2>1. /\ UNCHANGED <<readers, writer, slot>>
        /\ pc[t] \in Leasing <=> pc'[t] \in Leasing
        /\ key' = key \/ pc[t] = "idle"
    <3> USE DEF TypeOK, Goto, Leasing, entryVars
    <3>1. CASE GetOver(t) \/ GcStep(t) \/ GcEnd(t)
      BY <1>t, <3>1 DEF GetOver, GcStep, GcEnd
    <3>2. CASE Got(t) \/ Generate(t)
      BY <1>t, <3>2 DEF Got, Generate, Delivered
    <3>3. CASE \/ \E k \in Key, m \in Modes : StartGet(t, k, m)
               \/ \E k \in Key : StartRemove(t, k)
      BY <1>t, <3>3 DEF StartGet, StartRemove
    <3> QED BY <1>7, <3>1, <3>2, <3>3
  <2>2. slot[t] # None => key'[t] = key[t]
    BY <1>t, <2>1 DEF HoldInv, Leasing
  <2> QED BY <1>t, <1>h, <2>1, <2>2, QuietKeepsHold
<1> QED BY <1>1, <1>2, <1>3, <1>4, <1>5, <1>6, <1>7 DEF Step, Call

-----------------------------------------------------------------------------
(* The flag of a published entry has the thread that will clear it. *)

Waiting == {"get", "gc", "allocate"}

Owner(u, s) == pc[u] \in Waiting /\ again[u] /\ key[u] = entryKey[s]

LEMMA FlagByOwner ==
  FlagHasOwner <=> \A s \in Published : demoting[s] => \E u \in Thread : Owner(u, s)
BY DEF FlagHasOwner, Owner, Waiting

LEMMA FlagStep ==
  ASSUME IndInv, NEW t \in Thread, Step(t) \/ Call(t)
  PROVE  FlagHasOwner'
<1>t. /\ TypeOK /\ TableInv /\ HoldInv /\ LockInv /\ Others(t) /\ key[t] \in Key
      /\ Published \subseteq Slot
  BY OthersUnchanged, PublishedFacts DEF IndInv, TypeOK, TableInv
<1>f. \A s \in Published : demoting[s] => \E u \in Thread : Owner(u, s)
  BY FlagByOwner DEF IndInv
<1>0. ASSUME \A s \in Published' : demoting'[s] =>
               \E u \in Thread : pc'[u] \in Waiting /\ again'[u] /\ key'[u] = entryKey'[s]
      PROVE  FlagHasOwner'
  BY <1>0 DEF FlagHasOwner, Waiting
(* Flags are as they were, or fewer; so is the thread's claim on them. *)
<1>1. ASSUME Published' \subseteq Published, entryKey' = entryKey, demoting' = demoting,
             pc[t] \in Waiting => pc'[t] \in Waiting /\ again'[t] = again[t] /\ key'[t] = key[t]
      PROVE  FlagHasOwner'
  <2> SUFFICES ASSUME NEW s \in Published', demoting'[s]
               PROVE  \E u \in Thread : pc'[u] \in Waiting /\ again'[u] /\ key'[u] = entryKey'[s]
    BY <1>0
  <2>1. PICK u \in Thread : Owner(u, s)
    BY <1>1, <1>f
  <2> QED BY <1>1, <1>t, <2>1 DEF Owner, Others
<1>2. CASE GetHit(t)
  <2>1. /\ hashtable[key[t]] \in Slot /\ Published' = Published /\ entryKey' = entryKey
        /\ demoting' = [demoting EXCEPT ![hashtable[key[t]]] = @ /\ ~again[t]]
    BY <1>2, <1>t DEF GetHit, TypeOK, Published, FlagAfter
  <2> SUFFICES ASSUME NEW s \in Published', demoting'[s]
               PROVE  \E u \in Thread : pc'[u] \in Waiting /\ again'[u] /\ key'[u] = entryKey'[s]
    BY <1>0
  <2>2. demoting[s] /\ (s = hashtable[key[t]] => ~again[t])
    BY <1>t, <2>1 DEF TypeOK
  <2>3. PICK u \in Thread : Owner(u, s)
    BY <1>f, <2>1, <2>2
  <2>4. hashtable[entryKey[s]] = s
    BY <1>t, <2>1, PublishedFacts DEF TableInv
  <2>5. u # t
    BY <2>2, <2>3, <2>4 DEF Owner
  <2> QED BY <1>t, <2>1, <2>3, <2>5 DEF Owner, Others
<1>3. ASSUME NEW c \in Costs, NEW g \in BOOLEAN, Allocate(t, c, g)
      PROVE  FlagHasOwner'
  <2>1. hashtable[key[t]] = None
    BY <1>3, <1>t DEF Allocate, LockInv
  <2>2. PICK r \in Slot : r = NewSlot /\ r \notin Published
    BY <1>t, <2>1, NewSlotIsFree DEF TableInv
  <2>3. /\ Published' \subseteq Published \cup {r}
        /\ entryKey' = [entryKey EXCEPT ![r] = key[t]]
        /\ demoting' = [demoting EXCEPT ![r] = FALSE]
    BY <1>3, <1>t, <2>2 DEF Allocate, Insert, Published, TypeOK
  <2> SUFFICES ASSUME NEW s \in Published', demoting'[s]
               PROVE  \E u \in Thread : pc'[u] \in Waiting /\ again'[u] /\ key'[u] = entryKey'[s]
    BY <1>0
  <2>4. s # r
    BY <2>3 DEF TypeOK, IndInv
  <2>5. s \in Published /\ s \in Slot /\ demoting[s] /\ entryKey'[s] = entryKey[s]
    BY <1>t, <2>3, <2>4 DEF TypeOK
  <2>6. PICK u \in Thread : Owner(u, s)
    BY <1>f, <2>5
  <2>7. hashtable[entryKey[s]] = s /\ s # None
    BY <1>t, <2>5, PublishedFacts DEF TableInv
  <2>8. u # t
    BY <2>1, <2>6, <2>7 DEF Owner
  <2> QED BY <1>t, <2>5, <2>6, <2>8 DEF Owner, Others
<1>4. CASE Demote(t)
  <2>1. /\ pc[t] = "demote" /\ pc'[t] = "get" /\ again'[t] = TRUE /\ key' = key
        /\ Published' = Published /\ entryKey' = entryKey
        /\ demoting' = [demoting EXCEPT ![slot[t]] = TRUE]
    BY <1>4, <1>t DEF Demote, Goto, TypeOK, Published, cacheVars
  <2> SUFFICES ASSUME NEW s \in Published', demoting'[s]
               PROVE  \E u \in Thread : pc'[u] \in Waiting /\ again'[u] /\ key'[u] = entryKey'[s]
    BY <1>0
  <2>2. CASE s = slot[t]
    <3>1. slot[t] # None /\ hashtable[key[t]] = slot[t]
      BY <1>t, <2>1 DEF HoldInv, Leasing
    <3>2. entryKey[s] = key[t]
      BY <1>t, <2>2, <3>1 DEF TableInv, MapInv
    <3> QED BY <2>1, <3>2 DEF Waiting
  <2>3. CASE s # slot[t]
    <3>1. demoting[s]
      BY <1>t, <2>1, <2>3 DEF TypeOK
    <3>2. PICK u \in Thread : Owner(u, s)
      BY <1>f, <2>1, <3>1
    <3>3. u # t
      BY <2>1, <3>2 DEF Owner, Waiting
    <3> QED BY <1>t, <2>1, <3>2, <3>3 DEF Owner, Others
  <2> QED BY <2>2, <2>3
<1>5. CASE GcStep(t)
  <2>1. Published' \subseteq Published
    <3>1. CASE UNCHANGED cacheVars
      BY <3>1 DEF cacheVars, Published
    <3>2. CASE Delete(Head(rest[t]))
      <4>1. Head(rest[t]) \in Published
        BY <1>5, RestIsPublished DEF GcStep, IndInv
      <4> QED BY <1>5, <1>t, <3>2, <4>1, DeleteKeepsTable DEF GcStep, entryVars
    <3> QED BY <1>5, <3>1, <3>2 DEF GcStep
  <2> QED BY <1>1, <1>5, <2>1 DEF GcStep, entryVars
<1>6. CASE RemoveEntry(t)
  <2>1. hashtable[key[t]] \in Published
    BY <1>6, <1>t, PublishedFacts DEF RemoveEntry, TableInv
  <2>2. Published' \subseteq Published /\ pc[t] = "remove"
    BY <1>6, <1>t, <2>1, DeleteKeepsTable DEF RemoveEntry, entryVars
  <2> QED BY <1>1, <1>6, <2>2 DEF RemoveEntry, entryVars, Waiting
<1>7. CASE GetOver(t) \/ GcEnd(t)
  <2>1. pc'[t] \in Waiting /\ again' = again /\ key' = key
    BY <1>7, <1>t DEF GetOver, GcEnd, Goto, TypeOK, Waiting
  <2>2. Published' = Published /\ entryKey' = entryKey /\ demoting' = demoting
    BY <1>7 DEF GetOver, GcEnd, Published, cacheVars, entryVars
  <2> QED BY <1>1, <2>1, <2>2
<1>8. CASE \/ Got(t) \/ Generate(t) \/ Release(t) \/ RemoveMissing(t) \/ Call(t)
  <2>1. pc[t] \notin Waiting
    BY <1>8 DEF Got, Generate, Release, RemoveMissing, Call, StartGet, TestGet, StartRemove, Waiting
  <2>2. Published' = Published /\ entryKey' = entryKey /\ demoting' = demoting
    BY <1>8 DEF Got, Generate, Release, RemoveMissing, Call, StartGet, TestGet, StartRemove,
                Published, cacheVars, entryVars
  <2> QED BY <1>1, <2>1, <2>2
<1> QED BY <1>2, <1>3, <1>4, <1>5, <1>6, <1>7, <1>8 DEF Step

-----------------------------------------------------------------------------
LEMMA InitEstablishesIndInv == Init => IndInv
<1> SUFFICES ASSUME Init PROVE IndInv
  OBVIOUS
<1> USE DEF Init
<1>1. TypeOK
  BY AnyKeyInKey DEF TypeOK, Modes
<1>2. Published = {}
  BY DEF Published
<1>3. Range(lru) = {} /\ Distinct(lru)
  BY DEF Range, Distinct
<1>4. TableInv
  BY <1>2, <1>3, SumOverEmpty DEF TableInv, MapInv, LruInv, CostInv
<1>5. LockInv /\ RestInv /\ HoldInv
  BY CacheConstants DEF LockInv, RestInv, HoldInv, Leasing
<1>6. FlagHasOwner
  BY <1>2 DEF FlagHasOwner
<1> QED BY <1>1, <1>4, <1>5, <1>6 DEF IndInv

LEMMA StepKeepsIndInv == IndInv /\ [Next]_vars => IndInv'
<1> SUFFICES ASSUME IndInv, [Next]_vars PROVE IndInv'
  OBVIOUS
<1>1. CASE UNCHANGED vars
  BY <1>1 DEF vars, cacheVars, entryVars, callVars, IndInv, TypeOK, TableInv, MapInv, LruInv,
              CostInv, LockInv, RestInv, HoldInv, FlagHasOwner, Published
<1>2. ASSUME NEW t \in Thread, Step(t) \/ Call(t) PROVE IndInv'
  BY <1>2, TypeOKStep, TableStep, LockStep, RestStep, HoldStep, FlagStep DEF IndInv
<1> QED BY <1>1, <1>2 DEF Next

(* The cache keeps its inductive invariant: the mutex has one owner, each   *)
(* thread holds what its point of the call says, table, list and cost       *)
(* agree.                                                                   *)
THEOREM IndInvHolds == Spec => []IndInv
BY InitEstablishesIndInv, StepKeepsIndInv, PTL DEF Spec

(* The cost is the sum of the costs of the entries in the table, the list   *)
(* holds each of them once, and no _lock_demoting flag is left behind, at   *)
(* every step of every call.                                                *)
THEOREM CacheIsWellFormed == Spec => []WellFormed
<1>1. IndInv => WellFormed
  <2> SUFFICES ASSUME IndInv PROVE WellFormed
    OBVIOUS
  <2>1. Len(lru) = Cardinality(Published)
    BY DistinctCardinality DEF IndInv, TypeOK, TableInv, LruInv
  <2> QED BY <2>1 DEF IndInv, TableInv, MapInv, LruInv, CostInv, WellFormed, Accounting
<1> QED BY <1>1, IndInvHolds, PTL

-----------------------------------------------------------------------------
(* The lease LeaseCache sees a thread hold: that of the lock it has. *)
ModeOf(t) == IF writer[slot[t]] = t THEN "Write" ELSE "Read"
LeaseOf(t) == IF ~leased(t) THEN None ELSE [key |-> key[t], mode |-> ModeOf(t)]

LEMMA LeaseOfFacts ==
  ASSUME TypeOK, NEW t \in Thread
  PROVE  /\ LeaseOf(t) # None <=> slot[t] # None
         /\ slot[t] # None => LeaseOf(t).key = key[t] /\ LeaseOf(t).mode = ModeOf(t)
<1>1. key[t] \in Key /\ ModeOf(t) \in Modes
  BY DEF TypeOK, ModeOf, Modes
<1>2. [key |-> key[t], mode |-> ModeOf(t)] # None
  BY <1>1, NoneIsNoLease
<1> QED BY <1>2 DEF LeaseOf, leased

LEMMA HoldersAre ==
  ASSUME TypeOK, NEW k, NEW t \in Leases!Holders(k)
  PROVE  t \in Thread /\ slot[t] # None /\ key[t] = k
<1>1. t \in Thread /\ LeaseOf(t) # None /\ LeaseOf(t).key = k
  BY DEF Leases!Holders, LeaseOf, ModeOf
<1> QED BY <1>1, LeaseOfFacts

(* A step of one thread that locks and unlocks no entry of another leaves   *)
(* the leases of the others as they were.                                   *)
LEMMA OthersLeases ==
  ASSUME TypeOK, HoldInv, NEW t \in Thread, Others(t),
         \A s \in Slot : \A u \in Thread : u # t => (writer'[s] = u <=> writer[s] = u)
  PROVE  \A u \in Thread : u # t => LeaseOf(u)' = LeaseOf(u)
<1> TAKE u \in Thread
<1> HAVE u # t
<1>1. slot'[u] = slot[u] /\ key'[u] = key[u] /\ slot[u] \in Slot \cup {None}
  BY DEF Others, TypeOK
<1>2. CASE slot[u] = None
  BY <1>1, <1>2 DEF LeaseOf, leased
<1>3. CASE slot[u] # None
  <2>1. writer'[slot'[u]] = u <=> writer[slot[u]] = u
    BY <1>1, <1>3
  <2> QED BY <1>1, <1>3, <2>1 DEF LeaseOf, leased, ModeOf
<1> QED BY <1>2, <1>3

LEMMA SilentImplements ==
  ASSUME TypeOK, HoldInv, NEW t \in Thread, Others(t), UNCHANGED <<hashtable, writer, slot>>,
         slot[t] # None => key'[t] = key[t]
  PROVE  UNCHANGED Leases!vars
<1>1. \A u \in Thread : LeaseOf(u)' = LeaseOf(u)
  BY DEF Others, LeaseOf, leased, ModeOf
<1> QED BY <1>1 DEF Leases!vars, LeaseOf, ModeOf

(* A lock that is granted is compatible with the locks there are. *)
LEMMA GrantImplementsAcquire ==
  ASSUME TypeOK, HoldInv, MapInv, NEW t \in Thread, Others(t), UNCHANGED hashtable,
         NEW k \in Key, NEW m \in Modes, NEW s \in Slot, hashtable[k] = s,
         Lockable(s, m), Lock(t, s, m), slot[t] = None, slot'[t] = s, key'[t] = k
  PROVE  Leases!Next
<1>1. s # None /\ t # None
  BY CacheConstants
<1>2. writer[s] = None
  BY DEF Lockable, Unlocked
<1>3. writer'[s] = t <=> m = "Write"
  BY <1>1, <1>2 DEF Lock, TypeOK
<1>4. LeaseOf(t) = None /\ LeaseOf(t)' = [key |-> k, mode |-> m]
  BY <1>1, <1>3 DEF LeaseOf, leased, ModeOf, Modes
<1>5. \A r \in Slot : \A u \in Thread : u # t => (writer'[r] = u <=> writer[r] = u)
  BY <1>1, <1>2, CacheConstants DEF Lock, TypeOK
<1>6. \A u \in Thread : u # t => LeaseOf(u)' = LeaseOf(u)
  BY <1>5, OthersLeases
<1>7. Leases!Compatible(k, m)
  <2> SUFFICES ASSUME NEW u \in Leases!Holders(k)
               PROVE  m = "Read" /\ LeaseOf(u).mode = "Read"
    BY DEF Leases!Compatible, Leases!Holders, LeaseOf, ModeOf
  <2>1. u \in Thread /\ slot[u] # None /\ key[u] = k
    BY HoldersAre
  <2>2. slot[u] = s /\ u \in readers[s] /\ writer[slot[u]] # u
    BY <1>2, <2>1, CacheConstants DEF HoldInv
  <2>3. m # "Write"
    BY <2>2 DEF Lockable, Unlocked
  <2>4. LeaseOf(u).mode = ModeOf(u)
    BY <2>1, LeaseOfFacts
  <2> QED BY <2>2, <2>3, <2>4 DEF Modes, ModeOf
<1>8. [u \in Thread |-> LeaseOf(u)]'
        = [[u \in Thread |-> LeaseOf(u)] EXCEPT ![t] = [key |-> k, mode |-> m]]
  BY <1>4, <1>6
<1>9. Leases!Acquire(t, k, m)
  <2>1. [u \in Thread |-> LeaseOf(u)][t] = None
    BY <1>4
  <2> QED BY <1>1, <1>7, <1>8, <2>1
          DEF Leases!Acquire, Leases!Compatible, Leases!Holders, LeaseOf, ModeOf, leased
<1> QED BY <1>9 DEF Leases!Next, Modes

(* A miss publishes an entry, write locked by the caller. *)
LEMMA AllocateImplements ==
  ASSUME IndInv, NEW t \in Thread, NEW c \in Costs, NEW g \in BOOLEAN, Allocate(t, c, g)
  PROVE  Leases!Next
<1>t. TypeOK /\ TableInv /\ HoldInv /\ Others(t) /\ None \notin Thread
  BY OthersUnchanged, CacheConstants DEF IndInv, Step
<1>1. PICK k \in Key : k = key[t] /\ hashtable[k] = None
  BY <1>t DEF Allocate, LockInv, IndInv, TypeOK
<1>2. PICK s \in Slot : s = NewSlot /\ s \notin Published /\ s # None
  BY <1>t, <1>1, NewSlotIsFree, CacheConstants DEF TableInv
<1>3. /\ hashtable' = [hashtable EXCEPT ![k] = s] /\ writer' = [writer EXCEPT ![s] = t]
      /\ slot'[t] = s /\ key'[t] = k /\ slot[t] = None
  BY <1>t, <1>1, <1>2, ArriveFacts DEF Allocate, Insert, Lock, HoldInv, Leasing
<1>4. LeaseOf(t) = None /\ LeaseOf(t)' = [key |-> k, mode |-> "Write"]
  BY <1>t, <1>2, <1>3 DEF LeaseOf, leased, ModeOf, TypeOK
<1>5. \A u \in Thread : writer[s] # u
  <2> SUFFICES ASSUME NEW u \in Thread, writer[s] = u PROVE FALSE
    OBVIOUS
  <2>1. slot[u] = s /\ hashtable[key[u]] = s /\ key[u] \in Key
    BY <1>t, <1>2 DEF HoldInv, TypeOK
  <2> QED BY <1>2, <2>1 DEF Published
<1>6. \A r \in Slot : \A u \in Thread : u # t => (writer'[r] = u <=> writer[r] = u)
  BY <1>t, <1>3, <1>5 DEF TypeOK
<1>7. \A u \in Thread : u # t => LeaseOf(u)' = LeaseOf(u)
  BY <1>t, <1>6, OthersLeases
<1>8. [u \in Thread |-> LeaseOf(u)]'
        = [[u \in Thread |-> LeaseOf(u)] EXCEPT ![t] = [key |-> k, mode |-> "Write"]]
  BY <1>4, <1>7
<1>9. Leases!Allocate(t, k, "Write")
  <2>1. [u \in Thread |-> LeaseOf(u)][t] = None
    BY <1>4
  <2> QED BY <1>1, <1>3, <1>8, <2>1 DEF Leases!Allocate, LeaseOf, ModeOf, leased
<1> QED BY <1>9 DEF Leases!Next

(* A removal or a collection deletes an entry nobody has locked. *)
LEMMA DeleteImplementsEvict ==
  ASSUME IndInv, NEW t \in Thread, Others(t), NEW s \in Published, Deletable(s), Delete(s),
         UNCHANGED <<writer, slot>>, slot[t] # None => key'[t] = key[t]
  PROVE  Leases!Next
<1>t. TypeOK /\ TableInv /\ HoldInv
  BY DEF IndInv
<1>1. PICK k \in Key : k = entryKey[s] /\ hashtable[k] = s /\ s \in Slot /\ s # None
  BY <1>t, PublishedFacts DEF TableInv, TypeOK
<1>2. hashtable' = [hashtable EXCEPT ![k] = None]
  BY <1>1 DEF Delete
<1>3. \A u \in Thread : LeaseOf(u)' = LeaseOf(u)
  BY DEF Others, LeaseOf, leased, ModeOf
<1>4. Leases!Holders(k) = {}
  <2> SUFFICES ASSUME NEW u \in Leases!Holders(k) PROVE FALSE
    OBVIOUS
  <2>1. u \in Thread /\ slot[u] # None /\ key[u] = k
    BY <1>t, HoldersAre
  <2>2. u \in readers[s] \/ writer[s] = u
    BY <1>t, <1>1, <2>1 DEF HoldInv
  <2> QED BY <2>1, <2>2, CacheConstants DEF Deletable, Unlocked
<1>5. Leases!Evict(k)
  BY <1>1, <1>2, <1>3, <1>4 DEF Leases!Evict, LeaseOf, ModeOf
<1> QED BY <1>5 DEF Leases!Next

(* A release, and the first half of a demotion. *)
LEMMA UnlockImplementsRelease ==
  ASSUME TypeOK, HoldInv, NEW t \in Thread, Others(t), UNCHANGED hashtable,
         slot[t] # None, slot'[t] = None, Unlock(t, slot[t])
  PROVE  Leases!Next
<1>1. LeaseOf(t) # None /\ LeaseOf(t)' = None
  BY LeaseOfFacts DEF LeaseOf, leased
<1>2. \A r \in Slot : \A u \in Thread : u # t => (writer'[r] = u <=> writer[r] = u)
  BY CacheConstants DEF Unlock, TypeOK
<1>3. \A u \in Thread : u # t => LeaseOf(u)' = LeaseOf(u)
  BY <1>2, OthersLeases
<1>4. Leases!Release(t)
  BY <1>1, <1>3 DEF Leases!Release, LeaseOf, ModeOf, leased
<1> QED BY <1>4 DEF Leases!Next

LEMMA StepImplementsLeases ==
  ASSUME IndInv, NEW t \in Thread, Step(t) \/ Call(t)
  PROVE  [Leases!Next]_(Leases!vars)
<1>t. TypeOK /\ TableInv /\ MapInv /\ HoldInv /\ Others(t) /\ key[t] \in Key /\ mode[t] \in Modes
  BY OthersUnchanged DEF IndInv, TypeOK, TableInv
<1>1. CASE GetHit(t)
  <2>1. PICK s \in Slot : s = hashtable[key[t]]
    BY <1>1, <1>t DEF GetHit, TypeOK
  <2>2. /\ slot[t] = None /\ slot'[t] = s /\ key' = key /\ hashtable' = hashtable
        /\ Lockable(s, mode[t]) /\ Lock(t, s, mode[t])
    BY <1>1, <1>t, <2>1, ArriveFacts DEF GetHit, HoldInv, Leasing
  <2> QED BY <1>t, <2>1, <2>2, GrantImplementsAcquire
<1>2. ASSUME NEW k \in Key, NEW m \in Modes, TestGet(t, k, m) PROVE Leases!Next
  <2>1. PICK s \in Slot : s = hashtable[k]
    BY <1>2, <1>t DEF TestGet, TypeOK
  <2>2. /\ slot[t] = None /\ slot'[t] = s /\ key'[t] = k /\ hashtable' = hashtable
        /\ Lockable(s, m) /\ Lock(t, s, m)
    BY <1>2, <1>t, <2>1 DEF TestGet, HoldInv, Leasing, TypeOK
  <2> QED BY <1>t, <2>1, <2>2, GrantImplementsAcquire
<1>3. CASE \E c \in Costs, g \in BOOLEAN : Allocate(t, c, g)
  BY <1>3, AllocateImplements
<1>4. CASE Demote(t)
  <2>1. slot[t] # None /\ slot'[t] = None /\ hashtable' = hashtable /\ Unlock(t, slot[t])
    BY <1>4, <1>t DEF Demote, TypeOK, HoldInv, Leasing, cacheVars
  <2> QED BY <1>t, <2>1, UnlockImplementsRelease
<1>5. CASE Release(t)
  <2>1. slot[t] # None /\ slot'[t] = None /\ hashtable' = hashtable /\ Unlock(t, slot[t])
    BY <1>5, <1>t, ReturnFacts DEF Release, HoldInv, Leasing, cacheVars
  <2> QED BY <1>t, <2>1, UnlockImplementsRelease
<1>6. CASE RemoveMissing(t) \/ RemoveEntry(t)
  <2>1. pc[t] = "remove" /\ writer' = writer /\ slot' = [slot EXCEPT ![t] = None]
    BY <1>6 DEF RemoveMissing, RemoveEntry, Return, entryVars
  <2>2. slot[t] = None /\ slot' = slot
    <3>1. slot[t] = None
      BY <1>t, <2>1 DEF HoldInv, Leasing
    <3> QED BY <1>t, <2>1, <3>1 DEF TypeOK
  <2>3. CASE RemoveMissing(t)
    BY <1>t, <2>1, <2>2, <2>3, SilentImplements DEF RemoveMissing, cacheVars
  <2>4. CASE RemoveEntry(t)
    <3>1. hashtable[key[t]] \in Published
      BY <1>t, <2>4, PublishedFacts DEF RemoveEntry
    <3> QED BY <1>t, <2>1, <2>2, <2>4, <3>1, DeleteImplementsEvict DEF RemoveEntry
  <2> QED BY <1>6, <2>3, <2>4
<1>7. CASE GcStep(t)
  <2>1. UNCHANGED <<writer, slot, key>>
    BY <1>7 DEF GcStep, entryVars
  <2>2. CASE UNCHANGED cacheVars
    BY <1>t, <2>1, <2>2, SilentImplements DEF cacheVars
  <2>3. CASE Deletable(Head(rest[t])) /\ Delete(Head(rest[t]))
    <3>1. Head(rest[t]) \in Published
      BY <1>7, RestIsPublished DEF GcStep, IndInv
    <3> QED BY <1>t, <2>1, <2>3, <3>1, DeleteImplementsEvict
  <2> QED BY <1>7, <2>2, <2>3 DEF GcStep
<1>8. CASE \/ GetOver(t) \/ GcEnd(t) \/ Got(t) \/ Generate(t)
           \/ \E k \in Key, m \in Modes : StartGet(t, k, m)
           \/ \E k \in Key : StartRemove(t, k)
  <2>1. UNCHANGED <<hashtable, writer, slot>> /\ (key' = key \/ pc[t] = "idle")
    BY <1>8 DEF GetOver, GcEnd, Got, Generate, StartGet, StartRemove, cacheVars, entryVars
  <2>2. slot[t] # None => key'[t] = key[t]
    BY <1>t, <2>1 DEF HoldInv, Leasing
  <2> QED BY <1>t, <2>1, <2>2, SilentImplements
<1> QED BY <1>1, <1>2, <1>3, <1>4, <1>5, <1>6, <1>7, <1>8 DEF Step, Call

(* The native cache keeps the promises of LeaseCache, as its port does:     *)
(* locks that exclude each other pin their entries, a miss publishes one    *)
(* entry for its key, and only an unlocked entry is removed or collected.   *)
THEOREM CacheImplementsLeases == Spec => ImplementsLeases
<1>1. Init => Leases!Init
  BY DEF Init, Leases!Init, leased
<1>2. IndInv /\ [Next]_vars => [Leases!Next]_(Leases!vars)
  <2> SUFFICES ASSUME IndInv, [Next]_vars PROVE [Leases!Next]_(Leases!vars)
    OBVIOUS
  <2>1. CASE UNCHANGED vars
    BY <2>1 DEF vars, cacheVars, entryVars, callVars, Leases!vars, leased
  <2> QED BY <2>1, StepImplementsLeases DEF Next
<1> QED BY <1>1, <1>2, IndInvHolds, PTL DEF Spec, ImplementsLeases, Leases!Spec

-----------------------------------------------------------------------------
(* The edit history: DevelopHistory.  Positions of a sequence in order.      *)

(* A bounded non-empty set of naturals has a greatest element, its Max.      *)
LEMMA MaxIsGreatest ==
  ASSUME NEW n \in Nat, NEW S, S \subseteq 0..n, S # {}
  PROVE  Max(S) \in S /\ \A x \in S : x =< Max(S)
<1> DEFINE T == {n - x : x \in S}
<1>1. T \subseteq Nat /\ T # {}
  BY DEF T
<1>2. PICK t \in T : \A u \in T : t =< u
  <2> HIDE DEF T
  <2> QED BY <1>1, MinIsLeast
<1>3. PICK x \in S : t = n - x
  BY <1>2
<1>4. \A y \in S : n - x =< n - y
  BY <1>2, <1>3
<1>5. \A y \in S : y =< x
  <2> TAKE y \in S
  <2>1. x \in 0..n /\ y \in 0..n
    OBVIOUS
  <2> QED BY <1>4, <2>1
<1>6. \A y \in S : x >= y
  <2> TAKE y \in S
  <2>1. x \in 0..n /\ y \in 0..n
    OBVIOUS
  <2> QED BY <1>5, <2>1
<1>7. Max(S) \in S /\ \A y \in S : Max(S) >= y
  BY <1>6 DEF Max
<1> QED
  <2> SUFFICES ASSUME NEW y \in S PROVE y =< Max(S)
    BY <1>7
  <2>1. Max(S) \in 0..n /\ y \in 0..n /\ Max(S) >= y
    BY <1>7
  <2> QED BY <2>1

(* f lists the numbers of S from the least to the greatest.                  *)
Enumerates(f, n, S) ==
  /\ n \in Nat /\ f \in [1..n -> S]
  /\ \A i, j \in 1..n : i < j => f[i] < f[j]
  /\ \A x \in S : \E i \in 1..n : f[i] = x

Below(S, x) == {i \in S : i < x}

(* There is only one such list, InOrder.                                     *)
LEMMA OrderUnique ==
  ASSUME NEW S, S \subseteq Nat, NEW n, NEW f, Enumerates(f, n, S)
  PROVE  IsFiniteSet(S) /\ Cardinality(S) = n /\ InOrder(S) = f
<1>1. /\ n \in Nat /\ f \in [1..n -> S]
      /\ \A i, j \in 1..n : i < j => f[i] < f[j]
      /\ \A x \in S : \E i \in 1..n : f[i] = x
  BY DEF Enumerates
<1>2. \A i, j \in 1..n : f[i] < f[j] => i < j
  <2> SUFFICES ASSUME NEW i \in 1..n, NEW j \in 1..n, f[i] < f[j] PROVE i < j
    OBVIOUS
  <2>1. f[i] \in Nat /\ f[j] \in Nat
    BY <1>1
  <2>2. i = j \/ j < i \/ i < j
    OBVIOUS
  <2> QED BY <1>1, <2>1, <2>2
<1>3. \A i, j \in 1..n : f[i] = f[j] => i = j
  <2> SUFFICES ASSUME NEW i \in 1..n, NEW j \in 1..n, f[i] = f[j], i # j PROVE FALSE
    OBVIOUS
  <2>1. f[i] \in Nat /\ f[j] \in Nat
    BY <1>1
  <2>2. j < i \/ i < j
    OBVIOUS
  <2> QED BY <1>1, <2>1, <2>2
<1>4. IsFiniteSet(S) /\ Cardinality(S) = n
  <2>1. f \in Bijection(1..n, S)
    BY <1>1, <1>3 DEF Bijection, Injection, Surjection, IsInjective
  <2> QED BY <1>1, <2>1, FS_NatBijection, FS_CountingElements DEF ExistsBijection
<1>5. \A j \in 1..n : Cardinality(Below(S, f[j])) = j - 1
  <2> TAKE j \in 1..n
  <2> DEFINE g == [i \in 1..j - 1 |-> f[i]]
  <2>1. g \in [1..j - 1 -> Below(S, f[j])]
    BY <1>1 DEF Below
  <2>2. \A a, b \in 1..j - 1 : g[a] = g[b] => a = b
    <3> TAKE a, b \in 1..j - 1
    <3>1. a \in 1..n /\ b \in 1..n /\ g[a] = f[a] /\ g[b] = f[b]
      BY <1>1
    <3> QED BY <1>3, <3>1
  <2>3. \A x \in Below(S, f[j]) : \E i \in 1..j - 1 : g[i] = x
    <3> TAKE x \in Below(S, f[j])
    <3>1. x \in S /\ x < f[j]
      BY DEF Below
    <3>2. PICK i \in 1..n : f[i] = x
      BY <1>1, <3>1
    <3>3. i < j
      BY <1>2, <3>1, <3>2
    <3> QED BY <3>2, <3>3
  <2> HIDE DEF g
  <2>4. g \in Bijection(1..j - 1, Below(S, f[j])) /\ j - 1 \in Nat
    BY <2>1, <2>2, <2>3 DEF Bijection, Injection, Surjection, IsInjective
  <2> QED BY <2>4, FS_NatBijection, FS_CountingElements DEF ExistsBijection
<1>6. \A j \in 1..n : (CHOOSE k \in S : Cardinality(Below(S, k)) = j - 1) = f[j]
  <2> TAKE j \in 1..n
  <2>1. f[j] \in S /\ Cardinality(Below(S, f[j])) = j - 1
    BY <1>1, <1>5
  <2>2. ASSUME NEW k \in S, Cardinality(Below(S, k)) = j - 1 PROVE k = f[j]
    <3>1. PICK i \in 1..n : f[i] = k
      BY <1>1
    <3>2. i - 1 = j - 1
      BY <1>5, <2>2, <3>1
    <3> QED BY <3>1, <3>2
  <2> QED BY <2>1, <2>2
<1>7. InOrder(S) = [j \in 1..n |-> f[j]]
  BY <1>4, <1>6 DEF InOrder, Below
<1> QED BY <1>1, <1>4, <1>7

(* And there is one.                                                         *)
LEMMA OrderExists ==
  ASSUME NEW S, S \subseteq Nat, IsFiniteSet(S)
  PROVE  /\ Enumerates(InOrder(S), Cardinality(S), S)
         /\ Cardinality(S) \in Nat
<1> DEFINE n == Cardinality(S)
           r(x) == Cardinality(Below(S, x))
<1>1. n \in Nat
  BY FS_CardinalityType
<1>2. \A x \in S : r(x) \in 0..n - 1
  <2> TAKE x \in S
  <2>1. Below(S, x) \in SUBSET S /\ Below(S, x) # S
    BY DEF Below
  <2>2. IsFiniteSet(Below(S, x)) /\ r(x) =< n /\ (n = r(x) => S = Below(S, x))
    BY <2>1, FS_Subset
  <2>3. r(x) \in Nat
    BY <2>2, FS_CardinalityType
  <2> HIDE DEF n, r
  <2> QED BY <1>1, <2>1, <2>2, <2>3
<1>3. \A x, y \in S : x < y => r(x) < r(y)
  <2> SUFFICES ASSUME NEW x \in S, NEW y \in S, x < y PROVE r(x) < r(y)
    OBVIOUS
  <2>1. Below(S, x) \in SUBSET Below(S, y) /\ x \in Below(S, y) /\ x \notin Below(S, x)
    <3>1. x \in Nat /\ y \in Nat /\ \A i \in S : i \in Nat
      OBVIOUS
    <3>2. \A i \in S : i < x => i < y
      BY <3>1
    <3>3. ~(x < x)
      BY <3>1
    <3> QED BY <3>2, <3>3 DEF Below
  <2>2. IsFiniteSet(Below(S, y))
    <3>1. Below(S, y) \in SUBSET S
      BY DEF Below
    <3> QED BY <3>1, FS_Subset
  <2>3. r(x) =< r(y) /\ (r(y) = r(x) => Below(S, y) = Below(S, x))
    BY <2>1, <2>2, FS_Subset
  <2>4. r(x) \in Int /\ r(y) \in Int
    BY <1>2
  <2> HIDE DEF r
  <2> QED BY <2>1, <2>3, <2>4
<1>4. \A x, y \in S : r(x) = r(y) => x = y
  <2> SUFFICES ASSUME NEW x \in S, NEW y \in S, r(x) = r(y), x # y PROVE FALSE
    OBVIOUS
  <2>1. x < y \/ y < x
    OBVIOUS
  <2>2. r(x) \in Int /\ r(y) \in Int
    BY <1>2
  <2> HIDE DEF r
  <2> QED BY <1>3, <2>1, <2>2
<1> DEFINE g == [x \in S |-> r(x) + 1]
<1>5. g \in Injection(S, 1..n)
  <2>1. \A x \in S : r(x) + 1 \in 1..n
    <3> HIDE DEF n, r
    <3> QED BY <1>1, <1>2
  <2>2. \A x, y \in S : r(x) + 1 = r(y) + 1 => x = y
    <3> TAKE x, y \in S
    <3>1. r(x) \in Int /\ r(y) \in Int
      BY <1>2
    <3>2. r(x) = r(y) => x = y
      BY <1>4
    <3> HIDE DEF r
    <3> QED BY <3>1, <3>2
  <2> HIDE DEF n, r
  <2> QED BY <2>1, <2>2 DEF Injection, IsInjective
<1>6. \A j \in 1..n : \E x \in S : g[x] = j
  <2>1. IsFiniteSet(1..n) /\ Cardinality(1..n) = n
    BY <1>1, FS_Interval
  <2> HIDE DEF g
  <2>2. g \in Surjection(S, 1..n)
    BY <1>5, <2>1, FS_Injection DEF n
  <2> QED BY <2>2 DEF Surjection
<1>7. \A j \in 1..n : \E x \in S : r(x) = j - 1
  <2> TAKE j \in 1..n
  <2>1. PICK x \in S : r(x) + 1 = j
    BY <1>6
  <2>2. r(x) \in Int
    BY <1>2
  <2> HIDE DEF r
  <2> QED BY <1>1, <2>1, <2>2
<1> DEFINE f == InOrder(S)
<1>8. f = [j \in 1..n |-> CHOOSE k \in S : r(k) = j - 1]
  BY DEF InOrder, Below
<1>9. \A j \in 1..n : f[j] \in S /\ r(f[j]) = j - 1
  <2> HIDE DEF n, r, f
  <2> QED BY <1>7, <1>8
<1>10. f \in [1..n -> S]
  <2> HIDE DEF n, r, f
  <2> QED BY <1>8, <1>9
<1>11. \A i, j \in 1..n : i < j => f[i] < f[j]
  <2> SUFFICES ASSUME NEW i \in 1..n, NEW j \in 1..n, i < j PROVE f[i] < f[j]
    OBVIOUS
  <2>1. /\ f[i] \in S /\ f[j] \in S /\ r(f[i]) = i - 1 /\ r(f[j]) = j - 1
        /\ f[i] \in Nat /\ f[j] \in Nat
    BY <1>9
  <2>2. f[j] < f[i] => r(f[j]) < r(f[i])
    BY <1>3, <2>1
  <2>3. i - 1 < j - 1
    BY <1>1
  <2> HIDE DEF r, f, n
  <2> QED BY <1>1, <2>1, <2>2, <2>3
<1>12. \A x \in S : \E i \in 1..n : f[i] = x
  <2> TAKE x \in S
  <2>1. r(x) \in 0..n - 1
    BY <1>2
  <2> DEFINE i == r(x) + 1
  <2>2. i \in 1..n /\ i - 1 = r(x)
    <3> HIDE DEF r, n
    <3> QED BY <1>1, <2>1
  <2>3. f[i] \in S /\ r(f[i]) = r(x)
    BY <1>9, <2>2
  <2>4. f[i] = x
    <3> HIDE DEF f, r, i
    <3> QED BY <1>4, <2>3
  <2> HIDE DEF f, i
  <2> QED BY <2>2, <2>4
<1> QED
  <2>1. Enumerates(f, n, S)
    <3> HIDE DEF f, n
    <3> QED BY <1>1, <1>10, <1>11, <1>12 DEF Enumerates
  <2> QED BY <1>1, <2>1

(* What is picked, in terms of any list of the positions.                    *)
LEMMA PickedBy ==
  ASSUME NEW S, S \subseteq Nat, NEW n, NEW f, Enumerates(f, n, S), NEW s
  PROVE  Picked(s, S) = [k \in 1..n |-> s[f[k]]] /\ Cardinality(S) = n
BY OrderUnique DEF Picked

(* The selected elements of a sequence.                                      *)
LEMMA PickedFacts ==
  ASSUME NEW T, NEW s \in Seq(T), NEW S, S \subseteq DOMAIN s
  PROVE  /\ Picked(s, S) \in Seq(T) /\ Len(Picked(s, S)) = Cardinality(S)
         /\ Cardinality(S) \in Nat
         /\ \A n \in 1..Cardinality(S) :
              /\ InOrder(S)[n] \in S /\ Picked(s, S)[n] = s[InOrder(S)[n]]
         /\ \A k \in S : \E n \in 1..Cardinality(S) : InOrder(S)[n] = k
         /\ Enumerates(InOrder(S), Cardinality(S), S)
<1>1. Len(s) \in Nat /\ DOMAIN s = 1..Len(s) /\ \A k \in 1..Len(s) : s[k] \in T
  OBVIOUS
<1>2. S \subseteq Nat /\ IsFiniteSet(S)
  <2>1. IsFiniteSet(1..Len(s)) /\ S \in SUBSET (1..Len(s))
    BY <1>1, FS_Interval
  <2> QED BY <2>1, FS_Subset
<1>3. Enumerates(InOrder(S), Cardinality(S), S) /\ Cardinality(S) \in Nat
  BY <1>2, OrderExists
<1> DEFINE n == Cardinality(S)
           f == InOrder(S)
<1>4. f \in [1..n -> S] /\ \A x \in S : \E i \in 1..n : f[i] = x
  BY <1>3 DEF Enumerates
<1>5. Picked(s, S) = [k \in 1..n |-> s[f[k]]]
  BY DEF Picked
<1>6. \A k \in 1..n : f[k] \in S /\ s[f[k]] \in T
  BY <1>1, <1>4
<1> HIDE DEF n, f
<1>7. Picked(s, S) \in Seq(T) /\ Len(Picked(s, S)) = n
  <2>1. n \in Nat
    BY <1>3 DEF n
  <2> QED BY <2>1, <1>5, <1>6
<1>8. \A k \in 1..n : Picked(s, S)[k] = s[f[k]]
  BY <1>5
<1> QED BY <1>3, <1>4, <1>6, <1>7, <1>8 DEF n, f

(* Two lists of numbers, those of the second above those of the first.       *)
LEMMA OrderJoin ==
  ASSUME NEW S, S \subseteq Nat, NEW n, NEW f, Enumerates(f, n, S),
         NEW T, T \subseteq Nat, NEW m, NEW g, Enumerates(g, m, T),
         \A x \in S, y \in T : x < y
  PROVE  Enumerates([k \in 1..n + m |-> IF k =< n THEN f[k] ELSE g[k - n]], n + m, S \cup T)
<1>1. /\ n \in Nat /\ f \in [1..n -> S]
      /\ \A i, j \in 1..n : i < j => f[i] < f[j]
      /\ \A x \in S : \E i \in 1..n : f[i] = x
      /\ m \in Nat /\ g \in [1..m -> T]
      /\ \A i, j \in 1..m : i < j => g[i] < g[j]
      /\ \A x \in T : \E i \in 1..m : g[i] = x
  BY DEF Enumerates
<1> DEFINE h == [k \in 1..n + m |-> IF k =< n THEN f[k] ELSE g[k - n]]
<1>2. \A k \in 1..n + m : (k \in 1..n /\ h[k] = f[k]) \/ (k > n /\ k - n \in 1..m /\ h[k] = g[k - n])
  BY <1>1
<1>3. h \in [1..n + m -> S \cup T] /\ n + m \in Nat
  BY <1>1, <1>2
<1>4. \A k \in 1..n : k \in 1..n + m /\ h[k] = f[k]
  BY <1>1
<1>5. \A k \in 1..m : k + n \in 1..n + m /\ h[k + n] = g[k]
  BY <1>1
<1> HIDE DEF h
<1>6. \A i, j \in 1..n + m : i < j => h[i] < h[j]
  <2> SUFFICES ASSUME NEW i \in 1..n + m, NEW j \in 1..n + m, i < j PROVE h[i] < h[j]
    OBVIOUS
  <2>1. CASE i \in 1..n /\ j \in 1..n
    BY <1>1, <1>4, <2>1
  <2>2. CASE i > n /\ j > n
    <3>1. /\ i - n \in 1..m /\ j - n \in 1..m /\ i - n < j - n
          /\ h[i] = g[i - n] /\ h[j] = g[j - n]
      BY <1>1, <1>2, <2>2
    <3> QED BY <1>1, <3>1
  <2>3. CASE i \in 1..n /\ j > n
    <3>1. h[i] = f[i] /\ h[j] = g[j - n] /\ j - n \in 1..m
      BY <1>1, <1>2, <2>3
    <3> QED BY <1>1, <2>3, <3>1
  <2> QED BY <1>1, <2>1, <2>2, <2>3
<1>7. \A x \in S \cup T : \E i \in 1..n + m : h[i] = x
  BY <1>1, <1>4, <1>5
<1> QED BY <1>3, <1>6, <1>7 DEF Enumerates, h

-----------------------------------------------------------------------------
(* What the undo lists are made of: the states recorded are histories with   *)
(* their ends, in which every always-on module is listed.                    *)
Saved ==
  {s \in [items : Seq(Instance \X (0..MaxSteps)), end : Nat] :
     /\ s.end =< Len(s.items)
     /\ \A m \in AlwaysOn : \E k \in 1..Len(s.items) : OpOf[s.items[k][1]] = OpOf[m]}
Types == RatedTypes \cup {"NONE", "LT_HISTORY"}
UndoItems ==
  {Mark(t) : t \in Types} \cup {Other(t) : t \in Types} \cup {Snapshot(s) : s \in Saved}
Entries == {At(i, t) : i \in UndoItems, t \in Nat}

IsEdit(x) == x.item.kind = "edit"
WithState(x, s) == [x EXCEPT !.item.was = s]

(* The items of the undo lists by their kind.                               *)
LEMMA ItemFacts ==
  ASSUME NEW i \in UndoItems
  PROVE  /\ i.kind \in {"mark", "other", "edit"}
         /\ i.kind = "edit" => i.was \in Saved /\ i.type = "HISTORY" /\ i = Snapshot(i.was)
<1>1. CASE \E t \in Types : i = Mark(t)
  BY <1>1 DEF Mark
<1>2. CASE \E t \in Types : i = Other(t)
  BY <1>2 DEF Other
<1>3. CASE \E s \in Saved : i = Snapshot(s)
  <2>1. PICK s \in Saved : i = Snapshot(s)
    BY <1>3
  <2>2. i.kind = "edit" /\ i.was = s /\ i.type = "HISTORY"
    BY <2>1 DEF Snapshot
  <2> QED BY <2>1, <2>2
<1> QED BY <1>1, <1>2, <1>3 DEF UndoItems

(* An edit is undone in the darkroom and is no mark, and stays an edit when *)
(* the state in it is replaced.                                             *)
LEMMA EntryFacts ==
  ASSUME NEW x \in Entries
  PROVE  /\ x.item.kind \in {"mark", "other", "edit"}
         /\ IsEdit(x) => x.item.was \in Saved /\ Matches(x) /\ ~IsMark(x)
         /\ \A s \in Saved : IsEdit(x) =>
              /\ WithState(x, s) \in Entries /\ WithState(x, s).item.was = s
              /\ IsEdit(WithState(x, s)) /\ Matches(WithState(x, s)) /\ ~IsMark(WithState(x, s))
<1>1. PICK i \in UndoItems, t \in Nat : x = [item |-> i, ts |-> t]
  BY DEF Entries, At
<1>2. x.item = i
  BY <1>1
<1>3. /\ i.kind \in {"mark", "other", "edit"}
      /\ i.kind = "edit" => i.was \in Saved /\ i.type = "HISTORY" /\ i = Snapshot(i.was)
  BY ItemFacts
<1>4. ASSUME NEW s \in Saved, i.kind = "edit"
      PROVE  WithState(x, s) = [item |-> Snapshot(s), ts |-> t]
  <2>1. WithState(x, s) = [item |-> [i EXCEPT !.was = s], ts |-> t]
    BY <1>1 DEF WithState
  <2>2. [i EXCEPT !.was = s] = Snapshot(s)
    <3>1. i = [kind |-> "edit", type |-> "HISTORY", was |-> i.was]
      BY <1>3, <1>4 DEF Snapshot
    <3> DEFINE w == i.was
    <3> HIDE DEF w
    <3>2. i = [kind |-> "edit", type |-> "HISTORY", was |-> w]
      BY <3>1 DEF w
    <3> QED BY <3>2 DEF Snapshot
  <2> QED BY <2>1, <2>2
<1>5. \A s \in Saved : /\ [item |-> Snapshot(s), ts |-> t] \in Entries
                       /\ Snapshot(s).kind = "edit" /\ Snapshot(s).was = s
                       /\ Snapshot(s).type = "HISTORY"
  BY DEF Entries, At, UndoItems, Snapshot
<1>6. \A s \in Saved : i.kind = "edit" =>
         /\ WithState(x, s) \in Entries /\ WithState(x, s).item = Snapshot(s)
  BY <1>4, <1>5
<1>7. "HISTORY" \in Develop /\ "edit" # "mark"
  BY DEF Develop
<1> QED BY <1>2, <1>3, <1>5, <1>6, <1>7 DEF IsEdit, Matches, IsMark

(* The positions of the edits of a list, and the states they hold.          *)
LEMMA EditsOf ==
  ASSUME NEW list \in Seq(Entries)
  PROVE  /\ Edits(list) \subseteq 1..Len(list) /\ Edits(list) \subseteq Nat
         /\ \A k \in 1..Len(list) : k \in Edits(list) <=> IsEdit(list[k])
         /\ \A k \in Edits(list) : list[k].item.was \in Saved
<1>1. DOMAIN list = 1..Len(list) /\ \A k \in 1..Len(list) : list[k] \in Entries
  OBVIOUS
<1>2. \A x \in Entries : IsEdit(x) => x.item.was \in Saved
  BY EntryFacts
<1> QED BY <1>1, <1>2 DEF Edits, IsEdit

(* The recorded states of a list, in terms of any list of the positions.     *)
LEMMA SnapshotsBy ==
  ASSUME NEW list \in Seq(Entries), NEW n, NEW f, Enumerates(f, n, Edits(list))
  PROVE  /\ Snapshots(list) = [k \in 1..n |-> list[f[k]].item.was]
         /\ Snapshots(list) \in Seq(Saved) /\ Len(Snapshots(list)) = n
<1>1. /\ Picked(list, Edits(list)) = [k \in 1..n |-> list[f[k]]]
      /\ Cardinality(Edits(list)) = n
  BY EditsOf, PickedBy
<1>2. Snapshots(list) = [k \in 1..n |-> list[f[k]].item.was]
  BY <1>1 DEF Snapshots
<1>3. n \in Nat /\ \A k \in 1..n : f[k] \in Edits(list)
  BY DEF Enumerates
<1>4. \A k \in 1..n : list[f[k]].item.was \in Saved
  BY <1>3, EditsOf
<1> QED BY <1>2, <1>3, <1>4

(* InOrder enumerates the edits of a list.                                  *)
LEMMA EditsEnumerated ==
  ASSUME NEW list \in Seq(Entries)
  PROVE  Enumerates(InOrder(Edits(list)), Cardinality(Edits(list)), Edits(list))
<1>1. Edits(list) \subseteq DOMAIN list
  BY DEF Edits
<1> QED BY <1>1, PickedFacts

(* The states on a list are states that the history had.                    *)
LEMMA SnapshotsType ==
  ASSUME NEW list \in Seq(Entries)
  PROVE  Snapshots(list) \in Seq(Saved)
BY EditsEnumerated, SnapshotsBy

(* The states on two lists, one put before the other.                       *)
LEMMA SnapshotsConcat ==
  ASSUME NEW s \in Seq(Entries), NEW t \in Seq(Entries)
  PROVE  Snapshots(s \o t) = Snapshots(s) \o Snapshots(t)
<1> DEFINE r == s \o t
           L == Len(s)
           K == {k + L : k \in Edits(t)}
           f == InOrder(Edits(s))
           n == Cardinality(Edits(s))
           g == InOrder(Edits(t))
           m == Cardinality(Edits(t))
           gg == [k \in 1..m |-> g[k] + L]
           h == [k \in 1..n + m |-> IF k =< n THEN f[k] ELSE gg[k - n]]
<1>1. /\ r \in Seq(Entries) /\ Len(r) = L + Len(t) /\ L \in Nat /\ Len(t) \in Nat
      /\ \A i \in 1..L : r[i] = s[i] /\ i \in 1..Len(r)
      /\ \A i \in 1..Len(t) : r[i + L] = t[i] /\ i + L \in 1..Len(r)
      /\ \A i \in 1..Len(r) : i \in 1..L \/ (i > L /\ i - L \in 1..Len(t) /\ (i - L) + L = i)
  <2>1. /\ r \in Seq(Entries) /\ Len(r) = L + Len(t) /\ L \in Nat /\ Len(t) \in Nat
        /\ \A i \in 1..Len(r) : r[i] = IF i =< L THEN s[i] ELSE t[i - L]
    BY ConcatProperties
  <2> HIDE DEF r
  <2>2. \A i \in 1..L : r[i] = s[i] /\ i \in 1..Len(r)
    BY <2>1
  <2>3. \A i \in 1..Len(t) : r[i + L] = t[i] /\ i + L \in 1..Len(r)
    <3> TAKE i \in 1..Len(t)
    <3>1. i + L \in 1..Len(r) /\ ~(i + L =< L) /\ (i + L) - L = i
      BY <2>1
    <3> QED BY <2>1, <3>1
  <2>4. \A i \in 1..Len(r) : i \in 1..L \/ (i > L /\ i - L \in 1..Len(t) /\ (i - L) + L = i)
    BY <2>1
  <2> QED BY <2>1, <2>2, <2>3, <2>4
<1>2. Enumerates(f, n, Edits(s)) /\ Enumerates(g, m, Edits(t))
  BY EditsEnumerated
<1>3. /\ \A k \in 1..L : k \in Edits(s) <=> IsEdit(s[k])
      /\ Edits(s) \subseteq 1..L /\ Edits(s) \subseteq Nat
      /\ \A k \in 1..Len(t) : k \in Edits(t) <=> IsEdit(t[k])
      /\ Edits(t) \subseteq 1..Len(t)
  BY EditsOf
<1>4. \A k \in 1..Len(r) : k \in Edits(r) <=> IsEdit(r[k])
  <2> HIDE DEF r
  <2> QED BY <1>1, EditsOf
<1>5. Edits(r) \subseteq 1..Len(r)
  <2> HIDE DEF r
  <2> QED BY <1>1, EditsOf
<1>6. \A k : k \in Edits(r) <=> k \in Edits(s) \cup K
  <2> HIDE DEF r, L
  <2>1. \A k \in Edits(s) : k \in 1..Len(r) /\ k \in Edits(r)
    BY <1>1, <1>3, <1>4
  <2>2. \A k \in Edits(t) : k + L \in Edits(r)
    BY <1>1, <1>3, <1>4
  <2>3. ASSUME NEW k \in Edits(r) PROVE k \in Edits(s) \/ \E i \in Edits(t) : k = i + L
    <3>1. k \in 1..Len(r) /\ IsEdit(r[k])
      BY <1>4, <1>5
    <3>2. CASE k \in 1..L
      BY <1>1, <1>3, <3>1, <3>2
    <3>3. CASE k > L /\ k - L \in 1..Len(t) /\ (k - L) + L = k
      <4>1. IsEdit(t[k - L])
        BY <1>1, <3>1, <3>3
      <4> QED BY <1>3, <3>3, <4>1
    <3> QED BY <1>1, <3>1, <3>2, <3>3
  <2> QED BY <2>1, <2>2, <2>3
<1>7. Edits(r) = Edits(s) \cup K
  BY <1>6
<1>8. Enumerates(gg, m, K) /\ K \subseteq Nat
  <2>1. /\ m \in Nat /\ g \in [1..m -> Edits(t)]
        /\ \A i, j \in 1..m : i < j => g[i] < g[j]
        /\ \A x \in Edits(t) : \E i \in 1..m : g[i] = x
    BY <1>2 DEF Enumerates
  <2> HIDE DEF m, g, L
  <2>2. \A k \in 1..m : gg[k] = g[k] + L /\ g[k] \in Edits(t) /\ g[k] \in Nat
    BY <1>1, <1>3, <2>1
  <2>3. gg \in [1..m -> K]
    BY <2>2
  <2>4. \A i, j \in 1..m : i < j => gg[i] < gg[j]
    <3> HIDE DEF gg
    <3> QED BY <1>1, <2>1, <2>2
  <2>5. \A x \in K : \E i \in 1..m : gg[i] = x
    BY <2>1, <2>2
  <2>6. K \subseteq Nat
    BY <1>1, <1>3
  <2> HIDE DEF gg, K
  <2> QED BY <2>1, <2>3, <2>4, <2>5, <2>6 DEF Enumerates
<1>9. Enumerates(h, n + m, Edits(r))
  <2>1. \A x \in Edits(s), y \in K : x < y
    BY <1>1, <1>3
  <2>2. Enumerates(h, n + m, Edits(s) \cup K)
    <3> HIDE DEF f, n, g, m, gg, K, r
    <3>1. Edits(s) \subseteq Nat /\ K \subseteq Nat
      BY <1>3, <1>8
    <3>2. Enumerates(f, n, Edits(s)) /\ Enumerates(gg, m, K)
      BY <1>2, <1>8
    <3> QED BY <3>1, <3>2, <2>1, OrderJoin
  <2> QED BY <1>7, <2>2
<1>10. /\ Snapshots(r) = [k \in 1..n + m |-> r[h[k]].item.was]
       /\ Snapshots(r) \in Seq(Saved) /\ Len(Snapshots(r)) = n + m
  <2> HIDE DEF f, n, g, m, gg, K, r, h
  <2> QED BY <1>1, <1>9, SnapshotsBy
<1>11. /\ Snapshots(s) = [k \in 1..n |-> s[f[k]].item.was]
       /\ Snapshots(s) \in Seq(Saved) /\ Len(Snapshots(s)) = n
       /\ Snapshots(t) = [k \in 1..m |-> t[g[k]].item.was]
       /\ Snapshots(t) \in Seq(Saved) /\ Len(Snapshots(t)) = m
  <2> HIDE DEF f, n, g, m
  <2> QED BY <1>2, SnapshotsBy
<1>12. /\ n \in Nat /\ m \in Nat /\ \A k \in 1..n : f[k] \in Edits(s)
       /\ \A k \in 1..m : g[k] \in Edits(t)
  BY <1>2 DEF Enumerates
<1>13. \A k \in 1..n + m : Snapshots(r)[k] = IF k =< n THEN Snapshots(s)[k] ELSE Snapshots(t)[k - n]
  <2> TAKE k \in 1..n + m
  <2>1. Snapshots(r)[k] = r[h[k]].item.was
    BY <1>10
  <2>2. CASE k =< n
    <3>1. k \in 1..n /\ h[k] = f[k] /\ f[k] \in 1..L
      BY <1>3, <1>12, <2>2
    <3>2. r[f[k]] = s[f[k]]
      BY <1>1, <3>1
    <3> QED BY <1>11, <2>1, <2>2, <3>1, <3>2
  <2>3. CASE ~(k =< n)
    <3>1. k - n \in 1..m /\ h[k] = gg[k - n]
      BY <1>12, <2>3
    <3>2. gg[k - n] = g[k - n] + L /\ g[k - n] \in 1..Len(t)
      BY <1>3, <1>12, <3>1
    <3>3. r[g[k - n] + L] = t[g[k - n]]
      BY <1>1, <3>2
    <3> QED BY <1>11, <2>1, <2>3, <3>1, <3>2, <3>3
  <2> QED BY <2>2, <2>3
<1> DEFINE p == Snapshots(s)
           q == Snapshots(t)
           w == Snapshots(r)
<1>14. p \o q \in Seq(Saved) /\ Len(p \o q) = n + m
       /\ \A k \in 1..n + m : (p \o q)[k] = IF k =< n THEN p[k] ELSE q[k - n]
  <2>1. p \in Seq(Saved) /\ Len(p) = n /\ q \in Seq(Saved) /\ Len(q) = m
    BY <1>11
  <2> HIDE DEF p, q, n, m
  <2>2. /\ p \o q \in Seq(Saved) /\ Len(p \o q) = Len(p) + Len(q)
        /\ \A k \in 1..Len(p) + Len(q) :
             (p \o q)[k] = IF k =< Len(p) THEN p[k] ELSE q[k - Len(p)]
    BY <2>1, ConcatProperties
  <2> QED BY <2>1, <2>2
<1>15. w = p \o q
  <2> HIDE DEF p, q, w, n, m
  <2> QED BY <1>10, <1>13, <1>14, SeqEqual DEF p, q, w
<1> QED BY <1>15

-----------------------------------------------------------------------------
(* What an undo or a redo makes of the items it moves.                       *)
Before(B, n) == {k \in Edits(B) : k < n}
Previous(B, n) == IF Before(B, n) = {} THEN State ELSE B[Max(Before(B, n))].item.was
Swapped(B, n) == IF n \notin Edits(B) THEN B[n] ELSE WithState(B[n], Previous(B, n))

(* Moved reverses a block, and each edit takes the state of the edit before *)
(* it.                                                                      *)
LEMMA MovedIs ==
  ASSUME NEW B
  PROVE  Moved(B) = [k \in 1..Len(B) |-> Swapped(B, Len(B) + 1 - k)]
BY DEF Moved, Swapped, Previous, Before, WithState

(* The state an edit takes is a state that the history had.                 *)
LEMMA PreviousType ==
  ASSUME NEW B \in Seq(Entries), State \in Saved, NEW n \in 1..Len(B)
  PROVE  Previous(B, n) \in Saved
<1>1. CASE Before(B, n) = {}
  BY <1>1 DEF Previous
<1>2. CASE Before(B, n) # {}
  <2>1. Before(B, n) \subseteq 0..Len(B) /\ Len(B) \in Nat
    BY EditsOf DEF Before
  <2>2. Max(Before(B, n)) \in Edits(B)
    <3>1. Max(Before(B, n)) \in Before(B, n)
      BY <1>2, <2>1, MaxIsGreatest
    <3> QED BY <3>1 DEF Before
  <2> QED BY <1>2, <2>2, EditsOf DEF Previous
<1> QED BY <1>1, <1>2

(* A moved block is as long as the block, with its marks and edits at the   *)
(* mirrored places.                                                         *)
LEMMA MovedFacts ==
  ASSUME NEW B \in Seq(Entries), State \in Saved
  PROVE  /\ Moved(B) \in Seq(Entries) /\ Len(Moved(B)) = Len(B)
         /\ \A k \in 1..Len(B) :
              /\ Len(B) + 1 - k \in 1..Len(B)
              /\ Moved(B)[k] = Swapped(B, Len(B) + 1 - k)
              /\ IsMark(Moved(B)[k]) <=> IsMark(B[Len(B) + 1 - k])
              /\ Matches(Moved(B)[k]) <=> Matches(B[Len(B) + 1 - k])
              /\ IsEdit(Moved(B)[k]) <=> IsEdit(B[Len(B) + 1 - k])
<1>1. Len(B) \in Nat /\ \A k \in 1..Len(B) : Len(B) + 1 - k \in 1..Len(B) /\ B[k] \in Entries
  OBVIOUS
<1>2. \A n \in 1..Len(B) : n \in Edits(B) <=> IsEdit(B[n])
  BY EditsOf
<1>3. ASSUME NEW n \in 1..Len(B)
      PROVE  /\ Swapped(B, n) \in Entries
             /\ IsMark(Swapped(B, n)) <=> IsMark(B[n])
             /\ Matches(Swapped(B, n)) <=> Matches(B[n])
             /\ IsEdit(Swapped(B, n)) <=> IsEdit(B[n])
  <2>1. CASE n \notin Edits(B)
    BY <1>1, <2>1 DEF Swapped
  <2>2. CASE n \in Edits(B)
    <3>1. Previous(B, n) \in Saved /\ B[n] \in Entries /\ IsEdit(B[n])
      BY <1>1, <1>2, <2>2, PreviousType
    <3>2. Swapped(B, n) = WithState(B[n], Previous(B, n))
      BY <2>2 DEF Swapped
    <3> QED BY <3>1, <3>2, EntryFacts
  <2> QED BY <2>1, <2>2
<1>4. Moved(B) = [k \in 1..Len(B) |-> Swapped(B, Len(B) + 1 - k)]
  BY MovedIs
<1>5. \A k \in 1..Len(B) : Moved(B)[k] = Swapped(B, Len(B) + 1 - k)
  BY <1>4
<1>6. Moved(B) \in Seq(Entries) /\ Len(Moved(B)) = Len(B)
  <2>1. \A k \in 1..Len(B) : Swapped(B, Len(B) + 1 - k) \in Entries
    BY <1>1, <1>3
  <2> QED BY <1>1, <1>4, <2>1
<1> QED BY <1>1, <1>3, <1>5, <1>6

(* The states recorded in them, then: each is that before it, and the first  *)
(* is the state at hand, in the reverse order.                               *)
LEMMA MovedSnapshots ==
  ASSUME NEW B \in Seq(Entries), State \in Saved
  PROVE  /\ Len(Snapshots(Moved(B))) = Len(Snapshots(B))
         /\ \A i \in 1..Len(Snapshots(B)) :
              Snapshots(Moved(B))[i] = IF i = Len(Snapshots(B)) THEN State
                                       ELSE Snapshots(B)[Len(Snapshots(B)) - i]
<1> DEFINE M == Moved(B)
           L == Len(B)
           f == InOrder(Edits(B))
           n == Cardinality(Edits(B))
           g == [i \in 1..n |-> L + 1 - f[n + 1 - i]]
<1>1. /\ n \in Nat /\ f \in [1..n -> Edits(B)]
      /\ \A i, j \in 1..n : i < j => f[i] < f[j]
      /\ \A x \in Edits(B) : \E i \in 1..n : f[i] = x
  BY EditsEnumerated DEF Enumerates
<1>2. /\ M \in Seq(Entries) /\ Len(M) = L /\ L \in Nat
      /\ \A k \in 1..L : /\ L + 1 - k \in 1..L /\ M[k] = Swapped(B, L + 1 - k)
                         /\ IsEdit(M[k]) <=> IsEdit(B[L + 1 - k])
  BY MovedFacts
<1>3. /\ Edits(B) \subseteq 1..L
      /\ \A k \in 1..L : k \in Edits(B) <=> IsEdit(B[k])
  BY EditsOf
<1>4. \A k \in 1..L : k \in Edits(M) <=> L + 1 - k \in Edits(B)
  <2> HIDE DEF M, L
  <2> QED BY <1>2, <1>3, EditsOf DEF L
<1>5. Edits(M) \subseteq 1..L
  <2> HIDE DEF M
  <2> QED BY <1>2, EditsOf
<1>6. \A i \in 1..n : /\ n + 1 - i \in 1..n /\ f[n + 1 - i] \in Edits(B) /\ f[n + 1 - i] \in 1..L
                      /\ g[i] = L + 1 - f[n + 1 - i] /\ g[i] \in 1..L
                      /\ L + 1 - g[i] = f[n + 1 - i]
  <2> HIDE DEF f, n
  <2> TAKE i \in 1..n
  <2>1. n + 1 - i \in 1..n
    BY <1>1
  <2>2. f[n + 1 - i] \in Edits(B) /\ f[n + 1 - i] \in 1..L
    BY <1>1, <1>3, <2>1
  <2>3. g[i] = L + 1 - f[n + 1 - i]
    OBVIOUS
  <2> HIDE DEF L, g
  <2>4. g[i] \in 1..L /\ L + 1 - g[i] = f[n + 1 - i]
    BY <1>2, <2>2, <2>3
  <2> QED BY <2>1, <2>2, <2>3, <2>4
<1>7. Enumerates(g, n, Edits(M))
  <2>1. g \in [1..n -> Edits(M)]
    <3>1. \A i \in 1..n : g[i] \in Edits(M)
      <4> HIDE DEF f, n, g, M, L
      <4> QED BY <1>4, <1>6
    <3> HIDE DEF f, n, M, L
    <3> QED BY <3>1
  <2>2. \A i, j \in 1..n : i < j => g[i] < g[j]
    <3> HIDE DEF f, n, g, M, L
    <3> SUFFICES ASSUME NEW i \in 1..n, NEW j \in 1..n, i < j PROVE g[i] < g[j]
      OBVIOUS
    <3>1. n + 1 - i \in 1..n /\ n + 1 - j \in 1..n /\ n + 1 - j < n + 1 - i
      BY <1>1
    <3>2. f[n + 1 - j] < f[n + 1 - i] /\ f[n + 1 - i] \in 1..L /\ f[n + 1 - j] \in 1..L
      BY <1>1, <1>6, <3>1
    <3>3. g[i] = L + 1 - f[n + 1 - i] /\ g[j] = L + 1 - f[n + 1 - j]
      BY <1>6
    <3> QED BY <1>2, <3>2, <3>3
  <2>3. \A x \in Edits(M) : \E i \in 1..n : g[i] = x
    <3> HIDE DEF f, n, g, M, L
    <3> TAKE x \in Edits(M)
    <3>1. x \in 1..L /\ L + 1 - x \in Edits(B)
      BY <1>4, <1>5
    <3>2. PICK j \in 1..n : f[j] = L + 1 - x
      BY <1>1, <3>1
    <3>3. n + 1 - j \in 1..n /\ n + 1 - (n + 1 - j) = j
      BY <1>1
    <3>4. g[n + 1 - j] = L + 1 - (L + 1 - x)
      BY <1>6, <3>2, <3>3
    <3>5. L + 1 - (L + 1 - x) = x
      BY <1>2, <3>1
    <3> QED BY <3>3, <3>4, <3>5
  <2> HIDE DEF f, n, g, M
  <2> QED BY <1>1, <2>1, <2>2, <2>3 DEF Enumerates
<1>8. /\ Snapshots(B) = [k \in 1..n |-> B[f[k]].item.was] /\ Len(Snapshots(B)) = n
      /\ Snapshots(M) = [k \in 1..n |-> M[g[k]].item.was] /\ Len(Snapshots(M)) = n
  <2>1. Enumerates(f, n, Edits(B))
    BY EditsEnumerated
  <2> HIDE DEF f, n, g, M
  <2> QED BY <1>2, <1>7, <2>1, SnapshotsBy
<1>9. ASSUME NEW j \in 1..n
      PROVE  Previous(B, f[j]) = IF j = 1 THEN State ELSE B[f[j - 1]].item.was
  <2> HIDE DEF f, n
  <2>1. \A k \in 1..n : f[k] \in 1..L /\ f[k] \in Nat
    BY <1>1, <1>3
  <2>2. \A k \in 1..n : k < j => f[k] \in Before(B, f[j])
    BY <1>1 DEF Before
  <2>3. \A x \in Before(B, f[j]) : \E k \in 1..n : k < j /\ f[k] = x
    <3> TAKE x \in Before(B, f[j])
    <3>1. x \in Edits(B) /\ x < f[j]
      BY DEF Before
    <3>2. PICK k \in 1..n : f[k] = x
      BY <1>1, <3>1
    <3>3. k < j
      <4>1. k < j \/ k = j \/ j < k
        OBVIOUS
      <4>2. j < k => f[j] < f[k]
        BY <1>1
      <4>3. f[j] \in Nat /\ f[k] \in Nat /\ f[k] < f[j]
        BY <2>1, <3>1, <3>2
      <4> QED BY <4>1, <4>2, <4>3
    <3> QED BY <3>2, <3>3
  <2>4. CASE j = 1
    <3>1. Before(B, f[j]) = {}
      BY <1>1, <2>3, <2>4
    <3> QED BY <2>4, <3>1 DEF Previous
  <2>5. CASE j # 1
    <3>1. j - 1 \in 1..n /\ j - 1 < j /\ \A k \in 1..n : k < j => k =< j - 1
      BY <1>1, <2>5
    <3>2. f[j - 1] \in Before(B, f[j])
      BY <2>2, <3>1
    <3>3. Before(B, f[j]) \subseteq 0..L
      BY <2>1, <2>3
    <3>4. /\ Max(Before(B, f[j])) \in Before(B, f[j])
          /\ \A x \in Before(B, f[j]) : x =< Max(Before(B, f[j]))
      <4> HIDE DEF L
      <4> QED BY <1>2, <3>2, <3>3, MaxIsGreatest
    <3>5. PICK k \in 1..n : k < j /\ f[k] = Max(Before(B, f[j]))
      BY <2>3, <3>4
    <3>6. f[j - 1] =< f[k]
      BY <3>2, <3>4, <3>5
    <3>7. k = j - 1
      <4>1. k =< j - 1 /\ (k < j - 1 => f[k] < f[j - 1])
        BY <1>1, <3>1, <3>5
      <4>2. f[k] \in Nat /\ f[j - 1] \in Nat
        BY <2>1, <3>1
      <4> QED BY <3>1, <3>6, <4>1, <4>2
    <3> QED BY <2>5, <3>2, <3>5, <3>7 DEF Previous
  <2> QED BY <2>4, <2>5
<1>10. ASSUME NEW i \in 1..n
       PROVE  M[g[i]].item.was = Previous(B, f[n + 1 - i])
  <2>1. M[g[i]] = Swapped(B, f[n + 1 - i])
    <3> HIDE DEF f, n, g, M, L
    <3> QED BY <1>2, <1>6
  <2>2. Swapped(B, f[n + 1 - i]) = WithState(B[f[n + 1 - i]], Previous(B, f[n + 1 - i]))
    BY <1>6 DEF Swapped
  <2>3. /\ B[f[n + 1 - i]] \in Entries /\ IsEdit(B[f[n + 1 - i]])
        /\ Previous(B, f[n + 1 - i]) \in Saved
    <3> HIDE DEF f, n
    <3>1. f[n + 1 - i] \in 1..L /\ f[n + 1 - i] \in Edits(B)
      BY <1>6
    <3>2. IsEdit(B[f[n + 1 - i]])
      BY <1>3, <3>1
    <3>3. B[f[n + 1 - i]] \in Entries
      BY <3>1
    <3>4. Previous(B, f[n + 1 - i]) \in Saved
      BY <3>1, PreviousType
    <3> QED BY <3>2, <3>3, <3>4
  <2> HIDE DEF f, n, g, M
  <2> QED BY <2>1, <2>2, <2>3, EntryFacts
<1>11. ASSUME NEW i \in 1..n
       PROVE  Snapshots(M)[i] = IF i = n THEN State ELSE Snapshots(B)[n - i]
  <2> HIDE DEF f, n, g, M
  <2>1. Snapshots(M)[i] = Previous(B, f[n + 1 - i])
    BY <1>8, <1>10
  <2>2. n + 1 - i \in 1..n /\ (n + 1 - i = 1 <=> i = n) /\ (n + 1 - i) - 1 = n - i
    BY <1>1
  <2>3. i # n => n - i \in 1..n
    BY <1>1
  <2>4. i # n => Snapshots(B)[n - i] = B[f[n - i]].item.was
    BY <1>8, <2>3
  <2> QED BY <1>9, <2>1, <2>2, <2>4
<1> QED
  <2> HIDE DEF f, n, g, M
  <2> QED BY <1>8, <1>11 DEF M

(* The state a move arrives at is the last recorded one among them.          *)
LEMMA LastSnapshot ==
  ASSUME NEW B \in Seq(Entries), Edits(B) # {}
  PROVE  /\ Len(Snapshots(B)) \in Nat \ {0} /\ Max(Edits(B)) \in Edits(B)
         /\ Snapshots(B)[Len(Snapshots(B))] = B[Max(Edits(B))].item.was
<1> DEFINE f == InOrder(Edits(B))
           n == Cardinality(Edits(B))
<1>1. /\ n \in Nat /\ f \in [1..n -> Edits(B)]
      /\ \A i, j \in 1..n : i < j => f[i] < f[j]
      /\ \A x \in Edits(B) : \E i \in 1..n : f[i] = x
  BY EditsEnumerated DEF Enumerates
<1>2. Snapshots(B) = [k \in 1..n |-> B[f[k]].item.was] /\ Len(Snapshots(B)) = n
  <2>1. Enumerates(f, n, Edits(B))
    BY EditsEnumerated
  <2> HIDE DEF f, n
  <2> QED BY <2>1, SnapshotsBy
<1>3. /\ Max(Edits(B)) \in Edits(B) /\ \A x \in Edits(B) : x =< Max(Edits(B))
      /\ Edits(B) \subseteq Nat
  <2>1. Len(B) \in Nat /\ Edits(B) \subseteq 0..Len(B) /\ Edits(B) \subseteq Nat
    BY EditsOf
  <2> QED BY <2>1, MaxIsGreatest
<1> HIDE DEF f, n
<1>4. PICK k \in 1..n : f[k] = Max(Edits(B))
  BY <1>1, <1>3
<1>5. n \in 1..n /\ f[n] =< f[k] /\ f[n] \in Nat /\ f[k] \in Nat
  BY <1>1, <1>3, <1>4
<1>6. k = n
  BY <1>1, <1>4, <1>5
<1> QED BY <1>1, <1>2, <1>3, <1>4, <1>5, <1>6

(* A list without edits holds no states.                                    *)
LEMMA NoSnapshots ==
  ASSUME NEW B \in Seq(Entries), Edits(B) = {}
  PROVE  Snapshots(B) = <<>>
<1>1. Cardinality(Edits(B)) = 0
  BY FS_EmptySet
<1> QED BY <1>1 DEF Snapshots

(* The states on a list of one entry.                                       *)
LEMMA OneSnapshot ==
  ASSUME NEW x \in Entries
  PROVE  /\ <<x>> \in Seq(Entries)
         /\ IsEdit(x) => Snapshots(<<x>>) = <<x.item.was>>
         /\ ~IsEdit(x) => Snapshots(<<x>>) = <<>>
<1>1. <<x>> \in Seq(Entries) /\ Len(<<x>>) = 1 /\ <<x>>[1] = x
  OBVIOUS
<1>2. /\ Edits(<<x>>) \subseteq 1..1
      /\ \A k \in 1..1 : k \in Edits(<<x>>) <=> IsEdit(<<x>>[k])
  BY <1>1, EditsOf
<1>3. CASE IsEdit(x)
  <2>1. Edits(<<x>>) = {1}
    BY <1>1, <1>2, <1>3
  <2> DEFINE f == [k \in 1..1 |-> 1]
  <2>2. Enumerates(f, 1, Edits(<<x>>))
    BY <2>1 DEF Enumerates
  <2>3. Snapshots(<<x>>) = [k \in 1..1 |-> <<x>>[f[k]].item.was] /\ Snapshots(<<x>>) \in Seq(Saved)
    <3> HIDE DEF f
    <3> QED BY <1>1, <2>2, SnapshotsBy
  <2>4. Snapshots(<<x>>) = [k \in 1..1 |-> x.item.was]
    BY <1>1, <2>3
  <2> QED BY <1>1, <1>3, <2>4
<1>4. CASE ~IsEdit(x)
  <2>1. Edits(<<x>>) = {}
    BY <1>1, <1>2, <1>4
  <2> QED BY <1>1, <1>4, <2>1, NoSnapshots
<1> QED BY <1>3, <1>4

(* Which places of a list lie inside a group: c[k] is the place after item   *)
(* k, c[0] that before the first.  A mark separates inside from outside, and *)
(* inside a group the darkroom undoes all items or none.                     *)
Spans(c, list) ==
  /\ c \in [0..Len(list) -> BOOLEAN] /\ c[Len(list)] = FALSE
  /\ \A k \in 1..Len(list) : c[k - 1] = (IF IsMark(list[k]) THEN ~c[k] ELSE c[k])
  /\ \A k \in 1..Len(list) - 1 : c[k] => (Matches(list[k]) <=> Matches(list[k + 1]))

(* An empty list has no groups.                                             *)
LEMMA SpansEmpty == Spans([k \in 0..0 |-> FALSE], <<>>)
BY DEF Spans

(* One more item at the front.                                               *)
LEMMA SpansCons ==
  ASSUME NEW list \in Seq(Entries), NEW c, Spans(c, list), NEW x \in Entries,
         c[0] => (Len(list) > 0 => (Matches(x) <=> Matches(list[1])))
  PROVE  \E d : /\ Spans(d, <<x>> \o list)
                /\ d[0] = (IF IsMark(x) THEN ~c[0] ELSE c[0])
<1> DEFINE r == <<x>> \o list
           L == Len(list)
           d == [k \in 0..L + 1 |-> IF k = 0 THEN (IF IsMark(x) THEN ~c[0] ELSE c[0]) ELSE c[k - 1]]
<1>1. L \in Nat /\ c \in [0..L -> BOOLEAN] /\ c[L] = FALSE
      /\ (\A k \in 1..L : c[k - 1] = (IF IsMark(list[k]) THEN ~c[k] ELSE c[k]))
      /\ (\A k \in 1..L - 1 : c[k] => (Matches(list[k]) <=> Matches(list[k + 1])))
  BY DEF Spans
<1>2. /\ r \in Seq(Entries) /\ Len(r) = L + 1 /\ r[1] = x
      /\ \A k \in 1..L + 1 : k # 1 => k - 1 \in 1..L /\ r[k] = list[k - 1]
  <2>1. /\ Len(r) = L + 1 /\ r \in Seq(Entries)
        /\ \A i \in 1..Len(r) : r[i] = IF i =< 1 THEN <<x>>[i] ELSE list[i - 1]
    BY ConcatProperties
  <2> HIDE DEF r
  <2> QED BY <1>1, <2>1
<1>3. /\ d \in [0..L + 1 -> BOOLEAN] /\ d[0] = (IF IsMark(x) THEN ~c[0] ELSE c[0])
      /\ \A k \in 1..L + 1 : k - 1 \in 0..L /\ d[k] = c[k - 1]
  <2> HIDE DEF L
  <2>1. 0 \in 0..L /\ c[0] \in BOOLEAN /\ \A k \in 0..L + 1 : k # 0 => k - 1 \in 0..L
    BY <1>1
  <2>2. (IF IsMark(x) THEN ~c[0] ELSE c[0]) \in BOOLEAN
    BY <2>1
  <2>3. \A k \in 0..L + 1 : (IF k = 0 THEN (IF IsMark(x) THEN ~c[0] ELSE c[0]) ELSE c[k - 1]) \in BOOLEAN
    BY <1>1, <2>1, <2>2
  <2> QED BY <1>1, <2>1, <2>3
<1> HIDE DEF r, d, L
<1>4. d[L + 1] = FALSE
  BY <1>1, <1>3
<1>5. \A k \in 1..L + 1 : d[k - 1] = (IF IsMark(r[k]) THEN ~d[k] ELSE d[k])
  <2> TAKE k \in 1..L + 1
  <2>1. CASE k = 1
    <3>1. d[1] = c[0] /\ r[1] = x
      BY <1>1, <1>2, <1>3
    <3> QED BY <1>3, <2>1, <3>1
  <2>2. CASE k # 1
    <3>1. k - 1 \in 1..L /\ k - 1 \in 1..L + 1 /\ r[k] = list[k - 1]
      BY <1>1, <1>2, <2>2
    <3>2. d[k] = c[k - 1] /\ d[k - 1] = c[(k - 1) - 1]
      BY <1>3, <3>1
    <3> QED BY <1>1, <3>1, <3>2
  <2> QED BY <2>1, <2>2
<1>6. \A k \in 1..L : d[k] => (Matches(r[k]) <=> Matches(r[k + 1]))
  <2> TAKE k \in 1..L
  <2>0. k \in 1..L + 1 /\ k + 1 \in 1..L + 1 /\ k + 1 # 1 /\ (k + 1) - 1 = k
    BY <1>1
  <2>1. d[k] = c[k - 1] /\ r[k + 1] = list[k]
    BY <1>2, <1>3, <2>0
  <2>2. CASE k = 1
    BY <1>2, <2>1, <2>2 DEF L
  <2>3. CASE k # 1
    <3>1. k - 1 \in 1..L - 1 /\ r[k] = list[k - 1] /\ (k - 1) + 1 = k
      BY <1>1, <1>2, <2>3
    <3> QED BY <1>1, <2>1, <3>1
  <2> QED BY <2>2, <2>3
<1>7. Spans(d, r)
  <2>1. Len(r) - 1 = L
    BY <1>1, <1>2
  <2> QED BY <1>1, <1>2, <1>3, <1>4, <1>5, <1>6, <2>1 DEF Spans
<1> QED BY <1>3, <1>7 DEF r

(* A stretch that ends outside of groups.                                    *)
LEMMA SpansPart ==
  ASSUME NEW list \in Seq(Entries), NEW c, Spans(c, list),
         NEW i \in 0..Len(list), NEW j \in 0..Len(list), i =< j, c[j] = FALSE
  PROVE  Spans([k \in 0..j - i |-> c[i + k]], SubSeq(list, i + 1, j))
<1> DEFINE r == SubSeq(list, i + 1, j)
           L == Len(list)
           d == [k \in 0..j - i |-> c[i + k]]
<1>1. L \in Nat /\ c \in [0..L -> BOOLEAN]
      /\ (\A k \in 1..L : c[k - 1] = (IF IsMark(list[k]) THEN ~c[k] ELSE c[k]))
      /\ (\A k \in 1..L - 1 : c[k] => (Matches(list[k]) <=> Matches(list[k + 1])))
  BY DEF Spans
<1>2. /\ Len(r) = j - i /\ i \in Nat /\ j \in Nat /\ i =< L /\ j =< L
      /\ \A k \in 1..j - i : r[k] = list[i + k] /\ i + k \in 1..L
  <2>1. \A k \in i + 1..j : list[k] \in Entries
    BY <1>1
  <2>2. /\ i \in Nat /\ j \in Nat /\ i =< L /\ j =< L
        /\ Len(r) = IF i + 1 =< j THEN j - (i + 1) + 1 ELSE 0
        /\ \A k \in 1..j - (i + 1) + 1 : r[k] = list[i + 1 + k - 1]
    BY <1>1, <2>1, SubSeqProperties
  <2> HIDE DEF r, L
  <2>3. Len(r) = j - i
    BY <2>2
  <2>4. \A k \in 1..j - i : r[k] = list[i + k] /\ i + k \in 1..L
    <3> TAKE k \in 1..j - i
    <3>1. k \in 1..j - (i + 1) + 1 /\ i + 1 + k - 1 = i + k /\ i + k \in 1..L
      BY <1>1, <2>2
    <3> QED BY <2>2, <3>1
  <2> QED BY <2>2, <2>3, <2>4
<1>3. \A k \in 0..j - i : d[k] = c[i + k] /\ i + k \in 0..L
  BY <1>1, <1>2
<1>4. d \in [0..j - i -> BOOLEAN]
  <2> HIDE DEF L
  <2> QED BY <1>1, <1>3
<1> HIDE DEF r, d, L
<1>5. d[j - i] = FALSE
  <2>1. j - i \in 0..j - i /\ i + (j - i) = j
    BY <1>2
  <2> QED BY <1>3, <2>1
<1>6. \A k \in 1..j - i : d[k - 1] = (IF IsMark(r[k]) THEN ~d[k] ELSE d[k])
  <2> TAKE k \in 1..j - i
  <2>1. /\ k \in 0..j - i /\ k - 1 \in 0..j - i /\ i + (k - 1) = (i + k) - 1
    BY <1>2
  <2>2. d[k] = c[i + k] /\ d[k - 1] = c[(i + k) - 1] /\ i + k \in 1..L /\ r[k] = list[i + k]
    BY <1>2, <1>3, <2>1
  <2> QED BY <1>1, <2>2
<1>7. \A k \in 1..(j - i) - 1 : d[k] => (Matches(r[k]) <=> Matches(r[k + 1]))
  <2> TAKE k \in 1..(j - i) - 1
  <2>0. j - i \in Int /\ k \in Nat /\ k >= 1 /\ k + 1 =< j - i
    BY <1>2
  <2>1. k \in 1..j - i /\ k + 1 \in 1..j - i /\ k \in 0..j - i /\ i + k \in 1..L - 1
        /\ i + (k + 1) = (i + k) + 1
    BY <1>1, <1>2, <2>0
  <2>2. d[k] = c[i + k]
    BY <1>3, <2>1
  <2>3. r[k] = list[i + k]
    BY <1>2, <2>1
  <2>4. r[k + 1] = list[(i + k) + 1]
    <3>1. r[k + 1] = list[i + (k + 1)]
      BY <1>2, <2>1
    <3> QED BY <2>1, <3>1
  <2> HIDE DEF r, d
  <2> QED BY <1>1, <2>1, <2>2, <2>3, <2>4
<1>8. Spans(d, r)
  BY <1>2, <1>4, <1>5, <1>6, <1>7 DEF Spans
<1> QED BY <1>8 DEF d, r

(* Two lists, one after the other.                                           *)
LEMMA SpansConcat ==
  ASSUME NEW s \in Seq(Entries), NEW c, Spans(c, s),
         NEW t \in Seq(Entries), NEW d, Spans(d, t), d[0] = FALSE
  PROVE  \E e : Spans(e, s \o t) /\ e[0] = c[0]
<1> DEFINE r == s \o t
           L == Len(s)
           K == Len(t)
           e == [k \in 0..L + K |-> IF k =< L THEN c[k] ELSE d[k - L]]
<1>1. L \in Nat /\ c \in [0..L -> BOOLEAN] /\ c[L] = FALSE
      /\ (\A k \in 1..L : c[k - 1] = (IF IsMark(s[k]) THEN ~c[k] ELSE c[k]))
      /\ (\A k \in 1..L - 1 : c[k] => (Matches(s[k]) <=> Matches(s[k + 1])))
  BY DEF Spans
<1>2. K \in Nat /\ d \in [0..K -> BOOLEAN] /\ d[K] = FALSE
      /\ (\A k \in 1..K : d[k - 1] = (IF IsMark(t[k]) THEN ~d[k] ELSE d[k]))
      /\ (\A k \in 1..K - 1 : d[k] => (Matches(t[k]) <=> Matches(t[k + 1])))
  BY DEF Spans
<1>3. /\ Len(r) = L + K /\ L + K \in Nat
      /\ \A k \in 1..L + K : r[k] = IF k =< L THEN s[k] ELSE t[k - L]
  <2>1. /\ Len(r) = L + K
        /\ \A k \in 1..Len(r) : r[k] = IF k =< L THEN s[k] ELSE t[k - L]
    BY ConcatProperties
  <2> HIDE DEF r
  <2> QED BY <1>1, <1>2, <2>1
<1>4. \A k \in 0..L + K : e[k] = IF k =< L THEN c[k] ELSE d[k - L]
  OBVIOUS
<1>5. e \in [0..L + K -> BOOLEAN]
  <2> HIDE DEF L, K
  <2>1. \A k \in 0..L + K : (IF k =< L THEN c[k] ELSE d[k - L]) \in BOOLEAN
    BY <1>1, <1>2
  <2> QED BY <2>1
<1> HIDE DEF r, e, L, K
<1>6. \A k \in 0..K : e[k + L] = d[k] /\ k + L \in 0..L + K
  <2> TAKE k \in 0..K
  <2>1. k + L \in 0..L + K /\ (k + L =< L => k = 0 /\ k + L = L) /\ (k + L) - L = k
    BY <1>1, <1>2
  <2> QED BY <1>1, <1>4, <2>1
<1>7. e[L + K] = FALSE /\ e[0] = c[0]
  <2>1. K \in 0..K /\ K + L = L + K /\ 0 \in 0..L + K /\ 0 =< L
    BY <1>1, <1>2
  <2> QED BY <1>2, <1>4, <1>6, <2>1
<1>8. \A k \in 1..L + K : k \in 1..L \/ k - L \in 1..K
  BY <1>1, <1>2
<1>9. \A k \in 1..L : r[k] = s[k] /\ e[k] = c[k] /\ e[k - 1] = c[k - 1]
  BY <1>1, <1>2, <1>3, <1>4
<1>10. \A k \in 1..L + K : k - L \in 1..K =>
         /\ r[k] = t[k - L] /\ e[k] = d[k - L] /\ e[k - 1] = d[(k - L) - 1]
  <2> SUFFICES ASSUME NEW k \in 1..L + K, k - L \in 1..K
               PROVE  r[k] = t[k - L] /\ e[k] = d[k - L] /\ e[k - 1] = d[(k - L) - 1]
    OBVIOUS
  <2>1. ~(k =< L) /\ k - L \in 0..K /\ (k - L) + L = k /\ (k - L) - 1 \in 0..K
        /\ ((k - L) - 1) + L = k - 1
    BY <1>1, <1>2
  <2> QED BY <1>3, <1>6, <2>1
<1>11. \A k \in 1..L + K : e[k - 1] = (IF IsMark(r[k]) THEN ~e[k] ELSE e[k])
  BY <1>1, <1>2, <1>8, <1>9, <1>10
<1>12. \A k \in 1..(L + K) - 1 : e[k] => (Matches(r[k]) <=> Matches(r[k + 1]))
  <2> SUFFICES ASSUME NEW k \in 1..(L + K) - 1, e[k]
               PROVE  Matches(r[k]) <=> Matches(r[k + 1])
    OBVIOUS
  <2>1. k \in 1..L + K /\ k + 1 \in 1..L + K
    BY <1>1, <1>2
  <2>2. CASE k \in 1..L - 1
    <3>1. k \in 1..L /\ k + 1 \in 1..L
      BY <1>1, <2>2
    <3> QED BY <1>1, <1>9, <2>2, <3>1
  <2>3. CASE k = L
    <3>1. L \in 0..L + K /\ e[L] = c[L]
      BY <1>1, <1>2, <1>4
    <3> QED BY <1>1, <2>3, <3>1
  <2>4. CASE k > L
    <3>1. k - L \in 1..K - 1 /\ k - L \in 1..K /\ (k + 1) - L \in 1..K /\ (k + 1) - L = (k - L) + 1
      BY <1>1, <1>2, <2>4
    <3>2. r[k] = t[k - L] /\ e[k] = d[k - L]
      BY <1>10, <2>1, <3>1
    <3>3. r[k + 1] = t[(k + 1) - L]
      BY <1>10, <2>1, <3>1
    <3> QED BY <1>2, <3>1, <3>2, <3>3
  <2> QED BY <1>1, <1>2, <2>2, <2>3, <2>4
<1>13. Spans(e, r)
  BY <1>3, <1>5, <1>7, <1>11, <1>12 DEF Spans
<1> QED BY <1>7, <1>13 DEF r

(* The items moved, in the reverse order.                                    *)
LEMMA SpansMoved ==
  ASSUME NEW B \in Seq(Entries), State \in Saved, NEW c, Spans(c, B), c[0] = FALSE
  PROVE  \E d : Spans(d, Moved(B)) /\ d[0] = FALSE
<1> DEFINE M == Moved(B)
           L == Len(B)
           d == [k \in 0..L |-> c[L - k]]
<1>1. L \in Nat /\ c \in [0..L -> BOOLEAN] /\ c[L] = FALSE
      /\ (\A k \in 1..L : c[k - 1] = (IF IsMark(B[k]) THEN ~c[k] ELSE c[k]))
      /\ (\A k \in 1..L - 1 : c[k] => (Matches(B[k]) <=> Matches(B[k + 1])))
  BY DEF Spans
<1>2. /\ Len(M) = L
      /\ \A k \in 1..L : /\ L + 1 - k \in 1..L
                         /\ IsMark(M[k]) <=> IsMark(B[L + 1 - k])
                         /\ Matches(M[k]) <=> Matches(B[L + 1 - k])
  BY MovedFacts
<1>3. \A k \in 0..L : d[k] = c[L - k] /\ L - k \in 0..L
  BY <1>1
<1>4. d \in [0..L -> BOOLEAN]
  <2> HIDE DEF L
  <2> QED BY <1>1, <1>3
<1> HIDE DEF M, d, L
<1>5. d[0] = FALSE /\ d[L] = FALSE
  <2>1. 0 \in 0..L /\ L \in 0..L /\ L - 0 = L /\ L - L = 0
    BY <1>1
  <2> QED BY <1>1, <1>3, <2>1
<1>6. \A k \in 1..L : d[k - 1] = (IF IsMark(M[k]) THEN ~d[k] ELSE d[k])
  <2> TAKE k \in 1..L
  <2>1. /\ k \in 0..L /\ k - 1 \in 0..L /\ L - (k - 1) = L + 1 - k
        /\ (L + 1 - k) - 1 = L - k
    BY <1>1
  <2>2. d[k] = c[(L + 1 - k) - 1] /\ d[k - 1] = c[L + 1 - k]
    BY <1>3, <2>1
  <2>3. d[k] = (IF IsMark(M[k]) THEN ~d[k - 1] ELSE d[k - 1])
    BY <1>1, <1>2, <2>2
  <2>4. d[k] \in BOOLEAN /\ d[k - 1] \in BOOLEAN
    BY <1>4, <2>1
  <2> QED BY <2>3, <2>4
<1>7. \A k \in 1..L - 1 : d[k] => (Matches(M[k]) <=> Matches(M[k + 1]))
  <2> TAKE k \in 1..L - 1
  <2>1. /\ k \in 0..L /\ k \in 1..L /\ k + 1 \in 1..L /\ L - k \in 1..L - 1
        /\ L + 1 - k = (L - k) + 1 /\ L + 1 - (k + 1) = L - k
    BY <1>1
  <2>2. d[k] = c[L - k]
    BY <1>3, <2>1
  <2>3. /\ Matches(M[k]) <=> Matches(B[(L - k) + 1])
        /\ Matches(M[k + 1]) <=> Matches(B[L - k])
    BY <1>2, <2>1
  <2>4. c[L - k] => (Matches(B[L - k]) <=> Matches(B[(L - k) + 1]))
    BY <1>1, <2>1
  <2> QED BY <2>2, <2>3, <2>4
<1>8. Spans(d, M)
  BY <1>2, <1>4, <1>5, <1>6, <1>7 DEF Spans
<1> QED BY <1>5, <1>8 DEF M

(* The parity of a count and of the next.                                   *)
LEMMA Parity ==
  ASSUME NEW n \in Nat
  PROVE  /\ n % 2 = 0 \/ n % 2 = 1
         /\ (n + 1) % 2 = 1 <=> ~(n % 2 = 1)
OBVIOUS

(* An odd number of marks leads from outside of a group into it or out of    *)
(* it, an even one neither.                                                  *)
LEMMA MarksStep ==
  ASSUME NEW list \in Seq(Entries), NEW j \in 1..Len(list), NEW k \in j..Len(list)
  PROVE  /\ Marks(list, j, j - 1) = 0
         /\ Marks(list, j, k - 1) \in Nat
         /\ Marks(list, j, k) = Marks(list, j, k - 1) + (IF IsMark(list[k]) THEN 1 ELSE 0)
<1> DEFINE R == {i \in j..k : IsMark(list[i])}
           S == {i \in j..k - 1 : IsMark(list[i])}
<1>1. /\ j \in Nat /\ k \in Nat /\ k \in j..k /\ k \notin S
      /\ \A i \in j..k : i = k \/ i \in j..k - 1
      /\ \A i \in j..k - 1 : i \in j..k
  OBVIOUS
<1>2. {i \in j..j - 1 : IsMark(list[i])} = {}
  OBVIOUS
<1>3. IsFiniteSet(S)
  <2>1. IsFiniteSet(j..k - 1)
    BY FS_Interval
  <2>2. S \in SUBSET (j..k - 1)
    OBVIOUS
  <2> HIDE DEF S
  <2> QED BY <2>1, <2>2, FS_Subset
<1>4. R = IF IsMark(list[k]) THEN S \cup {k} ELSE S
  BY <1>1
<1> HIDE DEF R, S
<1>5. Cardinality(S \cup {k}) = Cardinality(S) + 1 /\ Cardinality(S) \in Nat
  BY <1>1, <1>3, FS_AddElement, FS_CardinalityType
<1>6. Cardinality(R) = Cardinality(S) + (IF IsMark(list[k]) THEN 1 ELSE 0)
  BY <1>4, <1>5
<1> QED BY <1>2, <1>5, <1>6, FS_EmptySet DEF Marks, R, S

(* A group is open between two places exactly when the marks between them   *)
(* are odd.                                                                 *)
LEMMA MarksParity ==
  ASSUME NEW list \in Seq(Entries), NEW c, Spans(c, list), NEW j \in 1..Len(list)
  PROVE  \A k \in j - 1..Len(list) : Marks(list, j, k) % 2 = 1 <=> c[j - 1] # c[k]
<1> DEFINE L == Len(list)
           X == {k \in j - 1..L : ~(Marks(list, j, k) % 2 = 1 <=> c[j - 1] # c[k])}
<1>1. L \in Nat /\ j \in Nat /\ j >= 1 /\ j =< L
      /\ (\A k \in 1..L : c[k - 1] = (IF IsMark(list[k]) THEN ~c[k] ELSE c[k]))
      /\ c \in [0..L -> BOOLEAN]
  BY DEF Spans
<1>2. ASSUME X # {} PROVE FALSE
  <2>1. X \subseteq Nat
    BY <1>1
  <2>2. Min(X) \in X /\ \A x \in X : Min(X) =< x
    <3> HIDE DEF X
    <3> QED BY <1>2, <2>1, MinIsLeast
  <2> DEFINE k == Min(X)
  <2>3. k \in j - 1..L /\ ~(Marks(list, j, k) % 2 = 1 <=> c[j - 1] # c[k])
    <3> HIDE DEF k
    <3> QED BY <2>2 DEF k
  <2>4. CASE k = j - 1
    <3>1. Marks(list, j, j - 1) = 0
      <4>1. j \in j..Len(list)
        BY <1>1
      <4> QED BY <4>1, MarksStep
    <3> HIDE DEF k
    <3>2. ~(Marks(list, j, k) % 2 = 1)
      BY <2>4, <3>1
    <3> QED BY <2>3, <2>4, <3>2
  <2>5. CASE k # j - 1
    <3> HIDE DEF k, X, L
    <3>1. k \in j..L /\ k \in 1..L /\ k - 1 \in j - 1..L /\ k - 1 \in 0..L /\ k \in 0..L /\ k \in Nat
      BY <1>1, <2>3, <2>5
    <3>2. k - 1 \notin X
      BY <2>2, <3>1 DEF k
    <3>3. Marks(list, j, k - 1) % 2 = 1 <=> c[j - 1] # c[k - 1]
      BY <3>1, <3>2 DEF X
    <3>4. /\ Marks(list, j, k - 1) \in Nat
          /\ Marks(list, j, k) = Marks(list, j, k - 1) + (IF IsMark(list[k]) THEN 1 ELSE 0)
      BY <3>1, MarksStep DEF L
    <3>5. c[k - 1] = (IF IsMark(list[k]) THEN ~c[k] ELSE c[k])
      BY <1>1, <3>1
    <3>6. c[k - 1] \in BOOLEAN /\ c[k] \in BOOLEAN /\ c[j - 1] \in BOOLEAN
      <4>1. j - 1 \in 0..L
        BY <1>1
      <4> QED BY <1>1, <3>1, <4>1
    <3>7. CASE IsMark(list[k])
      <4>1. Marks(list, j, k) = Marks(list, j, k - 1) + 1 /\ c[k - 1] = ~c[k]
        BY <3>4, <3>5, <3>7
      <4>2. Marks(list, j, k) % 2 = 1 <=> ~(Marks(list, j, k - 1) % 2 = 1)
        BY <3>4, <4>1, Parity
      <4> QED BY <2>3, <3>3, <3>6, <4>1, <4>2
    <3>8. CASE ~IsMark(list[k])
      BY <2>3, <3>3, <3>4, <3>5, <3>8
    <3> QED BY <3>7, <3>8
  <2> QED BY <2>4, <2>5
<1> QED BY <1>2

(* A list that begins outside of groups holds whole ones.                    *)
LEMMA WholeGroups ==
  ASSUME NEW list \in Seq(Entries), NEW c, Spans(c, list), c[0] = FALSE
  PROVE  Marks(list, 1, Len(list)) % 2 = 0
<1>1. Len(list) \in Nat /\ c[Len(list)] = FALSE
  BY DEF Spans
<1>2. CASE Len(list) = 0
  <2>1. {i \in 1..Len(list) : IsMark(list[i])} = {}
    BY <1>1, <1>2
  <2>2. Marks(list, 1, Len(list)) = 0
    BY <2>1, FS_EmptySet DEF Marks
  <2> QED BY <2>2
<1>3. CASE Len(list) # 0
  <2>1. /\ 1 \in 1..Len(list) /\ Len(list) \in 1 - 1..Len(list) /\ Len(list) \in 1..Len(list)
        /\ 1 - 1 = 0
    BY <1>1, <1>3
  <2>2. Marks(list, 1, Len(list)) % 2 = 1 <=> c[1 - 1] # c[Len(list)]
    BY <2>1, MarksParity
  <2>3. /\ Marks(list, 1, Len(list) - 1) \in Nat
        /\ Marks(list, 1, Len(list)) = Marks(list, 1, Len(list) - 1)
                                       + (IF IsMark(list[Len(list)]) THEN 1 ELSE 0)
    BY <2>1, MarksStep
  <2>4. Marks(list, 1, Len(list)) \in Nat
    BY <2>3
  <2>5. ~(Marks(list, 1, Len(list)) % 2 = 1)
    BY <1>1, <2>1, <2>2
  <2> QED BY <2>4, <2>5, Parity
<1> QED BY <1>2, <1>3

-----------------------------------------------------------------------------
(* The first item an undo or a redo moves, and the last.                     *)
LEMMA FirstMovedFacts ==
  ASSUME NEW list \in Seq(Entries)
  PROVE  /\ FirstMoved(list) \in 0..Len(list)
         /\ FirstMoved(list) # 0 =>
              /\ FirstMoved(list) \in 1..Len(list) /\ Matches(list[FirstMoved(list)])
              /\ \A k \in 1..Len(list) : k < FirstMoved(list) => ~Matches(list[k])
<1> DEFINE X == {k \in 1..Len(list) : Matches(list[k])}
<1>1. FirstMoved(list) = IF X = {} THEN 0 ELSE Min(X)
  BY DEF FirstMoved
<1>2. X \subseteq Nat /\ Len(list) \in Nat
  OBVIOUS
<1>3. CASE X = {}
  BY <1>1, <1>2, <1>3
<1>4. CASE X # {}
  <2>1. Min(X) \in X /\ \A x \in X : Min(X) =< x
    <3> HIDE DEF X
    <3> QED BY <1>2, <1>4, MinIsLeast
  <2> DEFINE a == Min(X)
  <2>2. a \in X /\ \A x \in X : a =< x
    BY <2>1
  <2>3. FirstMoved(list) = a
    BY <1>1, <1>4
  <2> HIDE DEF a
  <2>4. a \in 1..Len(list) /\ Matches(list[a])
    BY <2>2
  <2>5. \A k \in 1..Len(list) : k < a => ~Matches(list[k])
    <3> SUFFICES ASSUME NEW k \in 1..Len(list), k < a, Matches(list[k]) PROVE FALSE
      OBVIOUS
    <3>1. a =< k
      BY <2>2
    <3> QED BY <2>4, <3>1
  <2> QED BY <1>2, <2>3, <2>4, <2>5
<1> QED BY <1>3, <1>4

(* GroupEnd is the next mark, or the end of the list.                       *)
LEMMA GroupEndFacts ==
  ASSUME NEW list \in Seq(Entries), NEW a \in 1..Len(list)
  PROVE  /\ GroupEnd(list, a) \in a..Len(list)
         /\ \A k \in a + 1..Len(list) : k < GroupEnd(list, a) => ~IsMark(list[k])
         /\ \A k \in a + 1..Len(list) : IsMark(list[k]) =>
              GroupEnd(list, a) \in a + 1..Len(list) /\ GroupEnd(list, a) =< k
              /\ IsMark(list[GroupEnd(list, a)])
<1> DEFINE X == {k \in a + 1..Len(list) : IsMark(list[k])}
<1>1. GroupEnd(list, a) = IF X = {} THEN Len(list) ELSE Min(X)
  BY DEF GroupEnd
<1>2. X \subseteq Nat /\ Len(list) \in Nat /\ a \in Nat /\ a =< Len(list)
  OBVIOUS
<1>3. CASE X = {}
  BY <1>1, <1>2, <1>3
<1>4. CASE X # {}
  <2>1. Min(X) \in X /\ \A x \in X : Min(X) =< x
    <3> HIDE DEF X
    <3> QED BY <1>2, <1>4, MinIsLeast
  <2> DEFINE b == Min(X)
  <2>2. b \in X /\ \A x \in X : b =< x
    BY <2>1
  <2>3. GroupEnd(list, a) = b
    BY <1>1, <1>4
  <2> HIDE DEF b
  <2>4. b \in a..Len(list)
    BY <1>2, <2>2
  <2>4a. b \in a + 1..Len(list) /\ IsMark(list[b])
    BY <2>2
  <2>5. \A k \in a + 1..Len(list) : IsMark(list[k]) => b =< k
    BY <2>2
  <2>6. \A k \in a + 1..Len(list) : k < b => ~IsMark(list[k])
    <3> SUFFICES ASSUME NEW k \in a + 1..Len(list), k < b, IsMark(list[k]) PROVE FALSE
      OBVIOUS
    <3>1. b =< k
      BY <2>5
    <3> QED BY <2>4, <3>1
  <2> QED BY <2>3, <2>4, <2>4a, <2>5, <2>6
<1> QED BY <1>3, <1>4

GoesOn(list, a, k) ==
  /\ Matches(list[k + 1])
  /\ \/ Marks(list, a, k) % 2 = 1
     \/ list[k + 1].ts = list[a].ts

(* PeriodEnd is the first entry at which the period does not go on.         *)
LEMMA PeriodEndFacts ==
  ASSUME NEW list \in Seq(Entries), NEW a \in 1..Len(list)
  PROVE  /\ PeriodEnd(list, a) \in a..Len(list)
         /\ PeriodEnd(list, a) = Len(list) \/ ~GoesOn(list, a, PeriodEnd(list, a))
         /\ \A k \in a..Len(list) : k < PeriodEnd(list, a) => GoesOn(list, a, k)
<1> DEFINE X == {k \in a..Len(list) : k = Len(list) \/ ~GoesOn(list, a, k)}
<1>1. PeriodEnd(list, a) = Min(X)
  BY DEF PeriodEnd, GoesOn
<1>2. X \subseteq Nat /\ Len(list) \in X
  OBVIOUS
<1>3. Min(X) \in X /\ \A x \in X : Min(X) =< x
  <2> HIDE DEF X
  <2> QED BY <1>2, MinIsLeast
<1> DEFINE b == Min(X)
<1>4. b \in X /\ \A x \in X : b =< x
  BY <1>3
<1>5. PeriodEnd(list, a) = b
  BY <1>1
<1> HIDE DEF b
<1>6. b \in a..Len(list) /\ (b = Len(list) \/ ~GoesOn(list, a, b))
  BY <1>4
<1>7. \A k \in a..Len(list) : k < b => GoesOn(list, a, k)
  <2> SUFFICES ASSUME NEW k \in a..Len(list), k < b, ~GoesOn(list, a, k) PROVE FALSE
    OBVIOUS
  <2>1. b =< k
    BY <1>4
  <2> QED BY <1>6, <2>1
<1> QED BY <1>5, <1>6, <1>7

(* The first and the last entry moved are entries of the list.              *)
LEMMA MovedRange ==
  ASSUME NEW list \in Seq(Entries), FirstMoved(list) # 0
  PROVE  /\ FirstMoved(list) \in 1..Len(list)
         /\ LastMoved(list) \in FirstMoved(list)..Len(list)
<1>1. FirstMoved(list) \in 1..Len(list)
  BY FirstMovedFacts
<1>2. /\ GroupEnd(list, FirstMoved(list)) \in FirstMoved(list)..Len(list)
      /\ PeriodEnd(list, FirstMoved(list)) \in FirstMoved(list)..Len(list)
  BY <1>1, GroupEndFacts, PeriodEndFacts
<1> QED BY <1>1, <1>2 DEF LastMoved

(* Both lie on the border of a group or outside: no group is torn apart.     *)
LEMMA MovedOutside ==
  ASSUME NEW list \in Seq(Entries), FirstMoved(list) # 0,
         NEW c, Spans(c, list), c[0] = FALSE
  PROVE  c[FirstMoved(list) - 1] = FALSE /\ c[LastMoved(list)] = FALSE
<1> DEFINE a == FirstMoved(list)
           b == LastMoved(list)
           L == Len(list)
<1>1. /\ a \in 1..L /\ Matches(list[a]) /\ L \in Nat /\ b \in a..L
      /\ \A k \in 1..L : k < a => ~Matches(list[k])
  BY FirstMovedFacts, MovedRange
<1>2. /\ c \in [0..L -> BOOLEAN] /\ c[L] = FALSE
      /\ \A k \in 1..L : c[k - 1] = (IF IsMark(list[k]) THEN ~c[k] ELSE c[k])
      /\ \A k \in 1..L - 1 : c[k] => (Matches(list[k]) <=> Matches(list[k + 1]))
  BY DEF Spans
<1>3. b = IF IsMark(list[a]) THEN GroupEnd(list, a) ELSE PeriodEnd(list, a)
  BY DEF LastMoved
<1> HIDE DEF a, b, L
<1>4. c[a - 1] = FALSE
  <2>1. CASE a = 1
    BY <1>1, <2>1
  <2>2. CASE a # 1
    <3>1. /\ a - 1 \in 1..L - 1 /\ a - 1 \in 1..L /\ a - 1 < a /\ (a - 1) + 1 = a
          /\ a - 1 \in 0..L
      BY <1>1, <2>2
    <3>2. ~Matches(list[a - 1]) /\ Matches(list[a]) /\ c[a - 1] \in BOOLEAN
      BY <1>1, <1>2, <3>1
    <3>3. c[a - 1] => (Matches(list[a - 1]) <=> Matches(list[(a - 1) + 1]))
      BY <1>2, <3>1
    <3> QED BY <3>1, <3>2, <3>3
  <2> QED BY <2>1, <2>2
<1>5. CASE IsMark(list[a])
  <2> DEFINE X == {k \in a + 1..L : c[k] = FALSE}
             m == Min(X)
  <2>1. c[a] = TRUE
    BY <1>1, <1>2, <1>4, <1>5
  <2>2. X \subseteq Nat /\ L \in X
    <3>1. L # a
      BY <1>2, <2>1
    <3> QED BY <1>1, <1>2, <3>1
  <2>3. m \in X /\ \A x \in X : m =< x
    <3> HIDE DEF X
    <3> QED BY <2>2, MinIsLeast
  <2> HIDE DEF m
  <2>4. m \in a + 1..L /\ c[m] = FALSE /\ m \in 1..L
    BY <1>1, <2>3
  <2>5. \A k \in a..L : k < m => c[k] = TRUE
    <3> SUFFICES ASSUME NEW k \in a..L, k < m, c[k] # TRUE PROVE FALSE
      OBVIOUS
    <3>1. k \in 0..L /\ k # a
      <4>1. k \in 0..L
        BY <1>1
      <4>2. k # a
        BY <2>1
      <4> QED BY <4>1, <4>2
    <3>2. k \in a + 1..L /\ c[k] = FALSE
      <4>1. k \in a + 1..L
        BY <1>1, <3>1
      <4>2. c[k] \in BOOLEAN
        BY <1>2, <3>1
      <4> QED BY <4>1, <4>2
    <3>3. m =< k
      BY <2>3, <3>2
    <3> QED BY <1>1, <2>4, <3>2, <3>3
  <2>6. IsMark(list[m])
    <3>1. m - 1 \in a..L /\ m - 1 < m
      BY <1>1, <2>4
    <3>2. c[m - 1] = TRUE
      BY <2>5, <3>1
    <3> QED BY <1>2, <2>4, <3>2
  <2>7. \A k \in a + 1..L : k < m => ~IsMark(list[k])
    <3> SUFFICES ASSUME NEW k \in a + 1..L, k < m, IsMark(list[k]) PROVE FALSE
      OBVIOUS
    <3>1. k \in a..L /\ k - 1 \in a..L /\ k - 1 < m /\ k \in 1..L
      BY <1>1, <2>4
    <3>2. c[k] = TRUE /\ c[k - 1] = TRUE
      BY <2>5, <3>1
    <3> QED BY <1>2, <3>1, <3>2
  <2>8. /\ GroupEnd(list, a) \in a..L
        /\ \A k \in a + 1..L : k < GroupEnd(list, a) => ~IsMark(list[k])
        /\ \A k \in a + 1..L : IsMark(list[k]) =>
             GroupEnd(list, a) \in a + 1..L /\ GroupEnd(list, a) =< k
             /\ IsMark(list[GroupEnd(list, a)])
    BY <1>1, GroupEndFacts DEF L
  <2>9. b = GroupEnd(list, a) /\ b =< m /\ b \in a + 1..L /\ IsMark(list[b])
    BY <1>3, <1>5, <2>4, <2>6, <2>8
  <2>10. b = m
    <3>1. ~(b < m)
      BY <2>7, <2>9
    <3> QED BY <1>1, <2>4, <2>9, <3>1
  <2> QED BY <1>4, <2>4, <2>10 DEF a, b
<1>6. CASE ~IsMark(list[a])
  <2>1. /\ b = Len(list) \/ ~GoesOn(list, a, b)
        /\ \A k \in a..L : k < b => GoesOn(list, a, k)
    BY <1>1, <1>3, <1>6, PeriodEndFacts DEF L
  <2>2. CASE b = L
    BY <1>2, <1>4, <2>2 DEF a, b
  <2>3. CASE b # L
    <3>1. b \in a - 1..L /\ b \in 0..L /\ b \in 1..L - 1 /\ b \in 1..L
      BY <1>1, <2>3
    <3>2. Marks(list, a, b) % 2 = 1 <=> c[a - 1] # c[b]
      BY <1>1, <3>1, MarksParity DEF L
    <3>3. Matches(list[b])
      <4>1. CASE b = a
        BY <1>1, <4>1
      <4>2. CASE b # a
        <5>1. b - 1 \in a..L /\ b - 1 < b /\ (b - 1) + 1 = b
          BY <1>1, <4>2
        <5>2. Matches(list[(b - 1) + 1])
          BY <2>1, <5>1 DEF GoesOn
        <5> QED BY <5>1, <5>2
      <4> QED BY <4>1, <4>2
    <3>4. ~GoesOn(list, a, b) /\ c[b] \in BOOLEAN
      BY <1>2, <2>1, <2>3, <3>1 DEF L
    <3>5. c[b] = TRUE => Matches(list[b + 1])
      BY <1>2, <3>1, <3>3
    <3>6. c[b] = FALSE
      BY <1>4, <3>2, <3>4, <3>5 DEF GoesOn
    <3> QED BY <1>4, <3>6 DEF a, b
  <2> QED BY <2>2, <2>3
<1> QED BY <1>5, <1>6

(* What a move takes out of a list, and what it leaves.                      *)
LEMMA MoveParts ==
  ASSUME NEW from \in Seq(Entries), FirstMoved(from) # 0
  PROVE  LET a == FirstMoved(from)
             b == LastMoved(from)
             P == SubSeq(from, 1, a - 1)
             Q == SubSeq(from, b + 1, Len(from))
         IN /\ P \in Seq(Entries) /\ Q \in Seq(Entries) /\ Block(from) \in Seq(Entries)
            /\ Rest(from) = P \o Q /\ Rest(from) \in Seq(Entries)
            /\ from = (P \o Block(from)) \o Q
            /\ Len(Block(from)) \in Nat \ {0}
            /\ Edits(P) = {}
<1> DEFINE a == FirstMoved(from)
           b == LastMoved(from)
           L == Len(from)
           P == SubSeq(from, 1, a - 1)
           Q == SubSeq(from, b + 1, Len(from))
           B == SubSeq(from, a, b)
<1>1. /\ a \in 1..L /\ b \in a..L /\ L \in Nat /\ a \in Nat /\ b \in Nat
      /\ \A k \in 1..L : k < a => ~Matches(from[k])
      /\ \A k \in 1..L : from[k] \in Entries
  BY FirstMovedFacts, MovedRange
<1> HIDE DEF a, b
<1>2. /\ Len(P) = a - 1 /\ P \in Seq(Entries) /\ \A k \in 1..a - 1 : P[k] = from[k]
  <2>1. \A k \in 1..a - 1 : from[k] \in Entries
    BY <1>1
  <2>2. /\ P \in Seq(Entries) /\ Len(P) = IF 1 =< a - 1 THEN (a - 1) - 1 + 1 ELSE 0
        /\ \A k \in 1..(a - 1) - 1 + 1 : P[k] = from[1 + k - 1]
    BY <1>1, <2>1, SubSeqProperties
  <2>3. (a - 1) - 1 + 1 = a - 1 /\ \A k \in 1..a - 1 : 1 + k - 1 = k
    BY <1>1
  <2> HIDE DEF P
  <2>4. Len(P) = a - 1 /\ P \in Seq(Entries)
    BY <1>1, <2>2, <2>3
  <2>5. \A k \in 1..a - 1 : P[k] = from[k]
    <3> TAKE k \in 1..a - 1
    <3>1. P[k] = from[1 + k - 1] /\ 1 + k - 1 = k
      BY <2>2, <2>3
    <3> QED BY <3>1
  <2> QED BY <2>4, <2>5
<1>3. /\ Len(B) = b - a + 1 /\ B \in Seq(Entries) /\ \A k \in 1..b - a + 1 : B[k] = from[a + k - 1]
  <2>1. \A k \in a..b : from[k] \in Entries
    BY <1>1
  <2>2. /\ B \in Seq(Entries) /\ Len(B) = IF a =< b THEN b - a + 1 ELSE 0
        /\ \A k \in 1..b - a + 1 : B[k] = from[a + k - 1]
    BY <1>1, <2>1, SubSeqProperties
  <2> HIDE DEF B
  <2> QED BY <1>1, <2>2
<1>4. /\ Len(Q) = L - b /\ Q \in Seq(Entries) /\ \A k \in 1..L - b : Q[k] = from[b + k]
  <2>1. \A k \in b + 1..L : from[k] \in Entries
    BY <1>1
  <2>2. /\ Q \in Seq(Entries) /\ Len(Q) = IF b + 1 =< L THEN L - (b + 1) + 1 ELSE 0
        /\ \A k \in 1..L - (b + 1) + 1 : Q[k] = from[b + 1 + k - 1]
    BY <1>1, <2>1, SubSeqProperties
  <2>3. L - (b + 1) + 1 = L - b /\ \A k \in 1..L - b : b + 1 + k - 1 = b + k
    BY <1>1
  <2> HIDE DEF Q
  <2>4. Len(Q) = L - b /\ Q \in Seq(Entries)
    <3>1. b =< L /\ (~(b + 1 =< L) => L - b = 0)
      BY <1>1
    <3> QED BY <2>2, <2>3, <3>1
  <2>5. \A k \in 1..L - b : Q[k] = from[b + k]
    <3> TAKE k \in 1..L - b
    <3>1. Q[k] = from[b + 1 + k - 1] /\ b + 1 + k - 1 = b + k
      BY <2>2, <2>3
    <3> QED BY <3>1
  <2> QED BY <2>4, <2>5
<1> HIDE DEF P, Q, B, L
<1>5. from = (P \o B) \o Q
  <2>1. /\ P \o B \in Seq(Entries) /\ Len(P \o B) = b
        /\ \A k \in 1..b : (P \o B)[k] = IF k =< a - 1 THEN P[k] ELSE B[k - (a - 1)]
    <3>1. /\ P \o B \in Seq(Entries) /\ Len(P \o B) = Len(P) + Len(B)
          /\ \A k \in 1..Len(P) + Len(B) : (P \o B)[k] = IF k =< Len(P) THEN P[k] ELSE B[k - Len(P)]
      BY <1>2, <1>3, ConcatProperties
    <3>2. Len(P) + Len(B) = b
      BY <1>1, <1>2, <1>3
    <3> QED BY <1>2, <3>1, <3>2
  <2>2. \A k \in 1..b : (P \o B)[k] = from[k]
    <3> TAKE k \in 1..b
    <3>1. CASE k =< a - 1
      <4>1. k \in 1..a - 1
        BY <1>1, <3>1
      <4> QED BY <1>2, <2>1, <3>1, <4>1
    <3>2. CASE ~(k =< a - 1)
      <4>1. k - (a - 1) \in 1..b - a + 1 /\ a + (k - (a - 1)) - 1 = k
        BY <1>1, <3>2
      <4> QED BY <1>3, <2>1, <3>2, <4>1
    <3> QED BY <3>1, <3>2
  <2>3. /\ (P \o B) \o Q \in Seq(Entries) /\ Len((P \o B) \o Q) = L
        /\ \A k \in 1..L : ((P \o B) \o Q)[k] = IF k =< b THEN (P \o B)[k] ELSE Q[k - b]
    <3> DEFINE S == P \o B
    <3>1. S \in Seq(Entries) /\ Len(S) = b
      BY <2>1
    <3> HIDE DEF S
    <3>2. /\ S \o Q \in Seq(Entries) /\ Len(S \o Q) = Len(S) + Len(Q)
          /\ \A k \in 1..Len(S) + Len(Q) : (S \o Q)[k] = IF k =< Len(S) THEN S[k] ELSE Q[k - Len(S)]
      BY <1>4, <3>1, ConcatProperties
    <3>3. Len(S) + Len(Q) = L
      BY <1>1, <1>4, <3>1
    <3>4. /\ S \o Q \in Seq(Entries) /\ Len(S \o Q) = L
          /\ \A k \in 1..L : (S \o Q)[k] = IF k =< b THEN S[k] ELSE Q[k - b]
      BY <3>1, <3>2, <3>3
    <3> QED BY <3>4 DEF S
  <2>4. \A k \in 1..L : ((P \o B) \o Q)[k] = from[k]
    <3> TAKE k \in 1..L
    <3>1. CASE k =< b
      <4>1. k \in 1..b
        BY <1>1, <3>1
      <4> QED BY <2>2, <2>3, <3>1, <4>1
    <3>2. CASE ~(k =< b)
      <4>1. k - b \in 1..L - b /\ b + (k - b) = k
        BY <1>1, <3>2
      <4> QED BY <1>4, <2>3, <3>2, <4>1
    <3> QED BY <3>1, <3>2
  <2> DEFINE w == (P \o B) \o Q
  <2>5. w \in Seq(Entries) /\ Len(w) = Len(from) /\ \A k \in 1..Len(from) : w[k] = from[k]
    BY <2>3, <2>4 DEF L
  <2> HIDE DEF w
  <2>6. w = from
    BY <2>5, SeqEqual
  <2> QED BY <2>6 DEF w
<1>6. Edits(P) = {}
  <2> SUFFICES ASSUME NEW k \in Edits(P) PROVE FALSE
    OBVIOUS
  <2>1. k \in 1..a - 1 /\ IsEdit(P[k])
    BY <1>2, EditsOf
  <2>2. P[k] = from[k] /\ k \in 1..L /\ k < a
    BY <1>1, <1>2, <2>1
  <2>3. from[k] \in Entries /\ ~Matches(from[k])
    BY <1>1, <2>2
  <2> QED BY <2>1, <2>2, <2>3, EntryFacts
<1>7. Block(from) = B /\ Rest(from) = P \o Q /\ P \o Q \in Seq(Entries)
  BY <1>2, <1>4 DEF Block, Rest, B, P, Q, a, b
<1>8. Len(B) \in Nat \ {0}
  BY <1>1, <1>3
<1> QED BY <1>2, <1>3, <1>4, <1>5, <1>6, <1>7, <1>8 DEF a, b, P, Q

(* The states that are moved come first.                                     *)
LEMMA MoveSnapshots ==
  ASSUME NEW from \in Seq(Entries), FirstMoved(from) # 0
  PROVE  /\ Block(from) \in Seq(Entries) /\ Rest(from) \in Seq(Entries)
         /\ Snapshots(from) = Snapshots(Block(from)) \o Snapshots(Rest(from))
<1> DEFINE P == SubSeq(from, 1, FirstMoved(from) - 1)
           Q == SubSeq(from, LastMoved(from) + 1, Len(from))
           B == Block(from)
<1>1. /\ P \in Seq(Entries) /\ Q \in Seq(Entries) /\ B \in Seq(Entries)
      /\ Rest(from) = P \o Q /\ Rest(from) \in Seq(Entries)
      /\ from = (P \o B) \o Q /\ Edits(P) = {}
  BY MoveParts
<1> HIDE DEF P, Q, B
<1>2. P \o B \in Seq(Entries)
  BY <1>1, ConcatProperties
<1>3. Snapshots(from) = (Snapshots(P) \o Snapshots(B)) \o Snapshots(Q)
  BY <1>1, <1>2, SnapshotsConcat
<1>4. Snapshots(Rest(from)) = Snapshots(P) \o Snapshots(Q)
  BY <1>1, SnapshotsConcat
<1>5. Snapshots(P) = <<>> /\ Snapshots(B) \in Seq(Saved) /\ Snapshots(Q) \in Seq(Saved)
  BY <1>1, NoSnapshots, SnapshotsType
<1>6. \A s \in Seq(Saved) : <<>> \o s = s
  BY ConcatEmptySeq
<1>7. Snapshots(P) \o Snapshots(B) = Snapshots(B) /\ Snapshots(P) \o Snapshots(Q) = Snapshots(Q)
  BY <1>5, <1>6
<1> QED BY <1>1, <1>3, <1>4, <1>7 DEF B

(* A move leaves whole groups in the one list and adds whole groups to the   *)
(* other.                                                                    *)
LEMMA MoveSpans ==
  ASSUME NEW from \in Seq(Entries), FirstMoved(from) # 0, State \in Saved,
         NEW c, Spans(c, from), c[0] = FALSE,
         NEW to \in Seq(Entries), NEW d, Spans(d, to), d[0] = FALSE
  PROVE  /\ \E e : Spans(e, Rest(from)) /\ e[0] = FALSE
         /\ \E e : Spans(e, Moved(Block(from)) \o to) /\ e[0] = FALSE
<1> DEFINE a == FirstMoved(from)
           b == LastMoved(from)
           L == Len(from)
           P == SubSeq(from, 1, a - 1)
           Q == SubSeq(from, b + 1, L)
           B == SubSeq(from, a, b)
<1>1. /\ a \in 1..L /\ b \in a..L /\ L \in Nat /\ c[a - 1] = FALSE /\ c[b] = FALSE /\ c[L] = FALSE
  <2>1. a \in 1..L /\ b \in a..L
    BY MovedRange
  <2>2. c[a - 1] = FALSE /\ c[b] = FALSE
    BY MovedOutside
  <2>3. c[L] = FALSE
    BY DEF Spans
  <2>4. L \in Nat
    OBVIOUS
  <2> QED BY <2>1, <2>2, <2>3, <2>4
<1>2. /\ P \in Seq(Entries) /\ Q \in Seq(Entries) /\ B \in Seq(Entries)
      /\ Rest(from) = P \o Q /\ Block(from) = B
  BY MoveParts DEF Block
<1> DEFINE cP == [k \in 0..(a - 1) - 0 |-> c[0 + k]]
           cQ == [k \in 0..L - b |-> c[b + k]]
           cB == [k \in 0..b - (a - 1) |-> c[(a - 1) + k]]
<1> HIDE DEF a, b
<1>3. Spans(cP, P) /\ cP[0] = FALSE
  <2>1. 0 \in 0..L /\ a - 1 \in 0..L /\ 0 =< a - 1 /\ 0 + 1 = 1
    BY <1>1
  <2>2. Spans(cP, SubSeq(from, 0 + 1, a - 1))
    BY <1>1, <2>1, SpansPart
  <2>3. cP[0] = c[0]
    BY <2>1
  <2> HIDE DEF cP
  <2> QED BY <2>1, <2>2, <2>3
<1>4. Spans(cQ, Q) /\ cQ[0] = FALSE
  <2>1. b \in 0..L /\ L \in 0..L /\ b =< L /\ 0 \in 0..L - b /\ b + 0 = b
    BY <1>1
  <2>2. Spans(cQ, SubSeq(from, b + 1, L))
    BY <1>1, <2>1, SpansPart
  <2>3. cQ[0] = c[b]
    BY <2>1
  <2> HIDE DEF cQ
  <2> QED BY <1>1, <2>2, <2>3
<1>5. Spans(cB, B) /\ cB[0] = FALSE
  <2>1. /\ a - 1 \in 0..L /\ b \in 0..L /\ a - 1 =< b /\ 0 \in 0..b - (a - 1)
        /\ (a - 1) + 0 = a - 1 /\ (a - 1) + 1 = a
    BY <1>1
  <2>2. Spans(cB, SubSeq(from, (a - 1) + 1, b))
    BY <1>1, <2>1, SpansPart
  <2>3. cB[0] = c[a - 1]
    BY <2>1
  <2> HIDE DEF cB
  <2> QED BY <1>1, <2>1, <2>2, <2>3
<1> HIDE DEF P, Q, B, cP, cQ, cB
<1>6. \E e : Spans(e, Rest(from)) /\ e[0] = FALSE
  <2>1. /\ P \in Seq(Entries) /\ Spans(cP, P) /\ Q \in Seq(Entries)
        /\ Spans(cQ, Q) /\ cQ[0] = FALSE
    BY <1>2, <1>3, <1>4
  <2>2. \E e : Spans(e, P \o Q) /\ e[0] = cP[0]
    BY <2>1, SpansConcat
  <2> QED BY <1>2, <1>3, <2>2
<1>7. PICK e : Spans(e, Moved(B)) /\ e[0] = FALSE
  BY <1>2, <1>5, SpansMoved
<1>8. Moved(B) \in Seq(Entries)
  BY <1>2, MovedFacts
<1>9. \E f : Spans(f, Moved(B) \o to) /\ f[0] = FALSE
  <2> DEFINE M == Moved(B)
  <2>1. Spans(e, M) /\ M \in Seq(Entries)
    BY <1>7, <1>8
  <2> HIDE DEF M
  <2>2. \E f : Spans(f, M \o to) /\ f[0] = e[0]
    BY <2>1, SpansConcat
  <2> QED BY <1>7, <2>2 DEF M
<1> QED BY <1>2, <1>6, <1>9

-----------------------------------------------------------------------------
(* w is the line of N states f, of d and of K states p; r is s, of n, and t. *)
IsLine(w, f, N, d, p, K) ==
  /\ Len(w) = (N + 1) + K
  /\ \A k \in 1..(N + 1) + K :
       w[k] = IF k =< N THEN f[N + 1 - k] ELSE IF k = N + 1 THEN d ELSE p[k - (N + 1)]
IsConcat(r, s, n, t, m) ==
  /\ Len(r) = n + m
  /\ \A i \in 1..n + m : r[i] = IF i =< n THEN s[i] ELSE t[i - n]

(* A concatenation, entry by entry.                                         *)
LEMMA ConcatIs ==
  ASSUME NEW S, NEW s \in Seq(S), NEW t \in Seq(S)
  PROVE  s \o t \in Seq(S) /\ IsConcat(s \o t, s, Len(s), t, Len(t))
<1>1. /\ s \o t \in Seq(S) /\ Len(s \o t) = Len(s) + Len(t)
      /\ \A i \in 1..Len(s) + Len(t) : (s \o t)[i] = IF i =< Len(s) THEN s[i] ELSE t[i - Len(s)]
  BY ConcatProperties
<1> QED BY <1>1 DEF IsConcat

(* The line of states, read from the newest.                                 *)
LEMMA LineIs ==
  ASSUME NEW S, NEW p \in Seq(S), NEW d \in S, NEW f \in Seq(S)
  PROVE  /\ Line!Line(p, d, f) \in Seq(S)
         /\ IsLine(Line!Line(p, d, f), f, Len(f), d, p, Len(p))
<1> DEFINE w == Line!Line(p, d, f)
           N == Len(f)
           K == Len(p)
<1>0. w = Line!Line(p, d, f) /\ N = Len(f) /\ K = Len(p) /\ N \in Nat /\ K \in Nat
  OBVIOUS
<1> HIDE DEF w, N, K
<1> DEFINE r == [k \in 1..N |-> f[N + 1 - k]]
           q == r \o <<d>>
           v == q \o p
<1>1. N \in Nat /\ K \in Nat
  BY <1>0
<1>2. r \in Seq(S) /\ Len(r) = N
  <2>0. \A k \in 1..N : N + 1 - k \in 1..Len(f)
    BY <1>0
  <2>1. \A k \in 1..N : f[N + 1 - k] \in S
    BY <2>0
  <2> QED BY <1>1, <2>1
<1>3. \A k \in 1..N : r[k] = f[N + 1 - k]
  OBVIOUS
<1>4. <<d>> \in Seq(S) /\ Len(<<d>>) = 1 /\ <<d>>[1] = d
  OBVIOUS
<1> HIDE DEF r
<1>5. /\ q \in Seq(S) /\ Len(q) = N + 1
      /\ \A k \in 1..N + 1 : q[k] = IF k =< N THEN f[N + 1 - k] ELSE d
  <2>1. /\ q \in Seq(S) /\ Len(q) = N + 1
        /\ \A k \in 1..N + 1 : q[k] = IF k =< N THEN r[k] ELSE <<d>>[k - N]
    <3>1. q \in Seq(S) /\ IsConcat(q, r, Len(r), <<d>>, Len(<<d>>))
      BY <1>2, <1>4, ConcatIs
    <3> HIDE DEF q
    <3>2. IsConcat(q, r, N, <<d>>, 1)
      BY <1>2, <1>4, <3>1
    <3> QED BY <3>1, <3>2 DEF IsConcat
  <2> HIDE DEF q
  <2>2. \A k \in 1..N + 1 : q[k] = IF k =< N THEN f[N + 1 - k] ELSE d
    <3> TAKE k \in 1..N + 1
    <3>1. k =< N => k \in 1..N
      BY <1>1
    <3>2. ~(k =< N) => k - N = 1
      BY <1>1
    <3> QED BY <1>3, <1>4, <2>1, <3>1, <3>2
  <2> QED BY <2>1, <2>2
<1>6. w = v
  BY DEF Line!Line, r, w, N
<1> HIDE DEF q
<1>7. /\ v \in Seq(S) /\ Len(v) = (N + 1) + K
      /\ \A k \in 1..(N + 1) + K : v[k] = IF k =< N + 1 THEN q[k] ELSE p[k - (N + 1)]
  <2>1. v \in Seq(S) /\ IsConcat(v, q, Len(q), p, Len(p))
    BY <1>5, ConcatIs
  <2> HIDE DEF v
  <2>2. IsConcat(v, q, N + 1, p, K)
    BY <1>0, <1>5, <2>1
  <2> QED BY <2>1, <2>2 DEF IsConcat
<1> HIDE DEF v
<1>8. \A k \in 1..(N + 1) + K :
        v[k] = IF k =< N THEN f[N + 1 - k] ELSE IF k = N + 1 THEN d ELSE p[k - (N + 1)]
  <2> TAKE k \in 1..(N + 1) + K
  <2>1. k =< N => k \in 1..N + 1 /\ k =< N + 1
    BY <1>1
  <2>2. k = N + 1 => k \in 1..N + 1 /\ k =< N + 1 /\ ~(k =< N)
    BY <1>1
  <2>3. ~(k =< N) /\ k # N + 1 => ~(k =< N + 1)
    BY <1>1
  <2> QED BY <1>5, <1>7, <2>1, <2>2, <2>3
<1>9. IsLine(w, f, N, d, p, K)
  BY <1>6, <1>7, <1>8 DEF IsLine
<1> QED BY <1>0, <1>6, <1>7, <1>9

(* Taking s off the one end and putting it, with the present first, on the   *)
(* other leaves the line as it is.                                           *)
Carried(s, d) == [i \in 1..Len(s) |-> IF i = Len(s) THEN d ELSE s[Len(s) - i]]

(* The states carried to the other list: in reverse order, and the one at   *)
(* hand last.                                                               *)
LEMMA CarriedType ==
  ASSUME NEW S, NEW s \in Seq(S), NEW d \in S
  PROVE  /\ Carried(s, d) \in Seq(S) /\ Len(Carried(s, d)) = Len(s)
         /\ \A i \in 1..Len(s) : Carried(s, d)[i] = IF i = Len(s) THEN d ELSE s[Len(s) - i]
<1> DEFINE n == Len(s)
<1>1. n \in Nat /\ \A i \in 1..n : (IF i = n THEN d ELSE s[n - i]) \in S
  <2>1. n \in Nat /\ \A i \in 1..n : i # n => n - i \in 1..n
    OBVIOUS
  <2>2. \A i \in 1..n : s[i] \in S
    OBVIOUS
  <2> HIDE DEF n
  <2> QED BY <2>1, <2>2
<1>2. Carried(s, d) = [i \in 1..n |-> IF i = n THEN d ELSE s[n - i]]
  BY DEF Carried
<1> HIDE DEF n
<1>3. Carried(s, d) \in Seq(S) /\ Len(Carried(s, d)) = n
  BY <1>1, <1>2
<1>4. \A i \in 1..n : Carried(s, d)[i] = IF i = n THEN d ELSE s[n - i]
  BY <1>2
<1> QED BY <1>3, <1>4 DEF n

(* Moving some states from the past to the future changes the place on the  *)
(* line and not the line (undo.c:194-276 with _pop_undo,                    *)
(* libs/history.c:547-639).                                                 *)
LEMMA UndoWalks ==
  ASSUME NEW S, NEW s \in Seq(S), Len(s) # 0, NEW P \in Seq(S), NEW d \in S, NEW F \in Seq(S)
  PROVE  Line!Line(P, s[Len(s)], Carried(s, d) \o F) = Line!Line(s \o P, d, F)
<1> DEFINE n == Len(s)
           N == Len(F)
           K == Len(P)
           C == Carried(s, d)
           f == C \o F
           p == s \o P
           u == Line!Line(P, s[n], f)
           w == Line!Line(p, d, F)
<1>1. n \in Nat /\ n # 0 /\ N \in Nat /\ K \in Nat /\ n \in 1..n /\ s[n] \in S
  OBVIOUS
<1>2. /\ C \in Seq(S) /\ Len(C) = n
      /\ \A i \in 1..n : C[i] = IF i = n THEN d ELSE s[n - i]
  BY CarriedType
<1> HIDE DEF C
<1>3. /\ f \in Seq(S) /\ IsConcat(f, C, n, F, N)
      /\ p \in Seq(S) /\ IsConcat(p, s, n, P, K)
  <2>1. f \in Seq(S) /\ IsConcat(f, C, Len(C), F, N)
    BY <1>2, ConcatIs
  <2>2. p \in Seq(S) /\ IsConcat(p, s, n, P, K)
    BY ConcatIs
  <2> QED BY <1>2, <2>1, <2>2
<1> HIDE DEF f, p
<1>4. /\ u \in Seq(S) /\ IsLine(u, f, Len(f), s[n], P, K)
      /\ w \in Seq(S) /\ IsLine(w, F, N, d, p, Len(p))
  <2>1. u \in Seq(S) /\ IsLine(u, f, Len(f), s[n], P, K)
    BY <1>1, <1>3, LineIs
  <2>2. w \in Seq(S) /\ IsLine(w, F, N, d, p, Len(p))
    BY <1>3, LineIs
  <2> QED BY <2>1, <2>2
<1> HIDE DEF n, N, K, u, w
<1>5. /\ Len(f) = n + N /\ \A i \in 1..n + N : f[i] = IF i =< n THEN C[i] ELSE F[i - n]
      /\ Len(p) = n + K /\ \A i \in 1..n + K : p[i] = IF i =< n THEN s[i] ELSE P[i - n]
  BY <1>3 DEF IsConcat
<1>6. IsLine(u, f, n + N, s[n], P, K) /\ IsLine(w, F, N, d, p, n + K)
  BY <1>4, <1>5
<1>7. /\ Len(u) = ((n + N) + 1) + K /\ Len(w) = (N + 1) + (n + K)
      /\ \A k \in 1..((n + N) + 1) + K :
           u[k] = IF k =< n + N THEN f[(n + N) + 1 - k]
                  ELSE IF k = (n + N) + 1 THEN s[n] ELSE P[k - ((n + N) + 1)]
      /\ \A k \in 1..(N + 1) + (n + K) :
           w[k] = IF k =< N THEN F[N + 1 - k] ELSE IF k = N + 1 THEN d ELSE p[k - (N + 1)]
  BY <1>6 DEF IsLine
<1>8. Len(u) = Len(w)
  BY <1>1, <1>7
<1>9. ASSUME NEW k \in 1..Len(w) PROVE u[k] = w[k]
  <2>1. k \in 1..((n + N) + 1) + K /\ k \in 1..(N + 1) + (n + K) /\ k \in Nat /\ k >= 1
    BY <1>1, <1>7
  <2>2. CASE k =< N
    <3>1. /\ k =< n + N /\ (n + N) + 1 - k \in 1..n + N /\ ~((n + N) + 1 - k =< n)
          /\ ((n + N) + 1 - k) - n = N + 1 - k
      BY <1>1, <2>1, <2>2
    <3>2. u[k] = F[N + 1 - k]
      BY <1>5, <1>7, <2>1, <3>1
    <3> QED BY <1>7, <2>1, <2>2, <3>2
  <2>3. CASE k = N + 1
    <3>1. k =< n + N /\ (n + N) + 1 - k = n /\ n \in 1..n + N /\ n =< n /\ ~(k =< N)
      BY <1>1, <2>3
    <3>2. u[k] = f[n] /\ f[n] = C[n]
      BY <1>5, <1>7, <2>1, <3>1
    <3> QED BY <1>1, <1>2, <1>7, <2>1, <2>3, <3>1, <3>2
  <2>4. CASE k > N + 1 /\ k =< n + N
    <3>1. /\ ~(k =< N) /\ k # N + 1 /\ (n + N) + 1 - k \in 1..n + N
          /\ (n + N) + 1 - k =< n /\ (n + N) + 1 - k \in 1..n /\ (n + N) + 1 - k # n
          /\ n - ((n + N) + 1 - k) = k - (N + 1)
          /\ k - (N + 1) \in 1..n + K /\ k - (N + 1) =< n
      BY <1>1, <2>1, <2>4
    <3>2. u[k] = s[k - (N + 1)]
      <4>1. u[k] = f[(n + N) + 1 - k] /\ f[(n + N) + 1 - k] = C[(n + N) + 1 - k]
        BY <1>5, <1>7, <2>1, <2>4, <3>1
      <4>2. C[(n + N) + 1 - k] = s[n - ((n + N) + 1 - k)]
        BY <1>2, <3>1
      <4> QED BY <3>1, <4>1, <4>2
    <3>3. w[k] = s[k - (N + 1)]
      BY <1>5, <1>7, <2>1, <3>1
    <3> QED BY <3>2, <3>3
  <2>5. CASE k = (n + N) + 1
    <3>1. /\ ~(k =< n + N) /\ ~(k =< N) /\ k # N + 1 /\ k - (N + 1) = n
          /\ n \in 1..n + K /\ n =< n
      BY <1>1, <2>5
    <3> QED BY <1>5, <1>7, <2>1, <2>5, <3>1
  <2>6. CASE k > (n + N) + 1
    <3>1. /\ ~(k =< n + N) /\ k # (n + N) + 1 /\ ~(k =< N) /\ k # N + 1
          /\ k - (N + 1) \in 1..n + K /\ ~(k - (N + 1) =< n)
          /\ (k - (N + 1)) - n = k - ((n + N) + 1)
      BY <1>1, <2>1, <2>6
    <3>2. u[k] = P[k - ((n + N) + 1)]
      BY <1>7, <2>1, <3>1
    <3>3. w[k] = P[k - ((n + N) + 1)]
      BY <1>5, <1>7, <2>1, <3>1
    <3> QED BY <3>2, <3>3
  <2>7. k =< N \/ k = N + 1 \/ (k > N + 1 /\ k =< n + N) \/ k = (n + N) + 1 \/ k > (n + N) + 1
    <3>1. k \in Int /\ N \in Int /\ n \in Int
      BY <1>1, <2>1
    <3> QED BY <3>1
  <2> QED BY <2>2, <2>3, <2>4, <2>5, <2>6, <2>7
<1>10. u = w
  BY <1>4, <1>8, <1>9, SeqEqual
<1> QED BY <1>10 DEF u, w, p, f, C, n

(* The same for a redo.                                                     *)
LEMMA RedoWalks ==
  ASSUME NEW S, NEW s \in Seq(S), Len(s) # 0, NEW P \in Seq(S), NEW d \in S, NEW F \in Seq(S)
  PROVE  Line!Line(Carried(s, d) \o F, s[Len(s)], P) = Line!Line(F, d, s \o P)
<1> DEFINE n == Len(s)
           N == Len(F)
           K == Len(P)
           C == Carried(s, d)
           f == C \o F
           p == s \o P
           u == Line!Line(f, s[n], P)
           w == Line!Line(F, d, p)
<1>1. n \in Nat /\ n # 0 /\ N \in Nat /\ K \in Nat /\ n \in 1..n /\ s[n] \in S
  OBVIOUS
<1>2. /\ C \in Seq(S) /\ Len(C) = n
      /\ \A i \in 1..n : C[i] = IF i = n THEN d ELSE s[n - i]
  BY CarriedType
<1> HIDE DEF C
<1>3. /\ f \in Seq(S) /\ IsConcat(f, C, n, F, N)
      /\ p \in Seq(S) /\ IsConcat(p, s, n, P, K)
  <2>1. f \in Seq(S) /\ IsConcat(f, C, Len(C), F, N)
    BY <1>2, ConcatIs
  <2>2. p \in Seq(S) /\ IsConcat(p, s, n, P, K)
    BY ConcatIs
  <2> QED BY <1>2, <2>1, <2>2
<1> HIDE DEF f, p
<1>4. /\ u \in Seq(S) /\ IsLine(u, P, K, s[n], f, Len(f))
      /\ w \in Seq(S) /\ IsLine(w, p, Len(p), d, F, N)
  <2>1. u \in Seq(S) /\ IsLine(u, P, K, s[n], f, Len(f))
    BY <1>1, <1>3, LineIs
  <2>2. w \in Seq(S) /\ IsLine(w, p, Len(p), d, F, N)
    BY <1>3, LineIs
  <2> QED BY <2>1, <2>2
<1> HIDE DEF n, N, K, u, w
<1>5. /\ Len(f) = n + N /\ \A i \in 1..n + N : f[i] = IF i =< n THEN C[i] ELSE F[i - n]
      /\ Len(p) = n + K /\ \A i \in 1..n + K : p[i] = IF i =< n THEN s[i] ELSE P[i - n]
  BY <1>3 DEF IsConcat
<1>6. IsLine(u, P, K, s[n], f, n + N) /\ IsLine(w, p, n + K, d, F, N)
  BY <1>4, <1>5
<1>7. /\ Len(u) = (K + 1) + (n + N) /\ Len(w) = ((n + K) + 1) + N
      /\ \A k \in 1..(K + 1) + (n + N) :
           u[k] = IF k =< K THEN P[K + 1 - k] ELSE IF k = K + 1 THEN s[n] ELSE f[k - (K + 1)]
      /\ \A k \in 1..((n + K) + 1) + N :
           w[k] = IF k =< n + K THEN p[(n + K) + 1 - k]
                  ELSE IF k = (n + K) + 1 THEN d ELSE F[k - ((n + K) + 1)]
  BY <1>6 DEF IsLine
<1>8. Len(u) = Len(w)
  BY <1>1, <1>7
<1>9. ASSUME NEW k \in 1..Len(w) PROVE u[k] = w[k]
  <2>1. k \in 1..(K + 1) + (n + N) /\ k \in 1..((n + K) + 1) + N /\ k \in Nat /\ k >= 1
    BY <1>1, <1>7
  <2>2. CASE k =< K
    <3>1. /\ k =< n + K /\ (n + K) + 1 - k \in 1..n + K /\ ~((n + K) + 1 - k =< n)
          /\ ((n + K) + 1 - k) - n = K + 1 - k
      BY <1>1, <2>1, <2>2
    <3>2. w[k] = P[K + 1 - k]
      BY <1>5, <1>7, <2>1, <3>1
    <3> QED BY <1>7, <2>1, <2>2, <3>2
  <2>3. CASE k = K + 1
    <3>1. k =< n + K /\ (n + K) + 1 - k = n /\ n \in 1..n + K /\ n =< n /\ ~(k =< K)
      BY <1>1, <2>3
    <3>2. w[k] = p[n] /\ p[n] = s[n]
      BY <1>5, <1>7, <2>1, <3>1
    <3> QED BY <1>7, <2>1, <2>3, <3>1, <3>2
  <2>4. CASE k > K + 1 /\ k =< n + K
    <3>1. /\ ~(k =< K) /\ k # K + 1 /\ (n + K) + 1 - k \in 1..n + K
          /\ (n + K) + 1 - k =< n
          /\ k - (K + 1) \in 1..n + N /\ k - (K + 1) =< n /\ k - (K + 1) \in 1..n
          /\ k - (K + 1) # n /\ n - (k - (K + 1)) = (n + K) + 1 - k
      BY <1>1, <2>1, <2>4
    <3>2. w[k] = s[(n + K) + 1 - k]
      BY <1>5, <1>7, <2>1, <2>4, <3>1
    <3>3. u[k] = s[(n + K) + 1 - k]
      <4>1. u[k] = f[k - (K + 1)] /\ f[k - (K + 1)] = C[k - (K + 1)]
        BY <1>5, <1>7, <2>1, <3>1
      <4>2. C[k - (K + 1)] = s[n - (k - (K + 1))]
        BY <1>2, <3>1
      <4> QED BY <3>1, <4>1, <4>2
    <3> QED BY <3>2, <3>3
  <2>5. CASE k = (n + K) + 1
    <3>1. /\ ~(k =< n + K) /\ ~(k =< K) /\ k # K + 1 /\ k - (K + 1) = n
          /\ n \in 1..n + N /\ n =< n
      BY <1>1, <2>5
    <3>2. u[k] = f[n] /\ f[n] = C[n] /\ C[n] = d
      BY <1>1, <1>2, <1>5, <1>7, <2>1, <3>1
    <3> QED BY <1>7, <2>1, <2>5, <3>1, <3>2
  <2>6. CASE k > (n + K) + 1
    <3>1. /\ ~(k =< n + K) /\ k # (n + K) + 1 /\ ~(k =< K) /\ k # K + 1
          /\ k - (K + 1) \in 1..n + N /\ ~(k - (K + 1) =< n)
          /\ (k - (K + 1)) - n = k - ((n + K) + 1)
      BY <1>1, <2>1, <2>6
    <3>2. w[k] = F[k - ((n + K) + 1)]
      BY <1>7, <2>1, <3>1
    <3>3. u[k] = F[k - ((n + K) + 1)]
      BY <1>5, <1>7, <2>1, <3>1
    <3> QED BY <3>2, <3>3
  <2>7. k =< K \/ k = K + 1 \/ (k > K + 1 /\ k =< n + K) \/ k = (n + K) + 1 \/ k > (n + K) + 1
    <3>1. k \in Int /\ K \in Int /\ n \in Int
      BY <1>1, <2>1
    <3> QED BY <3>1
  <2> QED BY <2>2, <2>3, <2>4, <2>5, <2>6, <2>7
<1>10. u = w
  BY <1>4, <1>8, <1>9, SeqEqual
<1> QED BY <1>10 DEF u, w, p, f, C, n

-----------------------------------------------------------------------------
(* The undo lists between two calls into undo.c.                             *)
ListsType(u) ==
  u \in [undo : Seq(Entries), redo : Seq(Entries), group : Types, indent : Nat,
         disable : BOOLEAN]
ListsInv(u, j) ==
  /\ ListsType(u)
  /\ u.indent = (IF j = "open" THEN 1 ELSE 0)
  /\ u.group = (IF j = "open" THEN "LT_HISTORY" ELSE "NONE")
  /\ u.disable => j = "open"
Grouped(u) ==
  /\ \E c : Spans(c, u.undo) /\ c[0] = (u.indent > 0)
  /\ u.indent > 0 => (Len(u.undo) > 0 /\ (Matches(u.undo[1]) <=> u.group \in Develop))
  /\ \E d : Spans(d, u.redo) /\ d[0] = FALSE

(* What an entry made for an item is.                                       *)
LEMMA NewEntry ==
  ASSUME NEW i \in UndoItems, NEW t \in Nat
  PROVE  /\ At(i, t) \in Entries
         /\ IsMark(At(i, t)) <=> i.kind = "mark"
         /\ IsEdit(At(i, t)) <=> i.kind = "edit"
         /\ Matches(At(i, t)) <=> i.type \in Develop
         /\ At(i, t).item = i
BY DEF Entries, At, IsMark, IsEdit, Matches

(* The items made by the operations of undo.c are items of the lists.       *)
LEMMA NewItems ==
  /\ \A y \in Types : /\ Mark(y) \in UndoItems /\ Mark(y).kind = "mark" /\ Mark(y).type = y
                      /\ Other(y) \in UndoItems /\ Other(y).kind = "other" /\ Other(y).type = y
  /\ \A s \in Saved : /\ Snapshot(s) \in UndoItems /\ Snapshot(s).kind = "edit"
                      /\ Snapshot(s).type = "HISTORY" /\ Snapshot(s).was = s
BY DEF UndoItems, Mark, Other, Snapshot

(* The empty list is a list of entries, and no group is open on it.         *)
LEMMA EmptySpans == <<>> \in Seq(Entries) /\ \E d : Spans(d, <<>>) /\ d[0] = FALSE
<1> DEFINE d == [k \in 0..0 |-> FALSE]
<1>1. Spans(d, <<>>) /\ d[0] = FALSE
  BY SpansEmpty
<1> QED BY <1>1

(* A record goes on the undo list and drops the redo list, or is swallowed  *)
(* (undo.c:86-132).                                                         *)
LEMMA RecordedFacts ==
  ASSUME NEW u, ListsType(u), NEW i \in UndoItems, NEW t \in Nat
  PROVE  LET v == Recorded(u, i, t) IN
         /\ ListsType(v) /\ v.group = u.group /\ v.indent = u.indent /\ v.disable = FALSE
         /\ u.disable => v.undo = u.undo /\ v.redo = u.redo
         /\ ~u.disable => v.undo = <<At(i, t)>> \o u.undo /\ v.redo = <<>>
<1> DEFINE v == Recorded(u, i, t)
           w == <<At(i, t)>> \o u.undo
<1>1. u \in [undo : Seq(Entries), redo : Seq(Entries), group : Types, indent : Nat, disable : BOOLEAN]
  BY DEF ListsType
<1>2. w \in Seq(Entries) /\ <<>> \in Seq(Entries)
  <2>1. At(i, t) \in Entries /\ u.undo \in Seq(Entries)
    BY <1>1, NewEntry
  <2> QED BY <2>1, ConsFacts, EmptySpans
<1>3. v = IF u.disable THEN [u EXCEPT !.disable = FALSE]
          ELSE [u EXCEPT !.undo = w, !.redo = <<>>]
  BY <1>1 DEF Recorded
<1> HIDE DEF v, w
<1>4. /\ ListsType(v) /\ v.group = u.group /\ v.indent = u.indent /\ v.disable = FALSE
      /\ u.disable => v.undo = u.undo /\ v.redo = u.redo
      /\ ~u.disable => v.undo = w /\ v.redo = <<>>
  <2>1. CASE u.disable
    BY <1>1, <1>3, <2>1 DEF ListsType
  <2>2. CASE ~u.disable
    <3>1. v = [u EXCEPT !.undo = w, !.redo = <<>>] /\ u.disable = FALSE
      BY <1>1, <1>3, <2>2
    <3> QED BY <1>1, <1>2, <3>1, <2>2 DEF ListsType
  <2> QED BY <2>1, <2>2
<1> QED BY <1>4 DEF v, w

(* Recording anything but a mark keeps the groups whole if it is undone with *)
(* the group it comes into or not, like the rest of it.                      *)
LEMMA RecordedGrouped ==
  ASSUME NEW u, ListsType(u), NEW i \in UndoItems, NEW t \in Nat, i.kind # "mark",
         Grouped(u), u.indent > 0 => (i.type \in Develop <=> u.group \in Develop)
  PROVE  Grouped(Recorded(u, i, t))
<1> DEFINE v == Recorded(u, i, t)
           x == At(i, t)
<1>1. /\ ListsType(v) /\ v.group = u.group /\ v.indent = u.indent /\ v.disable = FALSE
      /\ u.disable => v.undo = u.undo /\ v.redo = u.redo
      /\ ~u.disable => v.undo = <<x>> \o u.undo /\ v.redo = <<>>
  BY RecordedFacts
<1>2. x \in Entries /\ ~IsMark(x) /\ (Matches(x) <=> i.type \in Develop)
  BY NewEntry
<1>3. u.undo \in Seq(Entries)
  BY DEF ListsType
<1> HIDE DEF v, x
<1>4. ASSUME u.disable PROVE Grouped(v)
  BY <1>1, <1>4 DEF Grouped
<1>5. ASSUME ~u.disable PROVE Grouped(v)
  <2>1. PICK c : Spans(c, u.undo) /\ c[0] = (u.indent > 0)
    BY DEF Grouped
  <2>2. u.indent > 0 => (Matches(u.undo[1]) <=> Matches(x))
    BY <1>2 DEF Grouped
  <2>3. \E d : Spans(d, <<x>> \o u.undo) /\ d[0] = (IF IsMark(x) THEN ~c[0] ELSE c[0])
    BY <1>2, <1>3, <2>1, <2>2, SpansCons
  <2>4. \E d : Spans(d, v.undo) /\ d[0] = (v.indent > 0)
    BY <1>1, <1>2, <1>5, <2>1, <2>3
  <2>5. Len(v.undo) > 0 /\ v.undo[1] = x
    <3>1. Len(<<x>> \o u.undo) = Len(u.undo) + 1 /\ (<<x>> \o u.undo)[1] = x
      BY <1>2, <1>3, ConsFacts
    <3> QED BY <1>1, <1>3, <1>5, <3>1
  <2>6. \E d : Spans(d, v.redo) /\ d[0] = FALSE
    BY <1>1, <1>5, EmptySpans
  <2>7. v.indent > 0 => (Len(v.undo) > 0 /\ (Matches(v.undo[1]) <=> v.group \in Develop))
    BY <1>1, <1>2, <2>5
  <2> QED BY <2>4, <2>6, <2>7 DEF Grouped
<1> QED BY <1>4, <1>5 DEF v

(* The states it adds are those of the item.                                 *)
LEMMA RecordedSnapshots ==
  ASSUME NEW u, ListsType(u), NEW i \in UndoItems, NEW t \in Nat, ~u.disable
  PROVE  /\ i.kind = "edit" => Snapshots(Recorded(u, i, t).undo) = <<i.was>> \o Snapshots(u.undo)
         /\ i.kind # "edit" => Snapshots(Recorded(u, i, t).undo) = Snapshots(u.undo)
<1> DEFINE x == At(i, t)
<1>1. Recorded(u, i, t).undo = <<x>> \o u.undo
  BY RecordedFacts
<1>2. u.undo \in Seq(Entries)
  BY DEF ListsType
<1>3. x \in Entries /\ x.item = i /\ (IsEdit(x) <=> i.kind = "edit")
  BY NewEntry
<1> HIDE DEF x
<1>4. /\ <<x>> \in Seq(Entries) /\ IsEdit(x) => Snapshots(<<x>>) = <<x.item.was>>
      /\ ~IsEdit(x) => Snapshots(<<x>>) = <<>>
  BY <1>3, OneSnapshot
<1>5. Snapshots(<<x>> \o u.undo) = Snapshots(<<x>>) \o Snapshots(u.undo)
  BY <1>2, <1>3, OneSnapshot, SnapshotsConcat
<1>6. <<>> \o Snapshots(u.undo) = Snapshots(u.undo)
  BY <1>2, SnapshotsType, ConcatEmptySeq
<1>7. <<x>> \in Seq(Entries)
  BY <1>3, OneSnapshot
<1> QED BY <1>1, <1>3, <1>4, <1>5, <1>6, <1>7

(* A mark opens a group, or closes it.                                       *)
LEMMA MarkGrouped ==
  ASSUME NEW u, ListsType(u), ~u.disable, NEW y \in Types, NEW t \in Nat, Grouped(u),
         NEW v, v.undo = <<At(Mark(y), t)>> \o u.undo, v.redo = <<>>,
         v.indent = IF u.indent > 0 THEN 0 ELSE 1, v.group = y \/ u.indent > 0,
         u.indent > 0 => y = u.group
  PROVE  Grouped(v)
<1> DEFINE x == At(Mark(y), t)
<1>1. x \in Entries /\ IsMark(x) /\ (Matches(x) <=> y \in Develop)
  BY NewItems, NewEntry
<1>2. u.undo \in Seq(Entries) /\ v.undo = <<x>> \o u.undo
  BY DEF ListsType
<1> HIDE DEF x
<1>3. PICK c : Spans(c, u.undo) /\ c[0] = (u.indent > 0)
  BY DEF Grouped
<1>4. u.indent > 0 => (Matches(u.undo[1]) <=> Matches(x))
  BY <1>1 DEF Grouped
<1>5. \E d : Spans(d, <<x>> \o u.undo) /\ d[0] = (IF IsMark(x) THEN ~c[0] ELSE c[0])
  BY <1>1, <1>2, <1>3, <1>4, SpansCons
<1>6. (v.indent > 0) = ~(u.indent > 0)
  OBVIOUS
<1>7. \E d : Spans(d, v.undo) /\ d[0] = (v.indent > 0)
  BY <1>1, <1>2, <1>3, <1>5, <1>6
<1>8. Len(v.undo) > 0 /\ v.undo[1] = x
  <2>1. Len(<<x>> \o u.undo) = Len(u.undo) + 1 /\ (<<x>> \o u.undo)[1] = x
    BY <1>1, <1>2, ConsFacts
  <2> QED BY <1>2, <2>1
<1>9. v.indent > 0 => (Len(v.undo) > 0 /\ (Matches(v.undo[1]) <=> v.group \in Develop))
  BY <1>1, <1>6, <1>8
<1> QED BY <1>7, <1>9, EmptySpans DEF Grouped

(* dt_undo_start_group and dt_undo_end_group, the outermost ones.            *)
LEMMA StartFacts ==
  ASSUME NEW u, ListsType(u), u.group = "NONE", u.indent = 0, ~u.disable,
         NEW y \in Types, NEW t \in Nat
  PROVE  LET v == StartGroup(u, y, t) IN
         /\ ListsType(v) /\ v.group = y /\ v.indent = 1 /\ v.disable = FALSE
         /\ v.redo = <<>> /\ Snapshots(v.undo) = Snapshots(u.undo)
         /\ Grouped(u) => Grouped(v)
<1> DEFINE w == [u EXCEPT !.group = y, !.indent = 1]
           v == Recorded(w, Mark(y), t)
<1>1. StartGroup(u, y, t) = v
  BY DEF StartGroup
<1>2. /\ ListsType(w) /\ w.group = y /\ w.indent = 1 /\ w.disable = FALSE
      /\ w.undo = u.undo /\ w.redo = u.redo
  BY DEF ListsType
<1> HIDE DEF w
<1>3. Mark(y) \in UndoItems /\ Mark(y).kind = "mark"
  BY NewItems
<1>4. /\ ListsType(v) /\ v.group = y /\ v.indent = 1 /\ v.disable = FALSE
      /\ v.undo = <<At(Mark(y), t)>> \o u.undo /\ v.redo = <<>>
  <2>1. /\ ListsType(v) /\ v.group = w.group /\ v.indent = w.indent /\ v.disable = FALSE
        /\ ~w.disable => v.undo = <<At(Mark(y), t)>> \o w.undo /\ v.redo = <<>>
    BY <1>2, <1>3, RecordedFacts
  <2> HIDE DEF v
  <2> QED BY <1>2, <2>1
<1>5. Snapshots(v.undo) = Snapshots(u.undo)
  <2>1. ListsType(w) /\ ~w.disable /\ Mark(y).kind # "edit"
    BY <1>2, <1>3
  <2>2. Snapshots(v.undo) = Snapshots(w.undo)
    BY <1>3, <2>1, RecordedSnapshots
  <2> QED BY <1>2, <2>2
<1> HIDE DEF v
<1>6. Grouped(u) => Grouped(v)
  BY <1>4, MarkGrouped
<1> QED BY <1>1, <1>4, <1>5, <1>6

(* Closing a group records the second mark, which pairs with the first      *)
(* (undo.c:152-165).                                                        *)
LEMMA EndFacts ==
  ASSUME NEW u, ListsType(u), u.indent = 1, ~u.disable, NEW t \in Nat
  PROVE  LET v == EndGroup(u, t) IN
         /\ ListsType(v) /\ v.group = "NONE" /\ v.indent = 0 /\ v.disable = FALSE
         /\ v.redo = <<>> /\ Snapshots(v.undo) = Snapshots(u.undo)
         /\ Grouped(u) => Grouped(v)
<1> DEFINE w == [u EXCEPT !.indent = 0]
           r == Recorded(w, Mark(u.group), t)
           v == [r EXCEPT !.group = "NONE"]
<1>1. EndGroup(u, t) = v
  BY DEF EndGroup
<1>2. /\ ListsType(w) /\ w.group = u.group /\ w.indent = 0 /\ w.disable = FALSE
      /\ w.undo = u.undo /\ w.redo = u.redo /\ u.group \in Types
  BY DEF ListsType
<1> HIDE DEF w
<1>3. Mark(u.group) \in UndoItems /\ Mark(u.group).kind = "mark"
  BY <1>2, NewItems
<1>4. /\ ListsType(r) /\ r.indent = 0 /\ r.disable = FALSE
      /\ r.undo = <<At(Mark(u.group), t)>> \o u.undo /\ r.redo = <<>>
  BY <1>2, <1>3, RecordedFacts
<1>5. Snapshots(r.undo) = Snapshots(u.undo)
  BY <1>2, <1>3, RecordedSnapshots
<1> HIDE DEF r
<1>6. "NONE" \in Types
  BY DEF Types
<1>7. /\ ListsType(v) /\ v.group = "NONE" /\ v.indent = 0 /\ v.disable = FALSE
      /\ v.undo = r.undo /\ v.redo = <<>>
  BY <1>4, <1>6 DEF ListsType
<1> HIDE DEF v
<1>8. Grouped(u) => Grouped(v)
  BY <1>2, <1>4, <1>7, MarkGrouped
<1> QED BY <1>1, <1>5, <1>7, <1>8

(* A change of another kind, recorded as a group of its own, or as part of   *)
(* the group that is open.                                                   *)
GroupRecord(u, y, t) == EndGroup(Recorded(StartGroup(u, y, t), Other(y), t), t)

(* A group of one record within a single call keeps the lists well formed,  *)
(* also within the group of the job.                                        *)
LEMMA GroupRecordFacts ==
  ASSUME NEW u, NEW j, ListsInv(u, j), NEW y \in Types, NEW t \in Nat
  PROVE  LET v == GroupRecord(u, y, t) IN
         /\ ListsInv(v, j) /\ v.disable = FALSE /\ Snapshots(v.undo) = Snapshots(u.undo)
         /\ u.disable => v.redo = u.redo
         /\ ~u.disable => v.redo = <<>>
         /\ Grouped(u) /\ (j = "open" => y \in Develop) => Grouped(v)
<1> DEFINE v == GroupRecord(u, y, t)
<1>1. Other(y) \in UndoItems /\ Other(y).kind = "other" /\ Other(y).type = y
  BY NewItems
<1>2. ListsType(u)
  BY DEF ListsInv
<1>3. CASE j # "open"
  <2>1. u.indent = 0 /\ u.group = "NONE" /\ ~u.disable
    BY <1>3 DEF ListsInv
  <2> DEFINE a == StartGroup(u, y, t)
             b == Recorded(a, Other(y), t)
  <2>2. /\ ListsType(a) /\ a.group = y /\ a.indent = 1 /\ a.disable = FALSE
        /\ a.redo = <<>> /\ Snapshots(a.undo) = Snapshots(u.undo)
        /\ Grouped(u) => Grouped(a)
    BY <1>2, <2>1, StartFacts
  <2> HIDE DEF a
  <2>3. ListsType(b) /\ b.group = y /\ b.indent = 1 /\ b.disable = FALSE
    BY <1>1, <2>2, RecordedFacts
  <2>4. Snapshots(b.undo) = Snapshots(a.undo)
    BY <1>1, <2>2, RecordedSnapshots
  <2>5. Grouped(u) => Grouped(b)
    BY <1>1, <2>2, RecordedGrouped
  <2>6. v = EndGroup(b, t)
    BY DEF GroupRecord, a
  <2> HIDE DEF b, v
  <2>7. /\ ListsType(v) /\ v.group = "NONE" /\ v.indent = 0 /\ v.disable = FALSE
        /\ v.redo = <<>> /\ Snapshots(v.undo) = Snapshots(b.undo)
        /\ Grouped(b) => Grouped(v)
    BY <2>3, <2>6, EndFacts
  <2>8. ListsInv(v, j)
    BY <1>3, <2>7 DEF ListsInv
  <2> QED BY <2>1, <2>2, <2>4, <2>5, <2>7, <2>8 DEF v
<1>4. CASE j = "open"
  <2>1. u.indent = 1 /\ u.group = "LT_HISTORY"
    BY <1>4 DEF ListsInv
  <2> DEFINE a == [u EXCEPT !.indent = 2]
             b == Recorded(a, Other(y), t)
             c == Recorded(u, Other(y), t)
  <2>2. StartGroup(u, y, t) = a
    BY <1>2, <2>1 DEF StartGroup, ListsType
  <2>3. ListsType(a) /\ a.indent = 2
    BY <1>2 DEF ListsType
  <2>4. ListsType(b) /\ b.indent = 2
    BY <1>1, <2>3, RecordedFacts
  <2>5. v = [b EXCEPT !.indent = 1]
    <3>1. v = EndGroup(b, t)
      BY <2>2 DEF GroupRecord
    <3> HIDE DEF b, v
    <3> QED BY <2>4, <3>1 DEF EndGroup, ListsType
  <2>6. c = [b EXCEPT !.indent = 1]
    <3> DEFINE w == <<At(Other(y), t)>> \o u.undo
    <3>1. CASE u.disable
      <4>1. a.disable /\ b = [a EXCEPT !.disable = FALSE] /\ c = [u EXCEPT !.disable = FALSE]
        BY <1>2, <3>1 DEF Recorded, ListsType
      <4> HIDE DEF b, c
      <4> QED BY <1>2, <2>1, <4>1 DEF ListsType
    <3>2. CASE ~u.disable
      <4>1. a.undo = u.undo /\ ~a.disable
        BY <1>2, <3>2 DEF ListsType
      <4>2. b = [a EXCEPT !.undo = w, !.redo = <<>>] /\ c = [u EXCEPT !.undo = w, !.redo = <<>>]
        BY <1>2, <3>2, <4>1 DEF Recorded, ListsType
      <4> HIDE DEF b, c, w
      <4> QED BY <1>2, <2>1, <4>2 DEF ListsType
    <3> QED BY <3>1, <3>2
  <2>7. v = c
    BY <2>5, <2>6
  <2> HIDE DEF v
  <2>8. /\ ListsType(c) /\ c.group = u.group /\ c.indent = u.indent /\ c.disable = FALSE
        /\ u.disable => c.undo = u.undo /\ c.redo = u.redo
        /\ ~u.disable => c.redo = <<>>
    BY <1>1, <1>2, RecordedFacts
  <2>9. ~u.disable => Snapshots(c.undo) = Snapshots(u.undo)
    BY <1>1, <1>2, RecordedSnapshots
  <2>10. Grouped(u) /\ y \in Develop => Grouped(c)
    <3>1. "LT_HISTORY" \in Develop
      BY DEF Develop
    <3> QED BY <1>1, <1>2, <2>1, <3>1, RecordedGrouped
  <2> HIDE DEF c
  <2>11. ListsInv(c, j)
    BY <1>4, <2>1, <2>8 DEF ListsInv
  <2> QED BY <1>4, <2>7, <2>8, <2>9, <2>10, <2>11 DEF v
<1> QED BY <1>3, <1>4

-----------------------------------------------------------------------------
(* Histories: what the active items show, and what adding, removing, reading *)
(* and compressing make of it.                                               *)
HistoryItems == [module : Instance, value : 0..MaxSteps, focus : BOOLEAN]
AlwaysListed(h) == \A a \in AlwaysOn : Listed(h, Len(h), OpOf[a])
StateOf(h, e) == [items |-> [k \in 1..Len(h) |-> <<h[k].module, h[k].value>>], end |-> e]

(* The state that is recorded is that of the history and its end.           *)
LEMMA StateIs == State = StateOf(history, end)
BY DEF State, StateOf

(* The state of a well-formed history is one that may be on the lists.      *)
LEMMA SavedState ==
  ASSUME NEW h \in Seq(HistoryItems), NEW e \in 0..Len(h), AlwaysListed(h)
  PROVE  StateOf(h, e) \in Saved
<1> DEFINE items == [k \in 1..Len(h) |-> <<h[k].module, h[k].value>>]
<1>0. \A k \in 1..Len(h) : h[k] \in HistoryItems
  OBVIOUS
<1>1. \A k \in 1..Len(h) : h[k].module \in Instance /\ h[k].value \in 0..MaxSteps
  BY <1>0 DEF HistoryItems
<1>2. items \in Seq(Instance \X (0..MaxSteps)) /\ Len(items) = Len(h) /\ Len(h) \in Nat
  BY <1>1
<1>3. \A k \in 1..Len(h) : items[k][1] = h[k].module
  OBVIOUS
<1>4. \A a \in AlwaysOn : \E k \in 1..Len(h) : OpOf[items[k][1]] = OpOf[a]
  BY <1>3 DEF AlwaysListed, Listed
<1> HIDE DEF items
<1> DEFINE s == [items |-> items, end |-> e]
<1>5. s \in Saved
  BY <1>2, <1>4 DEF Saved
<1> QED BY <1>5 DEF StateOf, items

(* The controls of a module show its last active item, or the defaults.     *)
LEMMA ShownLast ==
  ASSUME NEW h \in Seq(HistoryItems), NEW e \in 0..Len(h), NEW m \in Instance
  PROVE  \/ (\A k \in 1..e : h[k].module # m) /\ Shown(h, e)[m] = 0
         \/ \E k \in 1..e : /\ h[k].module = m /\ \A i \in k + 1..e : h[i].module # m
                            /\ Shown(h, e)[m] = h[k].value
<1> DEFINE of == {k \in 1..Len(h) : k =< e /\ h[k].module = m}
<1>1. Shown(h, e)[m] = IF of = {} THEN 0 ELSE h[Max(of)].value
  BY DEF Shown
<1>2. Len(h) \in Nat /\ e \in Nat /\ e =< Len(h)
  OBVIOUS
<1>3. \A k : k \in of <=> k \in 1..e /\ h[k].module = m
  BY <1>2
<1> HIDE DEF of
<1>4. CASE of = {}
  BY <1>1, <1>3, <1>4
<1>5. CASE of # {}
  <2>1. of \subseteq 0..e
    BY <1>3
  <2>2. Max(of) \in of /\ \A x \in of : x =< Max(of)
    BY <1>2, <1>5, <2>1, MaxIsGreatest
  <2> DEFINE k == Max(of)
  <2>3. k \in 1..e /\ h[k].module = m /\ \A x \in of : x =< k
    BY <1>3, <2>2
  <2>4. Shown(h, e)[m] = h[k].value
    BY <1>1, <1>5
  <2> HIDE DEF k
  <2>5. \A i \in k + 1..e : h[i].module # m
    <3> SUFFICES ASSUME NEW i \in k + 1..e, h[i].module = m PROVE FALSE
      OBVIOUS
    <3>1. i \in 1..e /\ i \in Int /\ k \in Int /\ i > k
      BY <1>2, <2>3
    <3>2. i =< k
      BY <1>3, <2>3, <3>1
    <3> QED BY <3>1, <3>2
  <2> QED BY <2>3, <2>4, <2>5
<1> QED BY <1>4, <1>5

(* The same, with the item given.                                           *)
LEMMA ShownIs ==
  ASSUME NEW h \in Seq(HistoryItems), NEW e \in 0..Len(h), NEW m \in Instance
  PROVE  /\ (\A k \in 1..e : h[k].module # m) => Shown(h, e)[m] = 0
         /\ \A k \in 1..e : h[k].module = m /\ (\A i \in k + 1..e : h[i].module # m)
              => Shown(h, e)[m] = h[k].value
<1>1. \/ (\A k \in 1..e : h[k].module # m) /\ Shown(h, e)[m] = 0
      \/ \E k \in 1..e : /\ h[k].module = m /\ \A i \in k + 1..e : h[i].module # m
                         /\ Shown(h, e)[m] = h[k].value
  BY ShownLast
<1>2. e \in Nat
  OBVIOUS
<1>3. ASSUME NEW j \in 1..e, h[j].module = m, \A i \in j + 1..e : h[i].module # m,
             NEW k \in 1..e, h[k].module = m, \A i \in k + 1..e : h[i].module # m
      PROVE  j = k
  <2>1. ~(j < k) /\ ~(k < j)
    <3>1. j < k => k \in j + 1..e
      BY <1>2
    <3>2. k < j => j \in k + 1..e
      BY <1>2
    <3> QED BY <1>3, <3>1, <3>2
  <2> QED BY <1>2, <2>1
<1>4. \A k \in 1..e : h[k].module = m /\ (\A i \in k + 1..e : h[i].module # m)
        => Shown(h, e)[m] = h[k].value
  <2> SUFFICES ASSUME NEW k \in 1..e, h[k].module = m, \A i \in k + 1..e : h[i].module # m
               PROVE  Shown(h, e)[m] = h[k].value
    OBVIOUS
  <2>1. PICK j \in 1..e : /\ h[j].module = m /\ \A i \in j + 1..e : h[i].module # m
                          /\ Shown(h, e)[m] = h[j].value
    BY <1>1
  <2>2. j = k
    BY <1>3, <2>1
  <2> QED BY <2>1, <2>2
<1> QED BY <1>1, <1>4

(* What controls show is a value.                                           *)
LEMMA ShownType ==
  ASSUME NEW h \in Seq(HistoryItems), NEW e \in 0..Len(h)
  PROVE  Shown(h, e) \in [Instance -> 0..MaxSteps]
<1>1. MaxSteps \in Nat
  BY HistoryAssumption
<1>2. \A m \in Instance : Shown(h, e)[m] \in 0..MaxSteps
  <2> TAKE m \in Instance
  <2>0. \A k \in 1..e : h[k] \in HistoryItems
    OBVIOUS
  <2>1. \A k \in 1..e : h[k].value \in 0..MaxSteps
    BY <2>0 DEF HistoryItems
  <2> QED BY <1>1, <2>1, ShownLast
<1>3. Shown(h, e) = [m \in Instance |-> Shown(h, e)[m]]
  BY DEF Shown
<1> HIDE DEF Shown
<1> QED BY <1>2, <1>3

(* What a module shows is the same if it has the same items below, in the    *)
(* same order.                                                               *)
SameItems(f, l, d, h, e, m) ==
  /\ f \in [1..d -> Int] /\ \A i, j \in 1..d : i < j => f[i] < f[j]
  /\ \A j \in 1..d : l[j].module = m =>
       f[j] \in 1..e /\ h[f[j]].module = m /\ h[f[j]].value = l[j].value
  /\ \A k \in 1..e : h[k].module = m => \E j \in 1..d : f[j] = k /\ l[j].module = m

(* Two histories show the same of a module when its items are the same, in  *)
(* the same order.                                                          *)
LEMMA ShownSame ==
  ASSUME NEW h \in Seq(HistoryItems), NEW e \in 0..Len(h),
         NEW l \in Seq(HistoryItems), NEW d \in 0..Len(l), NEW m \in Instance,
         NEW f, SameItems(f, l, d, h, e, m)
  PROVE  Shown(l, d)[m] = Shown(h, e)[m]
<1>0. /\ f \in [1..d -> Int] /\ \A i, j \in 1..d : i < j => f[i] < f[j]
      /\ \A j \in 1..d : l[j].module = m =>
           f[j] \in 1..e /\ h[f[j]].module = m /\ h[f[j]].value = l[j].value
      /\ \A k \in 1..e : h[k].module = m => \E j \in 1..d : f[j] = k /\ l[j].module = m
  BY DEF SameItems
<1>1. CASE \A k \in 1..e : h[k].module # m
  <2>1. \A j \in 1..d : l[j].module # m
    BY <1>0, <1>1
  <2> QED BY <1>1, <2>1, ShownIs
<1>2. ASSUME NEW k \in 1..e, h[k].module = m, \A i \in k + 1..e : h[i].module # m
      PROVE  Shown(l, d)[m] = Shown(h, e)[m]
  <2>1. PICK j \in 1..d : f[j] = k /\ l[j].module = m
    BY <1>0, <1>2
  <2>2. \A i \in j + 1..d : l[i].module # m
    <3> SUFFICES ASSUME NEW i \in j + 1..d, l[i].module = m PROVE FALSE
      OBVIOUS
    <3>1. i \in 1..d /\ j < i
      OBVIOUS
    <3>2. f[j] < f[i] /\ f[i] \in 1..e /\ h[f[i]].module = m
      BY <1>0, <2>1, <3>1
    <3>3. f[i] \in k + 1..e
      BY <2>1, <3>2
    <3> QED BY <1>2, <3>2, <3>3
  <2>3. Shown(l, d)[m] = l[j].value
    BY <2>1, <2>2, ShownIs
  <2>4. Shown(h, e)[m] = h[k].value
    <3>1. \A i \in 1..e : h[i].module = m /\ (\A j1 \in i + 1..e : h[j1].module # m)
            => Shown(h, e)[m] = h[i].value
      BY ShownIs
    <3> QED BY <1>2, <3>1
  <2> QED BY <1>0, <2>1, <2>3, <2>4
<1> QED BY <1>1, <1>2, ShownLast

-----------------------------------------------------------------------------
(* What is below a new item: the active part, and the items kept of always-on *)
(* modules.                                                                  *)
Under(h, e) == SubSeq(h, 1, e) \o Kept(h, e)

(* What is left of a history under a new item: the active items, and those  *)
(* of always-on modules that have none (develop.c:1191-1240).               *)
LEMMA UnderFacts ==
  ASSUME NEW h \in Seq(HistoryItems), NEW e \in 0..Len(h), AlwaysListed(h)
  PROVE  /\ Under(h, e) \in Seq(HistoryItems) /\ AlwaysListed(Under(h, e))
         /\ Len(Kept(h, e)) \in Nat /\ Len(Under(h, e)) = e + Len(Kept(h, e))
         /\ \A k \in 1..e : Under(h, e)[k] = h[k]
         /\ \A k \in e + 1..Len(Under(h, e)) : Under(h, e)[k].module \in AlwaysOn
         /\ \A k \in 1..Len(Under(h, e)) : \E i \in 1..Len(h) : Under(h, e)[k] = h[i]
<1> DEFINE S == {k \in DOMAIN h : /\ e \in 0..k - 1 /\ h[k].module \in AlwaysOn
                                  /\ ~Listed(h, e, OpOf[h[k].module])}
           K == Kept(h, e)
           b == SubSeq(h, 1, e)
           n == Len(K)
           u == b \o K
<1>1. DOMAIN h = 1..Len(h) /\ Len(h) \in Nat /\ e \in Nat /\ e =< Len(h)
      /\ \A k \in 1..Len(h) : h[k] \in HistoryItems
  OBVIOUS
<1>2. K = Picked(h, S)
  BY DEF Kept
<1>3. /\ K \in Seq(HistoryItems) /\ n \in Nat
      /\ \A i \in 1..n : \E k \in S : K[i] = h[k]
      /\ \A k \in S : \E i \in 1..n : K[i] = h[k]
  <2>1. S \subseteq DOMAIN h
    OBVIOUS
  <2> HIDE DEF S, K
  <2>2. /\ Picked(h, S) \in Seq(HistoryItems) /\ Len(Picked(h, S)) = Cardinality(S)
        /\ Cardinality(S) \in Nat
        /\ \A i \in 1..Cardinality(S) :
             /\ InOrder(S)[i] \in S /\ Picked(h, S)[i] = h[InOrder(S)[i]]
        /\ \A k \in S : \E i \in 1..Cardinality(S) : InOrder(S)[i] = k
    BY <2>1, PickedFacts
  <2> QED BY <1>2, <2>2
<1>4. \A k \in S : k \in 1..Len(h) /\ h[k].module \in AlwaysOn
  BY <1>1
<1>5. \A k \in 1..Len(h) : /\ k > e /\ h[k].module \in AlwaysOn
                           /\ ~Listed(h, e, OpOf[h[k].module])
                           => k \in S
  BY <1>1
<1>6. /\ b \in Seq(HistoryItems) /\ Len(b) = e /\ \A k \in 1..e : b[k] = h[k]
  <2>1. \A k \in 1..e : h[k] \in HistoryItems
    BY <1>1
  <2>2. /\ b \in Seq(HistoryItems) /\ Len(b) = IF 1 =< e THEN e - 1 + 1 ELSE 0
        /\ \A k \in 1..e - 1 + 1 : b[k] = h[1 + k - 1]
    BY <1>1, <2>1, SubSeqProperties
  <2>3. e - 1 + 1 = e /\ \A k \in 1..e : 1 + k - 1 = k
    BY <1>1
  <2> HIDE DEF b
  <2> QED BY <1>1, <2>2, <2>3
<1> HIDE DEF S, K, b
<1>7. /\ u \in Seq(HistoryItems) /\ Len(u) = e + n
      /\ \A k \in 1..e + n : u[k] = IF k =< e THEN b[k] ELSE K[k - e]
  <2>1. u \in Seq(HistoryItems) /\ IsConcat(u, b, Len(b), K, n)
    BY <1>3, <1>6, ConcatIs
  <2> HIDE DEF u, n
  <2>2. IsConcat(u, b, e, K, n)
    BY <1>6, <2>1
  <2> QED BY <2>1, <2>2 DEF IsConcat
<1> HIDE DEF u, n
<1>8. \A k \in 1..e : k \in 1..e + n /\ u[k] = h[k] /\ k \in 1..Len(h)
  <2> TAKE k \in 1..e
  <2>1. k \in 1..e + n /\ k =< e /\ k \in 1..Len(h)
    BY <1>1, <1>3
  <2> QED BY <1>6, <1>7, <2>1
<1>9. \A k \in 1..n : e + k \in 1..e + n /\ u[e + k] = K[k]
  <2> TAKE k \in 1..n
  <2>1. e + k \in 1..e + n /\ ~(e + k =< e) /\ (e + k) - e = k
    BY <1>1, <1>3
  <2> QED BY <1>7, <2>1
<1>10. \A k \in 1..e + n : k \in 1..e \/ k \in e + 1..e + n
  BY <1>1, <1>3
<1>11. \A k \in e + 1..e + n : \E i \in S : u[k] = h[i]
  <2> TAKE k \in e + 1..e + n
  <2>1. k - e \in 1..n /\ e + (k - e) = k
    BY <1>1, <1>3
  <2>2. u[k] = K[k - e]
    <3>1. u[e + (k - e)] = K[k - e]
      BY <1>9, <2>1
    <3> QED BY <2>1, <3>1
  <2> QED BY <1>3, <2>1, <2>2
<1>12. \A k \in e + 1..e + n : u[k].module \in AlwaysOn
  BY <1>4, <1>11
<1>13. \A k \in 1..e + n : \E i \in 1..Len(h) : u[k] = h[i]
  BY <1>4, <1>8, <1>10, <1>11
<1>14. \A a \in AlwaysOn : \E k \in 1..e + n : OpOf[u[k].module] = OpOf[a]
  <2> TAKE a \in AlwaysOn
  <2>1. PICK k \in 1..Len(h) : OpOf[h[k].module] = OpOf[a]
    BY DEF AlwaysListed, Listed
  <2>2. CASE Listed(h, e, OpOf[a])
    <3>1. PICK i \in 1..e : OpOf[h[i].module] = OpOf[a]
      BY <2>2 DEF Listed
    <3> QED BY <1>8, <3>1
  <2>3. CASE ~Listed(h, e, OpOf[a])
    <3>1. k > e
      <4>1. ~(k \in 1..e)
        BY <1>1, <2>1, <2>3 DEF Listed
      <4> QED BY <1>1, <4>1
    <3>2. h[k].module \in Instance
      BY <1>1 DEF HistoryItems
    <3>3. h[k].module = a
      BY <2>1, <3>2, HistoryAssumption
    <3>4. k \in S
      BY <1>5, <2>3, <3>1, <3>3
    <3>5. PICK i \in 1..n : K[i] = h[k]
      BY <1>3, <3>4
    <3> QED BY <1>9, <2>1, <3>5
  <2> QED BY <2>2, <2>3
<1>15. AlwaysListed(u)
  <2>1. \A k \in 1..e + n : k =< Len(u)
    BY <1>7
  <2> QED BY <1>7, <1>14, <2>1 DEF AlwaysListed, Listed
<1>16. u = Under(h, e)
  BY DEF u, Under, b, K
<1> QED BY <1>3, <1>7, <1>8, <1>12, <1>13, <1>15, <1>16 DEF n, K

(* A new item, or the one on top changed: it is the last one of its module,  *)
(* and shows; what other modules show stays, but for always-on ones whose    *)
(* items became active again.                                                *)
LEMMA AddedFacts ==
  ASSUME NEW h \in Seq(HistoryItems), NEW e \in 0..Len(h), AlwaysListed(h),
         NEW m \in Instance, NEW v \in 0..MaxSteps, NEW f \in BOOLEAN
  PROVE  LET new == Added(h, e, m, v, f) IN
         /\ new.history \in Seq(HistoryItems) /\ new.end \in 0..Len(new.history)
         /\ AlwaysListed(new.history)
         /\ Shown(new.history, new.end)[m] = v
         /\ \A x \in Instance \ (AlwaysOn \cup {m}) :
              Shown(new.history, new.end)[x] = Shown(h, e)[x]
         /\ \A k \in 1..Len(new.history) :
              \/ new.history[k].module = m
              \/ \E i \in 1..Len(h) : new.history[k].module = h[i].module
<1> DEFINE new == Added(h, e, m, v, f)
           u == Under(h, e)
           top == e + Len(Kept(h, e))
           item == Item(m, v, f)
           listed == top \in 1..Len(u) /\ u[top].module = m
           refocused == listed /\ f # u[top].focus /\ u[top].value # v
<1>1. /\ u \in Seq(HistoryItems) /\ AlwaysListed(u) /\ top \in Nat /\ Len(u) = top
      /\ \A k \in 1..e : u[k] = h[k]
      /\ \A k \in e + 1..top : u[k].module \in AlwaysOn
      /\ \A k \in 1..top : \E i \in 1..Len(h) : u[k] = h[i]
      /\ e \in Nat /\ e =< top /\ e =< Len(h)
  BY UnderFacts
<1>2. new = IF ~listed \/ refocused THEN [history |-> Append(u, item), end |-> top + 1]
            ELSE [history |-> [u EXCEPT ![top].value = v], end |-> top]
  <2>1. ~(e < 0)
    OBVIOUS
  <2> QED BY <2>1 DEF Added, Push, Under
<1>3. item \in HistoryItems /\ item.module = m /\ item.value = v
  BY DEF Item, HistoryItems
<1> HIDE DEF u, top, item, new
(* Both are a history whose last item is of m, and which agrees below it.     *)
<1>4. \E l \in Seq(HistoryItems), d \in Nat :
         /\ new = [history |-> l, end |-> d] /\ Len(l) = d /\ d >= top /\ d > 0
         /\ d =< top + 1
         /\ l[d].module = m /\ l[d].value = v
         /\ \A k \in 1..d : k < d => k \in 1..top /\ l[k] = u[k]
         /\ \A k \in 1..top : l[k].module = u[k].module
         /\ d = top + 1 \/ u[top].module = m
  <2>1. CASE ~listed \/ refocused
    <3> DEFINE l == Append(u, item)
    <3>1. /\ l \in Seq(HistoryItems) /\ Len(l) = top + 1 /\ l[top + 1] = item
          /\ \A k \in 1..top : l[k] = u[k]
      BY <1>1, <1>3
    <3>2. new = [history |-> l, end |-> top + 1]
      BY <1>2, <2>1
    <3> HIDE DEF l
    <3>3. \A k \in 1..top + 1 : k < top + 1 => k \in 1..top /\ l[k] = u[k]
      BY <1>1, <3>1
    <3>4. top + 1 \in Nat /\ top + 1 >= top /\ top + 1 > 0 /\ top + 1 =< top + 1
      BY <1>1
    <3> QED BY <1>3, <3>1, <3>2, <3>3, <3>4
  <2>2. CASE ~(~listed \/ refocused)
    <3>1. top \in 1..Len(u) /\ u[top].module = m
      BY <2>2
    <3> DEFINE w == [u[top] EXCEPT !.value = v]
               l == [u EXCEPT ![top] = w]
    <3>2. u[top] \in HistoryItems
      BY <1>1, <3>1
    <3>3. w \in HistoryItems /\ w.module = m /\ w.value = v
      BY <3>1, <3>2 DEF HistoryItems
    <3>4. new = [history |-> l, end |-> top]
      BY <1>2, <2>2
    <3> HIDE DEF w
    <3>5. /\ l \in Seq(HistoryItems) /\ Len(l) = top /\ l[top] = w
          /\ \A k \in 1..top : k # top => l[k] = u[k]
      BY <1>1, <3>1, <3>3
    <3> HIDE DEF l
    <3>6. \A k \in 1..top : k < top => k \in 1..top /\ l[k] = u[k]
      BY <1>1, <3>5
    <3>7. top >= top /\ top > 0 /\ top =< top + 1
      BY <1>1, <3>1
    <3>8. \A k \in 1..top : l[k].module = u[k].module
      BY <3>1, <3>3, <3>5
    <3> QED BY <1>1, <3>1, <3>3, <3>4, <3>5, <3>6, <3>7, <3>8
  <2> QED BY <2>1, <2>2
<1>5. PICK l \in Seq(HistoryItems), d \in Nat :
         /\ new = [history |-> l, end |-> d] /\ Len(l) = d /\ d >= top /\ d > 0
         /\ d =< top + 1
         /\ l[d].module = m /\ l[d].value = v
         /\ \A k \in 1..d : k < d => k \in 1..top /\ l[k] = u[k]
         /\ \A k \in 1..top : l[k].module = u[k].module
         /\ d = top + 1 \/ u[top].module = m
  BY <1>4
<1>6. new.history = l /\ new.end = d /\ d \in 0..Len(l) /\ d \in 1..d
  BY <1>5
<1>7. AlwaysListed(l)
  <2>1. \A a \in AlwaysOn : \E k \in 1..top : OpOf[u[k].module] = OpOf[a]
    BY <1>1 DEF AlwaysListed, Listed
  <2>2. \A k \in 1..top : k \in 1..Len(l) /\ k =< Len(l)
    BY <1>1, <1>5
  <2> QED BY <1>5, <2>1, <2>2 DEF AlwaysListed, Listed
<1>8. Shown(l, d)[m] = v
  <2>1. \A i \in d + 1..d : l[i].module # m
    BY <1>5
  <2> QED BY <1>5, <1>6, <2>1, ShownIs
<1>9. ASSUME NEW x \in Instance \ (AlwaysOn \cup {m})
      PROVE  Shown(l, d)[x] = Shown(h, e)[x]
  <2> DEFINE g == [k \in 1..d |-> k]
  <2>1. g \in [1..d -> Int] /\ \A i, j \in 1..d : i < j => g[i] < g[j]
    BY <1>5
  <2>2. ASSUME NEW j \in 1..d, l[j].module = x
        PROVE  j \in 1..e /\ l[j] = h[j]
    <3>1. j < d
      <4>1. j # d /\ j =< d
        BY <1>5, <2>2
      <4> QED BY <1>5, <4>1
    <3>2. j \in 1..top /\ l[j] = u[j]
      BY <1>5, <3>1
    <3>3. j \in 1..e
      <4>1. ~(j \in e + 1..top)
        BY <1>1, <2>2, <3>2
      <4> QED BY <1>1, <3>2, <4>1
    <3> QED BY <1>1, <3>2, <3>3
  <2>3. ASSUME NEW k \in 1..e, h[k].module = x
        PROVE  k \in 1..d /\ l[k].module = x
    <3>1. k \in 1..top /\ k \in 1..d
      BY <1>1, <1>5
    <3> QED BY <1>1, <1>5, <2>3, <3>1
  <2>4. \A j \in 1..d : g[j] = j
    OBVIOUS
  <2> HIDE DEF g
  <2>5. \A j \in 1..d : l[j].module = x =>
           g[j] \in 1..e /\ h[g[j]].module = x /\ h[g[j]].value = l[j].value
    BY <2>2, <2>4
  <2>6. \A k \in 1..e : h[k].module = x => \E j \in 1..d : g[j] = k /\ l[j].module = x
    BY <2>3, <2>4
  <2>7. x \in Instance /\ d \in 0..Len(l)
    BY <1>6
  <2>8. SameItems(g, l, d, h, e, x)
    BY <2>1, <2>5, <2>6 DEF SameItems
  <2> QED BY <2>7, <2>8, ShownSame
<1>10. \A k \in 1..Len(l) : l[k].module = m \/ \E i \in 1..Len(h) : l[k].module = h[i].module
  <2> TAKE k \in 1..Len(l)
  <2>1. CASE k = d
    BY <1>5, <2>1
  <2>2. CASE k # d
    <3>1. k \in 1..d /\ k < d
      BY <1>5, <2>2
    <3>2. k \in 1..top /\ l[k] = u[k]
      BY <1>5, <3>1
    <3> QED BY <1>1, <3>2
  <2> QED BY <2>1, <2>2
<1> QED BY <1>5, <1>6, <1>7, <1>8, <1>9, <1>10 DEF new

(* Removing all items of a copy, which are active: what the other modules    *)
(* show stays.                                                               *)
ItemsOf(h, c) == {k \in DOMAIN h : h[k].module = c}
Removed(h, e, c) ==
  [history |-> Picked(h, DOMAIN h \ ItemsOf(h, c)), end |-> e - Cardinality(ItemsOf(h, c))]
AllActive(h, e, c) == \A k \in ItemsOf(h, c) : k =< e

(* Taking out the items of a copy, all of them active, leaves what the      *)
(* other modules show.                                                      *)
LEMMA RemovedFacts ==
  ASSUME NEW h \in Seq(HistoryItems), NEW e \in 0..Len(h), AlwaysListed(h),
         NEW c \in Copy,
         AllActive(h, e, c)
  PROVE  LET l == Removed(h, e, c).history
             d == Removed(h, e, c).end
         IN /\ l \in Seq(HistoryItems) /\ d \in 0..Len(l) /\ AlwaysListed(l)
            /\ \A x \in Instance \ {c} : Shown(l, d)[x] = Shown(h, e)[x]
            /\ \A k \in 1..Len(l) : l[k].module # c /\ \E i \in 1..Len(h) : l[k].module = h[i].module
<1> DEFINE of == ItemsOf(h, c)
<1>0. of = ItemsOf(h, c) /\ \A k \in of : k =< e
  BY DEF AllActive
<1> HIDE DEF of
<1> DEFINE O == DOMAIN h \ of
           A == {k \in O : k =< e}
           B == {k \in O : k > e}
           fA == InOrder(A)
           nA == Cardinality(A)
           fB == InOrder(B)
           nB == Cardinality(B)
           f == [k \in 1..nA + nB |-> IF k =< nA THEN fA[k] ELSE fB[k - nA]]
           l == Picked(h, O)
           d == e - Cardinality(of)
<1>1. DOMAIN h = 1..Len(h) /\ Len(h) \in Nat /\ e \in Nat /\ e =< Len(h)
  OBVIOUS
<1>2. /\ \A k : k \in O <=> k \in 1..Len(h) /\ h[k].module # c
      /\ \A k : k \in A <=> k \in 1..e /\ h[k].module # c
      /\ \A k : k \in B <=> k \in e + 1..Len(h) /\ h[k].module # c
      /\ \A k : k \in of <=> k \in 1..e /\ h[k].module = c
  <2>1. \A k : k \in of <=> k \in 1..Len(h) /\ h[k].module = c
    BY <1>0, <1>1 DEF ItemsOf
  <2> QED BY <1>0, <1>1, <2>1
<1>3. A \cup B = O /\ A \subseteq Nat /\ B \subseteq Nat /\ O \subseteq DOMAIN h /\ O \subseteq Nat
  BY <1>1, <1>2
<1> HIDE DEF O, A, B
<1>4. IsFiniteSet(A) /\ IsFiniteSet(B) /\ IsFiniteSet(of)
  <2>1. IsFiniteSet(1..Len(h))
    BY <1>1, FS_Interval
  <2>2. A \in SUBSET (1..Len(h)) /\ B \in SUBSET (1..Len(h)) /\ of \in SUBSET (1..Len(h))
    BY <1>1, <1>2
  <2> QED BY <2>1, <2>2, FS_Subset
<1>5. Enumerates(fA, nA, A) /\ Enumerates(fB, nB, B) /\ nA \in Nat /\ nB \in Nat
  BY <1>3, <1>4, OrderExists
<1>6. Enumerates(f, nA + nB, O)
  <2>1. \A x \in A, y \in B : x < y
    BY <1>1, <1>2
  <2> HIDE DEF fA, nA, fB, nB
  <2>2. Enumerates(f, nA + nB, A \cup B)
    BY <1>3, <1>5, <2>1, OrderJoin
  <2> QED BY <1>3, <2>2
<1>7. d = nA
  <2>1. A \cup of = 1..e /\ A \cap of = {}
    BY <1>2
  <2>2. Cardinality(1..e) = e
    BY <1>1, FS_Interval
  <2>3. Cardinality(A \cup of) = Cardinality(A) + Cardinality(of) - Cardinality(A \cap of)
    BY <1>4, FS_Union
  <2>4. Cardinality(A \cap of) = 0
    BY <2>1, FS_EmptySet
  <2>5. Cardinality(of) \in Nat
    BY <1>4, FS_CardinalityType
  <2>6. nA \in Nat /\ nA = Cardinality(A) /\ d = e - Cardinality(of)
    BY <1>5
  <2>7. Cardinality(A) + Cardinality(of) - 0 = e
    BY <2>1, <2>2, <2>3, <2>4
  <2> HIDE DEF nA, d
  <2> QED BY <1>1, <2>5, <2>6, <2>7
<1>8. /\ l = [k \in 1..nA + nB |-> h[f[k]]] /\ Cardinality(O) = nA + nB
  <2> HIDE DEF f, nA, nB
  <2>1. Picked(h, O) = [k \in 1..nA + nB |-> h[f[k]]] /\ Cardinality(O) = nA + nB
    BY <1>3, <1>6, PickedBy
  <2> QED BY <2>1
<1>9. l \in Seq(HistoryItems) /\ Len(l) = nA + nB
  <2> HIDE DEF nA, nB, f
  <2> QED BY <1>3, <1>8, PickedFacts
<1>10. \A k \in 1..nA + nB : l[k] = h[f[k]]
  <2> HIDE DEF f, nA, nB, l
  <2> QED BY <1>8
<1>11. \A k \in 1..nA : f[k] = fA[k] /\ k \in 1..nA + nB
  <2> HIDE DEF fA, fB, nA, nB
  <2> QED BY <1>5
<1>12. /\ f \in [1..nA + nB -> O] /\ \A i, j \in 1..nA + nB : i < j => f[i] < f[j]
       /\ \A x \in O : \E i \in 1..nA + nB : f[i] = x
       /\ fA \in [1..nA -> A] /\ \A i, j \in 1..nA : i < j => fA[i] < fA[j]
       /\ \A x \in A : \E i \in 1..nA : fA[i] = x
  BY <1>5, <1>6 DEF Enumerates
<1> HIDE DEF f, fA, fB, nA, nB, l, d
<1>13. d \in 0..Len(l)
  BY <1>5, <1>7, <1>9
<1>14. \A k \in 1..Len(l) : l[k].module # c /\ \E i \in 1..Len(h) : l[k].module = h[i].module
  <2> TAKE k \in 1..Len(l)
  <2>1. f[k] \in O /\ l[k] = h[f[k]]
    BY <1>9, <1>10, <1>12
  <2> QED BY <1>2, <2>1
<1>15. AlwaysListed(l)
  <2>1. \A a \in AlwaysOn : \E k \in 1..Len(l) : OpOf[l[k].module] = OpOf[a]
    <3> TAKE a \in AlwaysOn
    <3>1. PICK i \in 1..Len(h) : OpOf[h[i].module] = OpOf[a]
      BY DEF AlwaysListed, Listed
    <3>2. h[i].module \in Instance
      <4>1. h[i] \in HistoryItems
        BY <1>1
      <4> QED BY <4>1 DEF HistoryItems
    <3>3. h[i].module = a
      BY <3>1, <3>2, HistoryAssumption
    <3>4. a # c
      BY HistoryAssumption DEF Base
    <3>5. i \in O
      BY <1>2, <3>3, <3>4
    <3>6. PICK k \in 1..nA + nB : f[k] = i
      BY <1>12, <3>5
    <3> QED BY <1>9, <1>10, <3>1, <3>6
  <2>2. \A k \in 1..Len(l) : k =< Len(l)
    BY <1>9
  <2> QED BY <2>1, <2>2 DEF AlwaysListed, Listed
<1>16. ASSUME NEW x \in Instance \ {c} PROVE Shown(l, d)[x] = Shown(h, e)[x]
  <2>1. fA \in [1..d -> Int] /\ \A i, j \in 1..d : i < j => fA[i] < fA[j]
    BY <1>3, <1>7, <1>12
  <2>2. \A j \in 1..d : l[j] = h[fA[j]] /\ fA[j] \in 1..e
    <3> TAKE j \in 1..d
    <3>1. f[j] = fA[j] /\ j \in 1..nA + nB /\ fA[j] \in A
      BY <1>7, <1>11, <1>12
    <3> QED BY <1>2, <1>10, <3>1
  <2>3. ASSUME NEW k \in 1..e, h[k].module = x
        PROVE  \E j \in 1..d : fA[j] = k /\ l[j].module = x
    <3>1. k \in A
      BY <1>2, <2>3
    <3>2. PICK j \in 1..nA : fA[j] = k
      BY <1>12, <3>1
    <3> QED BY <1>7, <2>2, <2>3, <3>2
  <2>4. SameItems(fA, l, d, h, e, x)
    BY <2>1, <2>2, <2>3 DEF SameItems
  <2>5. x \in Instance
    OBVIOUS
  <2> QED BY <1>9, <1>13, <2>4, <2>5, ShownSame
<1> QED BY <1>9, <1>13, <1>14, <1>15, <1>16 DEF O, l, d, of, Removed

-----------------------------------------------------------------------------
(* Reading stored items: always-on modules that are not among them are put   *)
(* before them.                                                              *)
Pairs == Instance \X (0..MaxSteps)
Stored(s) == s.items \in Seq(Pairs) /\ s.end \in 0..Len(s.items)

(* A history read back lists every always-on module and only modules that   *)
(* the stored one or the defaults name.                                     *)
LEMMA ReadFacts ==
  ASSUME NEW s, Stored(s)
  PROVE  LET r == Read(s) IN
         /\ r.history \in Seq(HistoryItems) /\ r.end \in 0..Len(r.history)
         /\ AlwaysListed(r.history)
         /\ \A k \in 1..Len(r.history) :
              \/ r.history[k].module \in AlwaysOn
              \/ \E i \in 1..Len(s.items) : r.history[k].module = s.items[i][1]
<1> DEFINE N == {m \in AlwaysOn : \A k \in DOMAIN s.items : OpOf[s.items[k][1]] # OpOf[m]}
           M == Missing(s.items)
           n == Len(M)
           L == Len(s.items)
           a == [k \in 1..n |-> <<M[k], 0>>]
           items == a \o s.items
           h == [k \in 1..Len(items) |-> Item(items[k][1], items[k][2], FALSE)]
<1>1. Read(s) = [history |-> h, end |-> s.end + n]
  BY DEF Read
<1>2. /\ s.items \in Seq(Pairs) /\ s.end \in 0..L /\ L \in Nat
      /\ DOMAIN s.items = 1..L /\ s.end \in Nat /\ s.end =< L
  BY DEF Stored
<1>3. N \subseteq Nat /\ IsFiniteSet(N) /\ N \subseteq AlwaysOn /\ AlwaysOn \subseteq Instance
      /\ 0 \in 0..MaxSteps
  <2>1. AlwaysOn \subseteq Instance /\ Instance \subseteq Nat /\ IsFiniteSet(Instance) /\ MaxSteps \in Nat
    BY HistoryAssumption DEF Base
  <2>2. N \in SUBSET Instance
    BY <2>1
  <2>3. IsFiniteSet(N)
    BY <2>1, <2>2, FS_Subset
  <2>4. N \subseteq AlwaysOn
    OBVIOUS
  <2>5. 0 \in 0..MaxSteps
    BY <2>1
  <2> HIDE DEF N
  <2> QED BY <2>1, <2>3, <2>4, <2>5
<1>4. M = InOrder(N)
  BY DEF Missing
<1>4a. \A m \in AlwaysOn : m \in N <=> \A k \in 1..L : OpOf[s.items[k][1]] # OpOf[m]
  BY <1>2
<1> HIDE DEF N, M, L
<1>5. /\ n \in Nat /\ M \in Seq(AlwaysOn) /\ \A m \in N : \E k \in 1..n : M[k] = m
  <2>1. Enumerates(InOrder(N), Cardinality(N), N)
    BY <1>3, OrderExists
  <2> DEFINE z == Cardinality(N)
  <2>2. z \in Nat /\ M \in [1..z -> N] /\ \A m \in N : \E k \in 1..z : M[k] = m
    BY <1>4, <2>1 DEF Enumerates
  <2> HIDE DEF z
  <2>2a. \A k \in 1..z : M[k] \in AlwaysOn
    BY <1>3, <2>2
  <2>2b. M = [k \in 1..z |-> M[k]]
    BY <2>2
  <2>3. M \in Seq(AlwaysOn) /\ Len(M) = z
    BY <2>2, <2>2a, <2>2b
  <2> QED BY <2>2, <2>3
<1>6. /\ a \in Seq(Pairs) /\ Len(a) = n /\ \A k \in 1..n : a[k] = <<M[k], 0>>
      /\ \A k \in 1..n : M[k] \in AlwaysOn
  <2>1. \A k \in 1..n : M[k] \in AlwaysOn
    BY <1>5
  <2>2. \A k \in 1..n : <<M[k], 0>> \in Pairs
    BY <1>3, <2>1 DEF Pairs
  <2> HIDE DEF n
  <2> QED BY <1>5, <2>1, <2>2
<1> HIDE DEF a, n
<1>7. /\ items \in Seq(Pairs) /\ Len(items) = n + L
      /\ \A k \in 1..n + L : items[k] = IF k =< n THEN a[k] ELSE s.items[k - n]
  <2>1. items \in Seq(Pairs) /\ IsConcat(items, a, Len(a), s.items, Len(s.items))
    BY <1>2, <1>6, ConcatIs
  <2> HIDE DEF items
  <2>2. IsConcat(items, a, n, s.items, L)
    BY <1>6, <2>1 DEF L
  <2> QED BY <2>1, <2>2 DEF IsConcat
<1>8. \A k \in 1..n : k \in 1..n + L /\ items[k] = <<M[k], 0>>
  <2> HIDE DEF items
  <2> QED BY <1>2, <1>5, <1>6, <1>7
<1>9. \A k \in 1..L : k + n \in 1..n + L /\ items[k + n] = s.items[k]
  <2> HIDE DEF items
  <2> TAKE k \in 1..L
  <2>1. k + n \in 1..n + L /\ ~(k + n =< n) /\ (k + n) - n = k
    BY <1>2, <1>5
  <2> QED BY <1>7, <2>1
<1>10. \A k \in 1..n + L : k \in 1..n \/ (k - n \in 1..L /\ (k - n) + n = k)
  BY <1>2, <1>5
<1> HIDE DEF items
<1>11. \A k \in 1..n + L : Item(items[k][1], items[k][2], FALSE) \in HistoryItems
  <2> TAKE k \in 1..n + L
  <2>1. items[k] \in Pairs
    BY <1>2, <1>5, <1>7
  <2>2. items[k][1] \in Instance /\ items[k][2] \in 0..MaxSteps
    BY <2>1 DEF Pairs
  <2> QED BY <2>2 DEF Item, HistoryItems
<1>12. /\ h \in Seq(HistoryItems) /\ Len(h) = n + L /\ n + L \in Nat
       /\ \A k \in 1..n + L : h[k].module = items[k][1]
  <2>1. h = [k \in 1..n + L |-> Item(items[k][1], items[k][2], FALSE)] /\ n + L \in Nat
    BY <1>2, <1>5, <1>7
  <2>3. \A k \in 1..n + L : h[k].module = items[k][1]
    BY <2>1 DEF Item
  <2>4. \A k \in 1..n + L : h[k] = Item(items[k][1], items[k][2], FALSE)
    BY <2>1
  <2>5. \A k \in 1..n + L : h[k] \in HistoryItems
    BY <1>11, <2>4
  <2>6. h = [k \in 1..n + L |-> h[k]]
    BY <2>1
  <2> HIDE DEF h
  <2> DEFINE z == n + L
  <2>7. z \in Nat /\ h = [k \in 1..z |-> h[k]] /\ \A k \in 1..z : h[k] \in HistoryItems
    BY <2>1, <2>5, <2>6
  <2> HIDE DEF z
  <2>8. h \in Seq(HistoryItems) /\ Len(h) = z
    BY <2>7
  <2>2. h \in Seq(HistoryItems) /\ Len(h) = n + L
    BY <2>8 DEF z
  <2> QED BY <2>1, <2>2, <2>3
<1> HIDE DEF h
<1>13. s.end + n \in 0..Len(h)
  BY <1>2, <1>5, <1>12
<1>14. \A k \in 1..n + L :
         \/ h[k].module \in AlwaysOn
         \/ \E i \in 1..L : h[k].module = s.items[i][1]
  <2> TAKE k \in 1..n + L
  <2>1. CASE k \in 1..n
    <3>1. h[k].module = M[k]
      BY <1>8, <1>12, <2>1
    <3> QED BY <1>6, <2>1, <3>1
  <2>2. CASE k - n \in 1..L /\ (k - n) + n = k
    <3>1. items[(k - n) + n] = s.items[k - n]
      BY <1>9, <2>2
    <3> QED BY <1>12, <2>2, <3>1
  <2> QED BY <1>10, <2>1, <2>2
<1>15. AlwaysListed(h)
  <2>1. \A m \in AlwaysOn : \E k \in 1..n + L : OpOf[h[k].module] = OpOf[m]
    <3> TAKE m \in AlwaysOn
    <3>1. CASE m \in N
      <4>1. PICK k \in 1..n : M[k] = m
        BY <1>5, <3>1
      <4>2. k \in 1..n + L /\ h[k].module = m
        BY <1>8, <1>12, <4>1
      <4> QED BY <4>2
    <3>2. CASE m \notin N
      <4>1. PICK k \in 1..L : OpOf[s.items[k][1]] = OpOf[m]
        BY <1>4a, <3>2
      <4> QED BY <1>9, <1>12, <4>1
    <3> QED BY <3>1, <3>2
  <2>2. \A k \in 1..n + L : k =< Len(h)
    BY <1>2, <1>5, <1>12
  <2> QED BY <1>12, <2>1, <2>2 DEF AlwaysListed, Listed
<1>16. Read(s).history = h /\ Read(s).end = s.end + n
  BY <1>1
<1> QED BY <1>12, <1>13, <1>14, <1>15, <1>16 DEF L

(* A recorded state comes back as it was.                                    *)
LEMMA ReadSaved ==
  ASSUME NEW s \in Saved
  PROVE  StateOf(Read(s).history, Read(s).end) = s /\ Stored(s)
<1>1. /\ s = [items |-> s.items, end |-> s.end]
      /\ s.items \in Seq(Instance \X (0..MaxSteps)) /\ s.end \in Nat /\ s.end =< Len(s.items)
      /\ \A m \in AlwaysOn : \E k \in 1..Len(s.items) : OpOf[s.items[k][1]] = OpOf[m]
  BY DEF Saved
<1>2. Stored(s)
  BY <1>1 DEF Stored, Pairs
<1>3. Missing(s.items) = <<>>
  <2> DEFINE N == {m \in AlwaysOn : \A k \in DOMAIN s.items : OpOf[s.items[k][1]] # OpOf[m]}
  <2>1. N = {}
    BY <1>1
  <2>2. Missing(s.items) = InOrder(N)
    BY DEF Missing
  <2> HIDE DEF N
  <2>3. Cardinality(N) = 0
    BY <2>1, FS_EmptySet
  <2> QED BY <2>2, <2>3 DEF InOrder
<1> DEFINE q == s.items
           M == Missing(q)
           items == [k \in 1..Len(M) |-> <<M[k], 0>>] \o q
<1>4. items = q
  <2> DEFINE a == [k \in 1..Len(M) |-> <<M[k], 0>>]
  <2>1. a = <<>>
    BY <1>3
  <2>2. <<>> \o q = q
    BY <1>1, ConcatEmptySeq
  <2> HIDE DEF a, M
  <2> QED BY <2>1, <2>2 DEF a
<1>5. Read(s) = [history |-> [k \in 1..Len(items) |-> Item(items[k][1], items[k][2], FALSE)],
                 end |-> s.end + Len(M)]
  BY DEF Read
<1>6. s.end + Len(M) = s.end
  BY <1>1, <1>3
<1> DEFINE h == [k \in 1..Len(q) |-> Item(q[k][1], q[k][2], FALSE)]
<1>7. Read(s) = [history |-> h, end |-> s.end]
  <2> HIDE DEF items, M
  <2> QED BY <1>4, <1>5, <1>6
<1>8. Len(q) \in Nat /\ \A k \in 1..Len(q) : q[k] = <<q[k][1], q[k][2]>>
  <2>1. \A k \in 1..Len(q) : q[k] \in Instance \X (0..MaxSteps)
    BY <1>1
  <2> QED BY <1>1, <2>1
<1> HIDE DEF q
<1>9. Len(h) = Len(q) /\ \A k \in 1..Len(q) : h[k].module = q[k][1] /\ h[k].value = q[k][2]
  BY <1>8 DEF Item
<1> HIDE DEF h
<1>10. q = [k \in 1..Len(h) |-> <<h[k].module, h[k].value>>]
  <2>1. q = [k \in 1..Len(q) |-> q[k]]
    BY <1>1 DEF q
  <2> QED BY <1>8, <1>9, <2>1
<1>11. StateOf(Read(s).history, Read(s).end) = [items |-> q, end |-> s.end]
  BY <1>7, <1>10 DEF StateOf
<1> QED BY <1>1, <1>2, <1>11 DEF q

(* What is stored after compressing, truncating, or discarding.              *)
IsRewriting(items, h, e) ==
  items \in {Compressed(StateOf(h, e)), SubSeq(StateOf(h, e).items, 1, e), <<>>}

(* A compressed, truncated or deleted history can be read back and names no *)
(* new module.                                                              *)
LEMMA RewrittenFacts ==
  ASSUME NEW h \in Seq(HistoryItems), NEW e \in 0..Len(h),
         NEW items, IsRewriting(items, h, e)
  PROVE  /\ Stored([items |-> items, end |-> Len(items)])
         /\ \A i \in 1..Len(items) : \E k \in 1..Len(h) : items[i][1] = h[k].module
<1> DEFINE q == StateOf(h, e).items
<1>1. /\ q = [k \in 1..Len(h) |-> <<h[k].module, h[k].value>>] /\ StateOf(h, e).end = e
      /\ Len(h) \in Nat /\ e \in Nat /\ e =< Len(h)
  BY DEF StateOf
<1> HIDE DEF q
<1>2. q \in Seq(Pairs) /\ Len(q) = Len(h) /\ \A k \in 1..Len(h) : q[k][1] = h[k].module
  <2>1. \A k \in 1..Len(h) : h[k] \in HistoryItems
    BY <1>1
  <2>2. \A k \in 1..Len(h) : <<h[k].module, h[k].value>> \in Pairs
    BY <2>1 DEF HistoryItems, Pairs
  <2> QED BY <1>1, <2>2
<1>3. CASE items = Compressed(StateOf(h, e))
  <2> DEFINE S == {k \in 1..e : \A i \in k + 1..e : q[i][1] # q[k][1]}
  <2>1. items = Picked(q, S)
    BY <1>1, <1>3 DEF Compressed, q
  <2>2. S \subseteq DOMAIN q
    BY <1>1, <1>2
  <2>3. S \subseteq 1..Len(h)
    BY <1>1
  <2> HIDE DEF S
  <2>4. /\ items \in Seq(Pairs) /\ Len(items) = Cardinality(S)
        /\ \A i \in 1..Cardinality(S) : InOrder(S)[i] \in S /\ items[i] = q[InOrder(S)[i]]
    BY <1>2, <2>1, <2>2, PickedFacts
  <2>5. \A i \in 1..Len(items) : \E k \in 1..Len(h) : items[i][1] = h[k].module
    <3> TAKE i \in 1..Len(items)
    <3>1. InOrder(S)[i] \in S /\ items[i] = q[InOrder(S)[i]]
      BY <2>4
    <3>2. PICK k \in 1..Len(h) : items[i] = q[k]
      BY <2>3, <3>1
    <3> QED BY <1>2, <3>2
  <2> QED BY <2>4, <2>5 DEF Stored
<1>4. CASE items = SubSeq(StateOf(h, e).items, 1, e)
  <2>1. items = SubSeq(q, 1, e)
    BY <1>4 DEF q
  <2>2. \A k \in 1..e : q[k] \in Pairs
    BY <1>1, <1>2
  <2>2a. q \in Seq(Pairs) /\ 1 \in 1..Len(q) + 1 /\ e \in 0..Len(q)
    BY <1>1, <1>2
  <2>3a. /\ SubSeq(q, 1, e) \in Seq(Pairs)
         /\ Len(SubSeq(q, 1, e)) = IF 1 =< e THEN e - 1 + 1 ELSE 0
         /\ \A k \in 1..e - 1 + 1 : SubSeq(q, 1, e)[k] = q[1 + k - 1]
    BY <2>2a, SubSeqProperties
  <2>3. /\ items \in Seq(Pairs) /\ Len(items) = IF 1 =< e THEN e - 1 + 1 ELSE 0
        /\ \A k \in 1..e - 1 + 1 : items[k] = q[1 + k - 1]
    BY <2>1, <2>3a
  <2>4. Len(items) = e /\ \A k \in 1..e : 1 + k - 1 = k /\ k \in 1..e - 1 + 1
    BY <1>1, <2>3
  <2>5. \A i \in 1..Len(items) : \E k \in 1..Len(h) : items[i][1] = h[k].module
    <3> TAKE i \in 1..Len(items)
    <3>0. i \in 1..e /\ 1 + i - 1 = i /\ i \in 1..e - 1 + 1
      BY <2>4
    <3>0a. items[i] = q[1 + i - 1]
      BY <2>3, <3>0
    <3>1. items[i] = q[i] /\ i \in 1..Len(h)
      BY <1>1, <3>0, <3>0a
    <3> QED BY <1>2, <3>1
  <2> QED BY <2>3, <2>5 DEF Stored
<1>5. CASE items = <<>>
  <2>1. items \in Seq(Pairs) /\ Len(items) = 0
    BY <1>5
  <2> QED BY <2>1 DEF Stored
<1> QED BY <1>3, <1>4, <1>5 DEF IsRewriting

-----------------------------------------------------------------------------
(* The invariant: what is in the darkroom, what the controls show, the undo  *)
(* lists, the groups on them, and that going on with a control after the     *)
(* future was dropped is all that makes no record.                           *)
DevInv ==
  /\ history \in Seq(HistoryItems) /\ end \in 0..Len(history) /\ AlwaysListed(history)
  /\ \A k \in 1..Len(history) : history[k].module \in present
  /\ Base \subseteq present /\ present \subseteq Instance
  /\ params \in [Instance -> 0..MaxSteps] /\ focus \in BOOLEAN
  /\ copying \in {Nobody} \cup (Copy \cap present)
  /\ steps \in 0..MaxSteps /\ now \in Nat
  /\ level = 0 /\ recording = TRUE
Shows == \A m \in present \ (AlwaysOn \cup {copying}) : params[m] = Shown(history, end)[m]
GroupsInv == ~disturbed => Grouped(lists)
TargetInv == GuiWaits /\ target # Nobody => Snapshots(lists.redo) = <<>>
HistoryInv ==
  /\ DevInv /\ Shows
  /\ job \in {"new", "open", "done"} /\ ListsInv(lists, job) /\ disturbed \in BOOLEAN
  /\ GroupsInv /\ TargetInv

(* Under the invariant the state at hand may be recorded and the lists are  *)
(* lists of entries.                                                        *)
LEMMA InvState ==
  ASSUME HistoryInv
  PROVE  /\ State \in Saved /\ State = StateOf(history, end) /\ ListsType(lists)
         /\ lists.undo \in Seq(Entries) /\ lists.redo \in Seq(Entries)
<1>1. history \in Seq(HistoryItems) /\ end \in 0..Len(history) /\ AlwaysListed(history)
  BY DEF HistoryInv, DevInv
<1>2. StateOf(history, end) \in Saved
  BY <1>1, SavedState
<1>3. ListsType(lists)
  BY DEF HistoryInv, ListsInv
<1> QED BY <1>2, <1>3, StateIs DEF ListsType

(* The steps that put an item into the history.                              *)
LEMMA AddedStep ==
  ASSUME HistoryInv, NEW m \in present, NEW v \in 0..MaxSteps, NEW f \in BOOLEAN,
         Takes(Added(history, end, m, v, f))
  PROVE  /\ history' \in Seq(HistoryItems) /\ end' \in 0..Len(history')
         /\ AlwaysListed(history') /\ Shown(history', end')[m] = v
         /\ \A x \in Instance \ (AlwaysOn \cup {m}) :
              Shown(history', end')[x] = Shown(history, end)[x]
         /\ \A k \in 1..Len(history') : history'[k].module \in present
<1>1. /\ history \in Seq(HistoryItems) /\ end \in 0..Len(history) /\ AlwaysListed(history)
      /\ \A k \in 1..Len(history) : history[k].module \in present
      /\ m \in Instance
  BY DEF HistoryInv, DevInv
<1> DEFINE new == Added(history, end, m, v, f)
<1>2. /\ new.history \in Seq(HistoryItems) /\ new.end \in 0..Len(new.history)
      /\ AlwaysListed(new.history)
      /\ Shown(new.history, new.end)[m] = v
      /\ \A x \in Instance \ (AlwaysOn \cup {m}) :
           Shown(new.history, new.end)[x] = Shown(history, end)[x]
      /\ \A k \in 1..Len(new.history) :
           \/ new.history[k].module = m
           \/ \E i \in 1..Len(history) : new.history[k].module = history[i].module
  BY <1>1, AddedFacts
<1>3. history' = new.history /\ end' = new.end
  BY DEF Takes
<1> HIDE DEF new
<1>4. \A k \in 1..Len(new.history) : new.history[k].module \in present
  BY <1>1, <1>2
<1> QED BY <1>2, <1>3, <1>4

(* The steps that read a history: the stored items come back, and what they  *)
(* show is what the controls show.                                           *)
LEMMA ReloadedStep ==
  ASSUME NEW s, Stored(s), Reloaded(s)
  PROVE  /\ history' \in Seq(HistoryItems) /\ end' \in 0..Len(history')
         /\ AlwaysListed(history') /\ params' = Shown(history', end')
         /\ params' \in [Instance -> 0..MaxSteps] /\ focus' = FALSE /\ target' = Nobody
         /\ \A k \in 1..Len(history') :
              \/ history'[k].module \in AlwaysOn
              \/ \E i \in 1..Len(s.items) : history'[k].module = s.items[i][1]
<1> DEFINE r == Read(s)
<1>1. /\ r.history \in Seq(HistoryItems) /\ r.end \in 0..Len(r.history)
      /\ AlwaysListed(r.history)
      /\ \A k \in 1..Len(r.history) :
           \/ r.history[k].module \in AlwaysOn
           \/ \E i \in 1..Len(s.items) : r.history[k].module = s.items[i][1]
  BY ReadFacts
<1>2. /\ history' = r.history /\ end' = r.end /\ params' = Shown(history', end')
      /\ focus' = FALSE /\ target' = Nobody
  BY DEF Reloaded, Takes
<1> HIDE DEF r
<1>3. Shown(r.history, r.end) \in [Instance -> 0..MaxSteps]
  BY <1>1, ShownType
<1> QED BY <1>1, <1>2, <1>3

(* The bound on the steps bounds the values.                                *)
LEMMA CountedStep ==
  ASSUME DevInv, Counted PROVE steps' \in 0..MaxSteps /\ steps + 1 \in 0..MaxSteps
<1>1. MaxSteps \in Nat /\ steps \in 0..MaxSteps /\ steps < MaxSteps /\ steps' = steps + 1
  BY HistoryAssumption DEF DevInv, Counted
<1> QED BY <1>1

(* An edit: the controls show the history, whether the item is new or the   *)
(* last one.                                                                *)
LEMMA EditDev ==
  ASSUME HistoryInv, NEW m \in Instance, NEW control \in BOOLEAN, Edit(m, control)
  PROVE  (DevInv /\ Shows)'
<1>1. /\ m \in present /\ steps' \in 0..MaxSteps /\ steps + 1 \in 0..MaxSteps /\ 0 \in 0..MaxSteps
      /\ focus' \in BOOLEAN
  <2>1. m \in present /\ Counted /\ focus' \in {focus, TRUE} /\ focus \in BOOLEAN /\ DevInv
    BY DEF Edit, GuiStep, HistoryInv, DevInv
  <2>2. steps' \in 0..MaxSteps /\ steps + 1 \in 0..MaxSteps
    BY <2>1, CountedStep
  <2>3. 0 \in 0..MaxSteps
    BY HistoryAssumption
  <2> QED BY <2>1, <2>2, <2>3
<1>2. level' = level /\ recording' = TRUE
  BY DEF Edit, Bracketed, libVars, HistoryInv, DevInv
<1>3. PICK v \in 0..MaxSteps, f \in BOOLEAN :
        /\ f = focus' /\ params' = [params EXCEPT ![m] = v]
        /\ Takes(Added(history, end, m, v, f))
  BY <1>1 DEF Edit
<1>4. /\ history' \in Seq(HistoryItems) /\ end' \in 0..Len(history')
      /\ AlwaysListed(history') /\ Shown(history', end')[m] = v
      /\ \A x \in Instance \ (AlwaysOn \cup {m}) :
           Shown(history', end')[x] = Shown(history, end)[x]
      /\ \A k \in 1..Len(history') : history'[k].module \in present
  BY <1>1, <1>3, AddedStep
<1>5. UNCHANGED <<present, copying, now>>
  BY DEF Edit
<1>6. /\ Base \subseteq present /\ present \subseteq Instance
      /\ params \in [Instance -> 0..MaxSteps]
      /\ copying \in {Nobody} \cup (Copy \cap present) /\ now \in Nat /\ level = 0
      /\ \A x \in present \ (AlwaysOn \cup {copying}) : params[x] = Shown(history, end)[x]
  BY DEF HistoryInv, DevInv, Shows
<1>7. params' \in [Instance -> 0..MaxSteps] /\ params'[m] = v
      /\ \A x \in Instance \ {m} : params'[x] = params[x]
  BY <1>3, <1>6
<1>8. DevInv'
  BY <1>1, <1>2, <1>4, <1>5, <1>6, <1>7 DEF DevInv
<1>9. Shows'
  BY <1>4, <1>5, <1>6, <1>7 DEF Shows
<1> QED BY <1>8, <1>9

(* A duplication lists the base; the copy is about to be listed.            *)
LEMMA DuplicateDev ==
  ASSUME HistoryInv, NEW m \in Base, NEW c \in Copy, Duplicate(m, c)
  PROVE  (DevInv /\ Shows)'
<1>1. /\ Base \subseteq present /\ present \subseteq Instance
      /\ params \in [Instance -> 0..MaxSteps] /\ focus \in BOOLEAN
      /\ copying = Nobody /\ now \in Nat /\ level = 0
      /\ \A x \in present \ AlwaysOn : params[x] = Shown(history, end)[x]
      /\ m \in present /\ c \in Instance \ present
  <2>1. copying = Nobody /\ m \in present /\ c \in Copy \ present
    BY DEF Duplicate, GuiStep
  <2>2. Nobody \notin present /\ c \in Instance
    BY <2>1, HistoryAssumption DEF HistoryInv, DevInv
  <2> QED BY <2>1, <2>2 DEF HistoryInv, DevInv, Shows
<1>2. PICK v \in 0..MaxSteps, f \in BOOLEAN :
        v = params[m] /\ f = focus /\ Takes(Added(history, end, m, v, f))
  BY <1>1 DEF Duplicate
<1>3. /\ history' \in Seq(HistoryItems) /\ end' \in 0..Len(history')
      /\ AlwaysListed(history') /\ Shown(history', end')[m] = v
      /\ \A x \in Instance \ (AlwaysOn \cup {m}) :
           Shown(history', end')[x] = Shown(history, end)[x]
      /\ \A k \in 1..Len(history') : history'[k].module \in present
  BY <1>1, <1>2, AddedStep
<1>4. steps' \in 0..MaxSteps
  BY CountedStep DEF Duplicate, GuiStep, HistoryInv
<1>5. /\ UNCHANGED <<focus, now, level>> /\ recording' = TRUE
      /\ present' = present \cup {c} /\ copying' = c
  BY DEF Duplicate, Bracketed
<1>6. /\ params' \in [Instance -> 0..MaxSteps]
      /\ \A x \in Instance \ {c} : params'[x] = params[x]
  <2>1. 0 \in 0..MaxSteps /\ params[m] \in 0..MaxSteps
    BY <1>1, HistoryAssumption
  <2>2. PICK w \in {0, params[m]} : params' = [params EXCEPT ![c] = w]
    BY DEF Duplicate
  <2> QED BY <1>1, <2>1, <2>2
<1>7. DevInv'
  <2>1. c \in Copy \cap present'
    BY <1>5
  <2> QED BY <1>1, <1>3, <1>4, <1>5, <1>6, <2>1 DEF DevInv
<1>8. Shows'
  <2>1. \A x \in present \ AlwaysOn : params'[x] = params[x]
    BY <1>1, <1>6
  <2>2. \A x \in present \ AlwaysOn : params[x] = Shown(history', end')[x]
    BY <1>1, <1>2, <1>3
  <2> QED BY <1>5, <2>1, <2>2 DEF Shows
<1> QED BY <1>7, <1>8

(* Then the copy is listed, and its controls show its item.                 *)
LEMMA ListCopyDev ==
  ASSUME HistoryInv, ListCopy PROVE (DevInv /\ Shows)'
<1>1. /\ Base \subseteq present /\ present \subseteq Instance
      /\ params \in [Instance -> 0..MaxSteps] /\ focus \in BOOLEAN
      /\ copying \in Copy \cap present /\ now \in Nat /\ level = 0 /\ steps \in 0..MaxSteps
      /\ \A x \in present \ (AlwaysOn \cup {copying}) : params[x] = Shown(history, end)[x]
  BY DEF HistoryInv, DevInv, Shows, ListCopy
<1>2. PICK m \in present, v \in 0..MaxSteps, f \in BOOLEAN :
        m = copying /\ v = params[m] /\ f = focus /\ Takes(Added(history, end, m, v, f))
  BY <1>1 DEF ListCopy
<1>3. /\ history' \in Seq(HistoryItems) /\ end' \in 0..Len(history')
      /\ AlwaysListed(history') /\ Shown(history', end')[m] = v
      /\ \A x \in Instance \ (AlwaysOn \cup {m}) :
           Shown(history', end')[x] = Shown(history, end)[x]
      /\ \A k \in 1..Len(history') : history'[k].module \in present
  BY <1>1, <1>2, AddedStep
<1>4. /\ UNCHANGED <<params, present, steps, now, level>> /\ recording' = TRUE
      /\ focus' = TRUE /\ copying' = Nobody
  BY DEF ListCopy, Bracketed
<1>5. DevInv'
  BY <1>1, <1>3, <1>4 DEF DevInv
<1>6. Shows'
  <2>1. \A x \in present \ AlwaysOn : params[x] = Shown(history', end')[x]
    BY <1>1, <1>2, <1>3
  <2> QED BY <1>4, <2>1 DEF Shows
<1> QED BY <1>5, <1>6

(* A copy all of whose items are active is removed with them.               *)
LEMMA DeleteDev ==
  ASSUME HistoryInv, RemoveListedOnly, NEW c \in Copy, DeleteCopy(c)
  PROVE  (DevInv /\ Shows)'
<1> DEFINE of == {k \in DOMAIN history : history[k].module = c}
           l == Removed(history, end, c).history
           d == Removed(history, end, c).end
<1>1. /\ history \in Seq(HistoryItems) /\ end \in 0..Len(history) /\ AlwaysListed(history)
      /\ \A k \in 1..Len(history) : history[k].module \in present
      /\ Base \subseteq present /\ present \subseteq Instance
      /\ params \in [Instance -> 0..MaxSteps] /\ now \in Nat /\ level = 0
  BY DEF HistoryInv, DevInv
<1>2. /\ copying = Nobody /\ Counted /\ of # {} /\ \A k \in of : k =< end
      /\ level' = IF of = {} THEN level + 1 ELSE level
      /\ recording' = TRUE /\ history' = l /\ end' = d
      /\ present' = present \ {c} /\ focus' = TRUE
      /\ UNCHANGED <<params, copying, now>>
  BY DEF DeleteCopy, GuiStep, ItemsOf, Removed
<1>3. \A x \in present \ AlwaysOn : params[x] = Shown(history, end)[x]
  <2>1. Nobody \notin present
    BY <1>1, HistoryAssumption
  <2> QED BY <1>2, <2>1 DEF HistoryInv, Shows
<1>4. steps' \in 0..MaxSteps
  BY <1>2, CountedStep DEF HistoryInv
<1>5. of = ItemsOf(history, c)
  BY DEF ItemsOf
<1> HIDE DEF of
<1>6. /\ l \in Seq(HistoryItems) /\ d \in 0..Len(l) /\ AlwaysListed(l)
      /\ \A x \in Instance \ {c} : Shown(l, d)[x] = Shown(history, end)[x]
      /\ \A k \in 1..Len(l) : l[k].module # c /\ \E i \in 1..Len(history) : l[k].module = history[i].module
  <2>1. AllActive(history, end, c)
    BY <1>2, <1>5 DEF AllActive
  <2>2. /\ history \in Seq(HistoryItems) /\ end \in 0..Len(history) /\ AlwaysListed(history)
        /\ c \in Copy
    BY <1>1
  <2> QED BY <2>1, <2>2, RemovedFacts
<1> HIDE DEF l, d
<1>7. \A k \in 1..Len(l) : l[k].module \in present \ {c}
  BY <1>1, <1>6
<1>8. Base \subseteq present \ {c}
  BY <1>1 DEF Base
<1>9. DevInv'
  BY <1>1, <1>2, <1>4, <1>6, <1>7, <1>8 DEF DevInv
<1>10. Shows'
  BY <1>1, <1>2, <1>3, <1>6 DEF Shows
<1> QED BY <1>9, <1>10

(* A click shows the state clicked.                                         *)
LEMMA ClickDev ==
  ASSUME HistoryInv, NEW n \in 0..Len(history), Click(n) PROVE (DevInv /\ Shows)'
<1>1. /\ history \in Seq(HistoryItems) /\ n \in 0..Len(history) /\ AlwaysListed(history)
  BY DEF HistoryInv, DevInv
<1>2. Shown(history, n) \in [Instance -> 0..MaxSteps]
  BY <1>1, ShownType
<1>3. /\ end' = n /\ params' = Shown(history, n) /\ recording' = TRUE
      /\ UNCHANGED <<history, present, focus, copying, now, level>> /\ Counted
  BY DEF Click, Bracketed, GuiStep
<1>4. steps' \in 0..MaxSteps
  BY <1>3, CountedStep DEF HistoryInv
<1>5. DevInv'
  BY <1>1, <1>2, <1>3, <1>4 DEF HistoryInv, DevInv
<1>6. Shows'
  BY <1>3 DEF Shows
<1> QED BY <1>5, <1>6

(* Compressing, truncating and discarding read the history back.            *)
LEMMA RewrittenDev ==
  ASSUME HistoryInv, Counted, UNCHANGED <<present, copying, now, level>>, recording' = TRUE,
         NEW items, items \in {Compressed(State), SubSeq(State.items, 1, end), <<>>},
         Rewritten(items)
  PROVE  (DevInv /\ Shows)'
<1> DEFINE s == [items |-> items, end |-> Len(items)]
<1>1. /\ history \in Seq(HistoryItems) /\ end \in 0..Len(history)
      /\ \A k \in 1..Len(history) : history[k].module \in present
      /\ Base \subseteq present /\ present \subseteq Instance /\ AlwaysOn \subseteq Base
      /\ copying \in {Nobody} \cup (Copy \cap present) /\ now \in Nat /\ level = 0
  BY HistoryAssumption DEF HistoryInv, DevInv
<1>2. IsRewriting(items, history, end)
  BY StateIs DEF IsRewriting
<1>3. Stored(s) /\ \A i \in 1..Len(items) : \E k \in 1..Len(history) : items[i][1] = history[k].module
  BY <1>1, <1>2, RewrittenFacts
<1>4. s.items = items /\ Reloaded(s) /\ Stored(s)
  BY <1>3 DEF Rewritten
<1> HIDE DEF s
<1>5. /\ history' \in Seq(HistoryItems) /\ end' \in 0..Len(history')
      /\ AlwaysListed(history') /\ params' = Shown(history', end')
      /\ params' \in [Instance -> 0..MaxSteps] /\ focus' = FALSE /\ target' = Nobody
      /\ \A k \in 1..Len(history') :
           \/ history'[k].module \in AlwaysOn
           \/ \E i \in 1..Len(s.items) : history'[k].module = s.items[i][1]
  BY <1>4, ReloadedStep
<1>6. \A k \in 1..Len(history') : history'[k].module \in present
  <2> TAKE k \in 1..Len(history')
  <2>1. CASE history'[k].module \in AlwaysOn
    BY <1>1, <2>1
  <2>2. CASE \E i \in 1..Len(s.items) : history'[k].module = s.items[i][1]
    <3>1. PICK i \in 1..Len(items) : history'[k].module = items[i][1]
      BY <1>4, <2>2
    <3> QED BY <1>1, <1>3, <3>1
  <2> QED BY <1>5, <2>1, <2>2
<1>7. steps' \in 0..MaxSteps
  BY CountedStep DEF HistoryInv
<1>8. DevInv'
  BY <1>1, <1>5, <1>6, <1>7 DEF DevInv
<1>9. Shows'
  BY <1>5 DEF Shows
<1> QED BY <1>8, <1>9

(* Undo and redo read a recorded state back, and the instances follow the   *)
(* history.                                                                 *)
LEMMA RestoredDev ==
  ASSUME HistoryInv, GuiStep, UNCHANGED <<copying, now, level>>,
         NEW block \in Seq(Entries), Restore(block)
  PROVE  (DevInv /\ Shows)'
<1>1. /\ Base \subseteq Instance /\ AlwaysOn \subseteq Base /\ copying = Nobody /\ Counted
      /\ now \in Nat /\ level = 0
  BY HistoryAssumption DEF HistoryInv, DevInv, GuiStep, Base
<1>2. steps' \in 0..MaxSteps
  BY <1>1, CountedStep DEF HistoryInv
<1>3. CASE Edits(block) = {}
  <2>1. UNCHANGED <<history, end, params, present, focus, recording, copying, now, level>>
    BY <1>3 DEF Restore
  <2>2. DevInv'
    BY <1>2, <2>1 DEF HistoryInv, DevInv
  <2>3. Shows'
    BY <2>1 DEF HistoryInv, Shows
  <2> QED BY <2>2, <2>3
<1>4. CASE Edits(block) # {}
  <2> DEFINE s == block[Max(Edits(block))].item.was
  <2>1. /\ Reloaded(s) /\ present' = Base \cup {history'[k].module : k \in DOMAIN history'}
        /\ recording' = TRUE
    BY <1>4 DEF Restore
  <2>2. s \in Saved
    BY <1>4, LastSnapshot, EditsOf
  <2> HIDE DEF s
  <2>3. Stored(s)
    BY <2>2, ReadSaved
  <2>4. /\ history' \in Seq(HistoryItems) /\ end' \in 0..Len(history')
        /\ AlwaysListed(history') /\ params' = Shown(history', end')
        /\ params' \in [Instance -> 0..MaxSteps] /\ focus' = FALSE
    BY <2>1, <2>3, ReloadedStep
  <2>5. \A k \in 1..Len(history') : history'[k] \in HistoryItems
    BY <2>4
  <2>6. \A k \in 1..Len(history') : history'[k].module \in Instance
    BY <2>5 DEF HistoryItems
  <2>7. /\ Base \subseteq present' /\ present' \subseteq Instance
        /\ \A k \in 1..Len(history') : history'[k].module \in present'
    <3>1. DOMAIN history' = 1..Len(history')
      BY <2>4
    <3> QED BY <1>1, <2>1, <2>6, <3>1
  <2>8. DevInv'
    BY <1>1, <1>2, <2>1, <2>4, <2>7 DEF DevInv
  <2>9. Shows'
    BY <2>4 DEF Shows
  <2> QED BY <2>8, <2>9
<1> QED BY <1>3, <1>4

(* Another image starts with the defaults.                                  *)
LEMMA ImageDev ==
  ASSUME HistoryInv, ChangeImage PROVE (DevInv /\ Shows)'
<1> DEFINE s == [items |-> <<>>, end |-> 0]
<1>1. /\ Base \subseteq Instance /\ AlwaysOn \subseteq Base /\ copying = Nobody /\ Counted
      /\ now \in Nat /\ level = 0 /\ UNCHANGED <<copying, now, level>>
      /\ Reloaded(s) /\ present' = Base /\ recording' = TRUE
  BY HistoryAssumption DEF HistoryInv, DevInv, GuiStep, Base, ChangeImage
<1>2. steps' \in 0..MaxSteps
  BY <1>1, CountedStep DEF HistoryInv
<1>3. Stored(s) /\ Len(s.items) = 0
  BY DEF Stored
<1> HIDE DEF s
<1>4. /\ history' \in Seq(HistoryItems) /\ end' \in 0..Len(history')
      /\ AlwaysListed(history') /\ params' = Shown(history', end')
      /\ params' \in [Instance -> 0..MaxSteps] /\ focus' = FALSE
      /\ \A k \in 1..Len(history') :
           \/ history'[k].module \in AlwaysOn
           \/ \E i \in 1..Len(s.items) : history'[k].module = s.items[i][1]
  BY <1>1, <1>3, ReloadedStep
<1>5. \A k \in 1..Len(history') : history'[k].module \in Base
  BY <1>1, <1>3, <1>4
<1>6. DevInv'
  BY <1>1, <1>2, <1>4, <1>5 DEF DevInv
<1>7. Shows'
  BY <1>4 DEF Shows
<1> QED BY <1>6, <1>7

(* What leaves the darkroom alone.                                           *)
LEMMA SameDev ==
  ASSUME HistoryInv, UNCHANGED <<devVars, libVars>>, steps' \in 0..MaxSteps, now' \in Nat
  PROVE  (DevInv /\ Shows)'
<1>1. UNCHANGED <<history, end, params, present, focus, copying, level, recording>>
  BY DEF devVars, libVars
<1>2. DevInv'
  BY <1>1 DEF HistoryInv, DevInv
<1>3. Shows'
  BY <1>1 DEF HistoryInv, Shows
<1> QED BY <1>2, <1>3

(* Every step keeps what is said of the history and of the controls.        *)
LEMMA DevStep ==
  ASSUME HistoryInv, RemoveListedOnly, [HistoryNext]_historyVars
  PROVE  (DevInv /\ Shows)'
<1>0. DevInv /\ now \in Nat /\ steps \in 0..MaxSteps /\ level = 0 /\ recording = TRUE
  BY DEF HistoryInv, DevInv
<1>1. CASE UNCHANGED historyVars
  BY <1>0, <1>1, SameDev DEF historyVars
<1>2. CASE Gui
  <2>1. ASSUME NEW m \in Instance, NEW control \in BOOLEAN, Edit(m, control)
        PROVE  (DevInv /\ Shows)'
    BY <2>1, EditDev
  <2>2. CASE Discard
    <3>1. Counted /\ Rewritten(<<>>) /\ UNCHANGED <<present, copying, now, level>> /\ recording' = TRUE
      BY <2>2 DEF Discard, GuiStep, Bracketed
    <3> QED BY <3>1, RewrittenDev
  <2>3. CASE Undo
    <3>1. /\ GuiStep /\ FirstMoved(lists.undo) # 0 /\ Restore(Block(lists.undo))
          /\ UNCHANGED <<copying, level, now>>
      BY <2>3 DEF Undo
    <3>2. PICK block \in Seq(Entries) : Restore(block)
      BY <3>1, InvState, MoveSnapshots
    <3> QED BY <3>1, <3>2, RestoredDev
  <2>4. CASE Redo
    <3>1. /\ GuiStep /\ FirstMoved(lists.redo) # 0 /\ Restore(Block(lists.redo))
          /\ UNCHANGED <<copying, level, now>>
      BY <2>4 DEF Redo
    <3>2. PICK block \in Seq(Entries) : Restore(block)
      BY <3>1, InvState, MoveSnapshots
    <3> QED BY <3>1, <3>2, RestoredDev
  <2>5. CASE ChangeImage
    BY <2>5, ImageDev
  <2>6. CASE ListCopy
    BY <2>6, ListCopyDev
  <2>7. ASSUME NEW m \in Base, NEW c \in Copy, Duplicate(m, c) PROVE (DevInv /\ Shows)'
    BY <2>7, DuplicateDev
  <2>8. ASSUME NEW c \in Copy, DeleteCopy(c) PROVE (DevInv /\ Shows)'
    BY <2>8, DeleteDev
  <2>9. ASSUME NEW n \in 0..Len(history), Click(n) PROVE (DevInv /\ Shows)'
    BY <2>9, ClickDev
  <2>10. ASSUME NEW items, items \in {Compressed(State), SubSeq(State.items, 1, end)},
                Truncate(items)
         PROVE  (DevInv /\ Shows)'
    <3>1. /\ Counted /\ Rewritten(items) /\ UNCHANGED <<present, copying, now, level>>
          /\ recording' = TRUE
      BY <2>10 DEF Truncate, GuiStep
    <3> QED BY <2>10, <3>1, RewrittenDev
  <2>11. ASSUME NEW type \in RatedTypes, Rate(type) PROVE (DevInv /\ Shows)'
    <3>1. Counted /\ UNCHANGED <<devVars, libVars, now>>
      BY <2>11 DEF Rate, GuiStep
    <3> QED BY <1>0, <3>1, CountedStep, SameDev
  <2>12. Truncate(Compressed(State)) \/ Truncate(SubSeq(State.items, 1, end)) => (DevInv /\ Shows)'
    <3>1. ASSUME Truncate(Compressed(State)) PROVE (DevInv /\ Shows)'
      <4>1. PICK items : items = Compressed(State) /\ Truncate(items)
        BY <3>1
      <4> QED BY <2>10, <4>1
    <3>2. ASSUME Truncate(SubSeq(State.items, 1, end)) PROVE (DevInv /\ Shows)'
      <4>1. PICK items : items = SubSeq(State.items, 1, end) /\ Truncate(items)
        BY <3>2
      <4> QED BY <2>10, <4>1
    <3> QED BY <3>1, <3>2
  <2> QED BY <1>2, <2>1, <2>2, <2>3, <2>4, <2>5, <2>6, <2>7, <2>8, <2>9, <2>11, <2>12 DEF Gui
<1>3. CASE Job
  <2>1. Counted /\ UNCHANGED <<devVars, libVars, now>>
    BY <1>3 DEF Job, JobStart, JobRecord, JobDisable, JobEnd, JobStep
  <2> QED BY <1>0, <2>1, CountedStep, SameDev
<1>4. CASE Tick
  <2>1. Counted /\ UNCHANGED <<devVars, libVars>> /\ now' = now + 1
    BY <1>4 DEF Tick
  <2> QED BY <1>0, <2>1, CountedStep, SameDev
<1> QED BY <1>1, <1>2, <1>3, <1>4 DEF HistoryNext

(* The will-change signal between two handlers: the state is recorded, and   *)
(* there is no future any more, but for the one record a job suppresses.     *)
LEMMA WillFacts ==
  ASSUME HistoryInv
  PROVE  LET u == WillChange(lists) IN
         /\ ListsInv(u, job) /\ u.disable = FALSE
         /\ ~disturbed => Grouped(u)
         /\ lists.disable => u.undo = lists.undo /\ u.redo = lists.redo
         /\ ~lists.disable => /\ Snapshots(u.undo) = <<State>> \o Snapshots(lists.undo)
                              /\ u.redo = <<>>
<1> DEFINE u == WillChange(lists)
           i == Snapshot(State)
<1>1. /\ ListsInv(lists, job) /\ ListsType(lists) /\ State \in Saved /\ now \in Nat
      /\ level = 0 /\ recording = TRUE
  BY InvState DEF HistoryInv, DevInv
<1>2. i \in UndoItems /\ i.kind = "edit" /\ i.type = "HISTORY" /\ i.was = State
  BY <1>1, NewItems
<1>3. u = Recorded(lists, i, now)
  BY <1>1 DEF WillChange
<1> HIDE DEF u, i
<1>4. /\ ListsType(u) /\ u.group = lists.group /\ u.indent = lists.indent /\ u.disable = FALSE
      /\ lists.disable => u.undo = lists.undo /\ u.redo = lists.redo
      /\ ~lists.disable => u.redo = <<>>
  BY <1>1, <1>2, <1>3, RecordedFacts
<1>5. ListsInv(u, job)
  BY <1>1, <1>4 DEF ListsInv
<1>6. ~lists.disable => Snapshots(u.undo) = <<State>> \o Snapshots(lists.undo)
  BY <1>1, <1>2, <1>3, RecordedSnapshots
<1>7. ~disturbed => Grouped(u)
  <2>1. "HISTORY" \in Develop /\ "LT_HISTORY" \in Develop
    BY DEF Develop
  <2>2. lists.indent > 0 => lists.group = "LT_HISTORY"
    BY <1>1 DEF ListsInv
  <2>3. i.kind # "mark" /\ (lists.indent > 0 => (i.type \in Develop <=> lists.group \in Develop))
    BY <1>2, <2>1, <2>2
  <2>4. Grouped(lists) => Grouped(u)
    BY <1>1, <1>2, <1>3, <2>3, RecordedGrouped
  <2> QED BY <2>4 DEF HistoryInv, GroupsInv
<1> QED BY <1>4, <1>5, <1>6, <1>7 DEF u

(* What a move does to the states on the two lists.                          *)
LEMMA MoveFacts ==
  ASSUME State \in Saved, NEW from \in Seq(Entries), FirstMoved(from) # 0,
         NEW to \in Seq(Entries)
  PROVE  /\ Block(from) \in Seq(Entries)
         /\ Rest(from) \in Seq(Entries) /\ Moved(Block(from)) \o to \in Seq(Entries)
         /\ Snapshots(from) = Snapshots(Block(from)) \o Snapshots(Rest(from))
         /\ Snapshots(Moved(Block(from)) \o to)
              = Carried(Snapshots(Block(from)), State) \o Snapshots(to)
<1> DEFINE B == Block(from)
           M == Moved(B)
           s == Snapshots(B)
           C == Carried(s, State)
<1>1. /\ B \in Seq(Entries) /\ Rest(from) \in Seq(Entries)
      /\ Snapshots(from) = s \o Snapshots(Rest(from))
  BY MoveSnapshots
<1> HIDE DEF B
<1>2. /\ M \in Seq(Entries) /\ s \in Seq(Saved) /\ Snapshots(M) \in Seq(Saved)
      /\ Len(Snapshots(M)) = Len(s)
      /\ \A k \in 1..Len(s) : Snapshots(M)[k] = IF k = Len(s) THEN State ELSE s[Len(s) - k]
  BY <1>1, MovedFacts, MovedSnapshots, SnapshotsType
<1> HIDE DEF M, s
<1>2a. s \in Seq(Saved) /\ State \in Saved
  BY <1>2
<1>3. /\ C \in Seq(Saved) /\ Len(C) = Len(s)
      /\ \A k \in 1..Len(s) : C[k] = IF k = Len(s) THEN State ELSE s[Len(s) - k]
  BY <1>2a, CarriedType
<1> HIDE DEF C
<1>4. Snapshots(M) = C
  <2> DEFINE t == Snapshots(M)
  <2>1. t \in Seq(Saved) /\ Len(t) = Len(C) /\ \A k \in 1..Len(t) : t[k] = C[k]
    BY <1>2, <1>3
  <2> HIDE DEF t
  <2>2. t = C
    BY <1>3, <2>1, SeqEqual
  <2> QED BY <2>2 DEF t
<1>5. Snapshots(M \o to) = C \o Snapshots(to)
  BY <1>2, <1>4, SnapshotsConcat
<1>6. M \o to \in Seq(Entries)
  BY <1>2, ConcatProperties
<1> QED BY <1>1, <1>5, <1>6 DEF B, M, s, C

(* Of no states none are carried.                                           *)
LEMMA CarriedNothing ==
  ASSUME NEW s, s = <<>>, NEW d PROVE Carried(s, d) = <<>>
BY DEF Carried

(* What a move leaves of the groups.                                         *)
LEMMA MovedLists ==
  ASSUME HistoryInv, NEW v,
         \/ /\ FirstMoved(lists.undo) # 0
            /\ v = [lists EXCEPT !.undo = Rest(@), !.redo = Moved(Block(lists.undo)) \o @]
         \/ /\ FirstMoved(lists.redo) # 0
            /\ v = [lists EXCEPT !.redo = Rest(@), !.undo = Moved(Block(lists.redo)) \o @]
  PROVE  ListsInv(v, job) /\ (~disturbed /\ ~(lists.indent > 0) => Grouped(v))
<1>1. /\ State \in Saved /\ lists.undo \in Seq(Entries) /\ lists.redo \in Seq(Entries)
      /\ ListsInv(lists, job) /\ ListsType(lists)
  BY InvState DEF HistoryInv
<1>2. ASSUME ~disturbed, ~(lists.indent > 0)
      PROVE  /\ \E c : Spans(c, lists.undo) /\ c[0] = FALSE
             /\ \E d : Spans(d, lists.redo) /\ d[0] = FALSE
  <2>1. Grouped(lists)
    BY <1>2 DEF HistoryInv, GroupsInv
  <2>2. (lists.indent > 0) = FALSE
    BY <1>2
  <2> QED BY <2>1, <2>2 DEF Grouped
<1>3. CASE /\ FirstMoved(lists.undo) # 0
           /\ v = [lists EXCEPT !.undo = Rest(@), !.redo = Moved(Block(lists.undo)) \o @]
  <2> DEFINE r == Rest(lists.undo)
             w == Moved(Block(lists.undo)) \o lists.redo
  <2>1. r \in Seq(Entries) /\ w \in Seq(Entries)
    BY <1>1, <1>3, MoveFacts
  <2>2. ~disturbed /\ ~(lists.indent > 0) =>
          (\E e : Spans(e, r) /\ e[0] = FALSE) /\ (\E e : Spans(e, w) /\ e[0] = FALSE)
    BY <1>1, <1>2, <1>3, MoveSpans
  <2>3. v = [lists EXCEPT !.undo = r, !.redo = w]
    BY <1>1, <1>3 DEF ListsType
  <2> HIDE DEF r, w
  <2>4. ListsType(v) /\ v.undo = r /\ v.redo = w /\ v.indent = lists.indent
        /\ v.group = lists.group /\ v.disable = lists.disable
    BY <1>1, <2>1, <2>3 DEF ListsType
  <2>5. ListsInv(v, job)
    BY <1>1, <2>4 DEF ListsInv
  <2>6. ASSUME ~disturbed, ~(lists.indent > 0) PROVE Grouped(v)
    <3>1. (v.indent > 0) = FALSE /\ ~(v.indent > 0)
      BY <2>4, <2>6
    <3>2. (\E e : Spans(e, v.undo) /\ e[0] = FALSE) /\ (\E e : Spans(e, v.redo) /\ e[0] = FALSE)
      BY <2>2, <2>4, <2>6
    <3> QED BY <3>1, <3>2 DEF Grouped
  <2> QED BY <2>5, <2>6
<1>4. CASE /\ FirstMoved(lists.redo) # 0
           /\ v = [lists EXCEPT !.redo = Rest(@), !.undo = Moved(Block(lists.redo)) \o @]
  <2> DEFINE r == Rest(lists.redo)
             w == Moved(Block(lists.redo)) \o lists.undo
  <2>1. r \in Seq(Entries) /\ w \in Seq(Entries)
    BY <1>1, <1>4, MoveFacts
  <2>2. ~disturbed /\ ~(lists.indent > 0) =>
          (\E e : Spans(e, r) /\ e[0] = FALSE) /\ (\E e : Spans(e, w) /\ e[0] = FALSE)
    BY <1>1, <1>2, <1>4, MoveSpans
  <2>3. v = [lists EXCEPT !.redo = r, !.undo = w]
    BY <1>1, <1>4 DEF ListsType
  <2> HIDE DEF r, w
  <2>4. ListsType(v) /\ v.undo = w /\ v.redo = r /\ v.indent = lists.indent
        /\ v.group = lists.group /\ v.disable = lists.disable
    BY <1>1, <2>1, <2>3 DEF ListsType
  <2>5. ListsInv(v, job)
    BY <1>1, <2>4 DEF ListsInv
  <2>6. ASSUME ~disturbed, ~(lists.indent > 0) PROVE Grouped(v)
    <3>1. (v.indent > 0) = FALSE /\ ~(v.indent > 0)
      BY <2>4, <2>6
    <3>2. (\E e : Spans(e, v.undo) /\ e[0] = FALSE) /\ (\E e : Spans(e, v.redo) /\ e[0] = FALSE)
      BY <2>2, <2>4, <2>6
    <3> QED BY <3>1, <3>2 DEF Grouped
  <2> QED BY <2>5, <2>6
<1> QED BY <1>3, <1>4

(* What the lists are after a change of the history between its signals.     *)
Signalled(v) ==
  /\ ListsInv(v, job) /\ v.disable = FALSE /\ (~disturbed => Grouped(v))
  /\ ~lists.disable => Snapshots(v.undo) = <<State>> \o Snapshots(lists.undo) /\ v.redo = <<>>

(* A change between its two signals records the state before it.            *)
LEMMA WillSignalled ==
  ASSUME HistoryInv PROVE Signalled(WillChange(lists))
<1> DEFINE u == WillChange(lists)
<1>1. /\ ListsInv(u, job) /\ u.disable = FALSE
      /\ ~disturbed => Grouped(u)
      /\ lists.disable => u.undo = lists.undo /\ u.redo = lists.redo
      /\ ~lists.disable => /\ Snapshots(u.undo) = <<State>> \o Snapshots(lists.undo)
                           /\ u.redo = <<>>
  BY WillFacts
<1> HIDE DEF u
<1>2. Signalled(u)
  BY <1>1 DEF Signalled
<1> QED BY <1>2 DEF u

(* So does a truncation, also when it deletes the history within a group.   *)
LEMMA TruncateSignalled ==
  ASSUME HistoryInv
  PROVE  Signalled(IF end = 0
                   THEN EndGroup(Recorded(StartGroup(WillChange(lists), "LT_HISTORY", now),
                                          Other("LT_HISTORY"), now), now)
                   ELSE WillChange(lists))
<1> DEFINE u == WillChange(lists)
           v == GroupRecord(u, "LT_HISTORY", now)
<1>1. Signalled(u)
  BY WillSignalled
<1>2. now \in Nat /\ "LT_HISTORY" \in Types /\ "LT_HISTORY" \in Develop
  BY DEF HistoryInv, DevInv, Types, Develop
<1>3. v = EndGroup(Recorded(StartGroup(u, "LT_HISTORY", now), Other("LT_HISTORY"), now), now)
  BY DEF GroupRecord
<1>4. Signalled(v)
  <2> HIDE DEF u
  <2>1. ListsInv(u, job) /\ u.disable = FALSE
    BY <1>1 DEF Signalled
  <2>2. /\ ListsInv(v, job) /\ v.disable = FALSE /\ Snapshots(v.undo) = Snapshots(u.undo)
        /\ ~u.disable => v.redo = <<>>
        /\ Grouped(u) /\ (job = "open" => "LT_HISTORY" \in Develop) => Grouped(v)
    BY <1>2, <2>1, GroupRecordFacts
  <2> HIDE DEF v
  <2> QED BY <1>1, <1>2, <2>1, <2>2 DEF Signalled
<1> HIDE DEF u, v
<1>5. CASE end = 0
  BY <1>3, <1>4, <1>5 DEF u
<1>6. CASE end # 0
  BY <1>1, <1>6 DEF u
<1> QED BY <1>5, <1>6

(* The other records, and those of the job.                                  *)
LEMMA RateFacts ==
  ASSUME HistoryInv, NEW type \in RatedTypes, Rate(type)
  PROVE  /\ ListsInv(lists', job') /\ (~disturbed' => Grouped(lists'))
         /\ disturbed' \in BOOLEAN /\ job' = job
         /\ Snapshots(lists'.undo) = Snapshots(lists.undo)
         /\ lists'.redo = lists.redo \/ lists'.redo = <<>>
<1> DEFINE v == GroupRecord(lists, type, now)
<1>1. /\ ListsInv(lists, job) /\ now \in Nat /\ disturbed \in BOOLEAN /\ type \in Types
      /\ (~disturbed => Grouped(lists))
  BY DEF HistoryInv, DevInv, GroupsInv, Types
<1>2. lists' = v /\ job' = job /\ disturbed' = (disturbed \/ (lists.indent > 0 /\ type \notin Develop))
  BY DEF Rate, GroupRecord
<1>3. /\ ListsInv(v, job) /\ Snapshots(v.undo) = Snapshots(lists.undo)
      /\ lists.disable => v.redo = lists.redo
      /\ ~lists.disable => v.redo = <<>>
      /\ Grouped(lists) /\ (job = "open" => type \in Develop) => Grouped(v)
  BY <1>1, GroupRecordFacts
<1> HIDE DEF v
<1>4. job = "open" => lists.indent > 0
  BY <1>1 DEF ListsInv
<1>5. ~disturbed' => Grouped(lists')
  BY <1>1, <1>2, <1>3, <1>4
<1>6. disturbed' \in BOOLEAN
  BY <1>1, <1>2
<1> QED BY <1>2, <1>3, <1>5, <1>6

(* The steps of the job keep the groups, record no edit, and at most drop   *)
(* the redo list.                                                           *)
LEMMA JobFacts ==
  ASSUME HistoryInv, Job
  PROVE  /\ ListsInv(lists', job') /\ (~disturbed' => Grouped(lists'))
         /\ disturbed' \in BOOLEAN /\ job' \in {"new", "open", "done"}
         /\ Snapshots(lists'.undo) = Snapshots(lists.undo)
         /\ lists'.redo = lists.redo \/ lists'.redo = <<>>
<1>1. /\ ListsInv(lists, job) /\ ListsType(lists) /\ now \in Nat /\ disturbed \in BOOLEAN
      /\ "LT_HISTORY" \in Types /\ "LT_HISTORY" \in Develop
      /\ (~disturbed => Grouped(lists))
  BY DEF HistoryInv, DevInv, GroupsInv, ListsInv, Types, Develop
<1>2. disturbed' = disturbed
  BY DEF Job, JobStart, JobRecord, JobDisable, JobEnd, JobStep
<1> SUFFICES /\ ListsInv(lists', job') /\ job' \in {"new", "open", "done"}
             /\ Grouped(lists) => Grouped(lists')
             /\ Snapshots(lists'.undo) = Snapshots(lists.undo)
             /\ lists'.redo = lists.redo \/ lists'.redo = <<>>
  BY <1>1, <1>2
<1>3. CASE JobStart
  <2> DEFINE v == StartGroup(lists, "LT_HISTORY", now)
  <2>1. job = "new" /\ job' = "open" /\ lists' = v
    BY <1>3 DEF JobStart, JobStep
  <2>2. lists.group = "NONE" /\ lists.indent = 0 /\ ~lists.disable
    BY <1>1, <2>1 DEF ListsInv
  <2>3. /\ ListsType(v) /\ v.group = "LT_HISTORY" /\ v.indent = 1 /\ v.disable = FALSE
        /\ v.redo = <<>> /\ Snapshots(v.undo) = Snapshots(lists.undo)
        /\ Grouped(lists) => Grouped(v)
    BY <1>1, <2>2, StartFacts
  <2> HIDE DEF v
  <2> QED BY <2>1, <2>3 DEF ListsInv
<1>4. CASE JobRecord
  <2> DEFINE v == GroupRecord(lists, "LT_HISTORY", now)
  <2>1. job = "open" /\ job' = "open" /\ lists' = v
    BY <1>4 DEF JobRecord, JobStep, GroupRecord
  <2>2. /\ ListsInv(v, job) /\ Snapshots(v.undo) = Snapshots(lists.undo)
        /\ lists.disable => v.redo = lists.redo
        /\ ~lists.disable => v.redo = <<>>
        /\ Grouped(lists) /\ (job = "open" => "LT_HISTORY" \in Develop) => Grouped(v)
    BY <1>1, GroupRecordFacts
  <2> HIDE DEF v
  <2> QED BY <1>1, <2>1, <2>2
<1>5. CASE JobDisable
  <2> DEFINE v == [lists EXCEPT !.disable = TRUE]
  <2>1. job = "open" /\ job' = "open" /\ lists' = v
    BY <1>5 DEF JobDisable, JobStep, DisableNext
  <2>2. /\ ListsType(v) /\ v.undo = lists.undo /\ v.redo = lists.redo
        /\ v.indent = lists.indent /\ v.group = lists.group
    BY <1>1 DEF ListsType
  <2> HIDE DEF v
  <2>3. ListsInv(v, "open") /\ (Grouped(lists) => Grouped(v))
    BY <1>1, <2>1, <2>2 DEF ListsInv, Grouped
  <2> QED BY <2>1, <2>2, <2>3
<1>6. CASE JobEnd
  <2> DEFINE v == EndGroup(lists, now)
  <2>1. job = "open" /\ job' = "done" /\ lists' = v /\ ~lists.disable
    BY <1>6 DEF JobEnd, JobStep
  <2>2. lists.indent = 1
    BY <1>1, <2>1 DEF ListsInv
  <2>3. /\ ListsType(v) /\ v.group = "NONE" /\ v.indent = 0 /\ v.disable = FALSE
        /\ v.redo = <<>> /\ Snapshots(v.undo) = Snapshots(lists.undo)
        /\ Grouped(lists) => Grouped(v)
    BY <1>1, <2>1, <2>2, EndFacts
  <2> HIDE DEF v
  <2> QED BY <2>1, <2>3 DEF ListsInv
<1> QED BY <1>3, <1>4, <1>5, <1>6 DEF Job

(* Another image: both lists are emptied (undo.c:309-341).                  *)
LEMMA ClearedFacts ==
  ASSUME HistoryInv, ChangeImage
  PROVE  /\ ListsInv(lists', job') /\ (~disturbed' => Grouped(lists'))
         /\ disturbed' \in BOOLEAN /\ job' = job
         /\ lists'.undo = <<>> /\ lists'.redo = <<>>
<1> DEFINE v == [lists EXCEPT !.undo = <<>>, !.redo = <<>>, !.disable = FALSE]
<1>1. /\ ListsInv(lists, job) /\ ListsType(lists) /\ disturbed \in BOOLEAN
  BY DEF HistoryInv, ListsInv
<1>2. lists' = v /\ job' = job /\ disturbed' = (disturbed \/ lists.indent > 0)
  BY DEF ChangeImage, Cleared, Disturb
<1>3. /\ ListsType(v) /\ v.undo = <<>> /\ v.redo = <<>> /\ v.disable = FALSE
      /\ v.indent = lists.indent /\ v.group = lists.group
  BY <1>1, EmptySpans DEF ListsType
<1> HIDE DEF v
<1>4. ListsInv(v, job)
  BY <1>1, <1>3 DEF ListsInv
<1>5. ASSUME ~disturbed' PROVE Grouped(v)
  <2>1. ~(v.indent > 0) /\ (v.indent > 0) = FALSE
    <3>1. ~(lists.indent > 0)
      BY <1>2, <1>5
    <3> QED BY <1>3, <3>1
  <2> QED BY <1>3, <2>1, EmptySpans DEF Grouped
<1>6. disturbed' \in BOOLEAN
  BY <1>1, <1>2 DEF ListsType
<1> QED BY <1>2, <1>3, <1>4, <1>5, <1>6

(* Every step of the darkroom is one of these to the lists.                  *)
Signals == Signalled(lists') /\ UNCHANGED <<job, disturbed>>
Moves ==
  /\ \/ /\ FirstMoved(lists.undo) # 0
        /\ lists' = [lists EXCEPT !.undo = Rest(@), !.redo = Moved(Block(lists.undo)) \o @]
     \/ /\ FirstMoved(lists.redo) # 0
        /\ lists' = [lists EXCEPT !.redo = Rest(@), !.undo = Moved(Block(lists.redo)) \o @]
  /\ disturbed' = (disturbed \/ lists.indent > 0) /\ UNCHANGED job
Continues == UNCHANGED <<lists, job, disturbed, target>> /\ target # Nobody

(* What the handlers of the GUI do to the lists: record a state, go on with *)
(* a control, move a block, clear, or record another group.                 *)
LEMMA StepKinds ==
  ASSUME HistoryInv, Gui
  PROVE  \/ Signals \/ Continues
         \/ Moves /\ (Undo \/ Redo)
         \/ ChangeImage \/ \E type \in RatedTypes : Rate(type)
<1>1. ASSUME NEW m \in Instance, NEW control \in BOOLEAN, Edit(m, control)
      PROVE  Signals \/ Continues
  <2>1. UNCHANGED <<job, disturbed>> /\ m # Nobody
    BY <1>1, HistoryAssumption DEF Edit
  <2>2. lists' = WillChange(lists) => Signalled(lists')
    BY WillSignalled
  <2>3. \/ lists' = WillChange(lists)
        \/ target = m /\ UNCHANGED <<target, lists>>
    BY <1>1 DEF Edit, Bracketed
  <2> QED BY <2>1, <2>2, <2>3 DEF Signals, Continues
<1>2. ASSUME lists' = WillChange(lists), UNCHANGED <<job, disturbed>> PROVE Signals
  BY <1>2, WillSignalled DEF Signals
<1>3. CASE Discard
  BY <1>2, <1>3 DEF Discard, Bracketed
<1>4. CASE Undo
  <2>1. Moves
    BY <1>4 DEF Undo, Disturb, Moves
  <2> QED BY <1>4, <2>1
<1>5. CASE Redo
  <2>1. Moves
    BY <1>5 DEF Redo, Disturb, Moves
  <2> QED BY <1>5, <2>1
<1>6. CASE ListCopy
  BY <1>2, <1>6 DEF ListCopy, Bracketed
<1>7. ASSUME NEW m \in Base, NEW c \in Copy, Duplicate(m, c) PROVE Signals
  BY <1>2, <1>7 DEF Duplicate, Bracketed
<1>8. ASSUME NEW c \in Copy, DeleteCopy(c) PROVE Signals
  BY <1>2, <1>8 DEF DeleteCopy
<1>9. ASSUME NEW n \in 0..Len(history), Click(n) PROVE Signals
  BY <1>2, <1>9 DEF Click, Bracketed
<1>10. ASSUME Truncate(Compressed(State)) \/ Truncate(SubSeq(State.items, 1, end)) PROVE Signals
  <2> DEFINE v == IF end = 0
                  THEN EndGroup(Recorded(StartGroup(WillChange(lists), "LT_HISTORY", now),
                                         Other("LT_HISTORY"), now), now)
                  ELSE WillChange(lists)
  <2>1. lists' = v /\ UNCHANGED <<job, disturbed>>
    BY <1>10 DEF Truncate
  <2>2. Signalled(v)
    BY TruncateSignalled
  <2> HIDE DEF v
  <2> QED BY <2>1, <2>2 DEF Signals
<1> QED BY <1>1, <1>3, <1>4, <1>5, <1>6, <1>7, <1>8, <1>9, <1>10 DEF Gui

(* Every step keeps the lists typed and, while nothing disturbs an open     *)
(* group, in whole groups.                                                  *)
LEMMA ListsStep ==
  ASSUME HistoryInv, [HistoryNext]_historyVars
  PROVE  /\ ListsInv(lists', job') /\ (~disturbed' => Grouped(lists'))
         /\ disturbed' \in BOOLEAN /\ job' \in {"new", "open", "done"}
<1>0. /\ ListsInv(lists, job) /\ ListsType(lists) /\ (~disturbed => Grouped(lists))
      /\ disturbed \in BOOLEAN /\ job \in {"new", "open", "done"}
  BY DEF HistoryInv, GroupsInv, ListsInv
<1>1. ASSUME UNCHANGED <<lists, job, disturbed>>
      PROVE  /\ ListsInv(lists', job') /\ (~disturbed' => Grouped(lists'))
             /\ disturbed' \in BOOLEAN /\ job' \in {"new", "open", "done"}
  BY <1>0, <1>1
<1>2. CASE UNCHANGED historyVars \/ Tick
  BY <1>1, <1>2 DEF historyVars, Tick
<1>3. CASE Job
  BY <1>3, JobFacts
<1>4. CASE Gui
  <2>1. CASE Signals
    <3>1. Signalled(lists') /\ UNCHANGED <<job, disturbed>>
      BY <2>1 DEF Signals
    <3> QED BY <1>0, <3>1 DEF Signalled
  <2>2. CASE Moves
    <3>1. PICK v : v = lists' /\
             \/ /\ FirstMoved(lists.undo) # 0
                /\ v = [lists EXCEPT !.undo = Rest(@), !.redo = Moved(Block(lists.undo)) \o @]
             \/ /\ FirstMoved(lists.redo) # 0
                /\ v = [lists EXCEPT !.redo = Rest(@), !.undo = Moved(Block(lists.redo)) \o @]
      BY <2>2 DEF Moves
    <3>2. ListsInv(v, job) /\ (~disturbed /\ ~(lists.indent > 0) => Grouped(v))
      BY <3>1, MovedLists
    <3>3. disturbed' = (disturbed \/ lists.indent > 0) /\ job' = job
      BY <2>2 DEF Moves
    <3>4. disturbed' \in BOOLEAN
      BY <1>0, <3>3
    <3>5. ~disturbed' => ~disturbed /\ ~(lists.indent > 0)
      BY <3>3
    <3> QED BY <1>0, <3>1, <3>2, <3>3, <3>4, <3>5
  <2>3. CASE Continues
    BY <1>1, <2>3 DEF Continues
  <2>4. CASE ChangeImage
    BY <1>0, <2>4, ClearedFacts
  <2>5. ASSUME NEW type \in RatedTypes, Rate(type)
        PROVE  /\ ListsInv(lists', job') /\ (~disturbed' => Grouped(lists'))
               /\ disturbed' \in BOOLEAN /\ job' \in {"new", "open", "done"}
    BY <1>0, <2>5, RateFacts
  <2> QED BY <1>4, <2>1, <2>2, <2>3, <2>4, <2>5, StepKinds
<1> QED BY <1>2, <1>3, <1>4 DEF HistoryNext

(* The empty list holds no states.                                          *)
LEMMA EmptySnapshots == Snapshots(<<>>) = <<>>
<1> DEFINE e == <<>>
<1>1. e \in Seq(Entries) /\ Len(e) = 0
  BY EmptySpans
<1> HIDE DEF e
<1>2. Edits(e) = {}
  <2>1. Edits(e) \subseteq 1..Len(e)
    BY <1>1, EditsOf
  <2> QED BY <1>1, <2>1
<1>3. Snapshots(e) = <<>>
  BY <1>1, <1>2, NoSnapshots
<1> QED BY <1>3 DEF e

(* Where the GUI waits, none of its handlers meets disable_next.            *)
LEMMA NotDisabled == ASSUME HistoryInv, GuiWaits, Gui PROVE ~lists.disable
BY DEF Gui, GuiStep, ListCopy, Edit, Discard, Undo, Redo, ChangeImage, Duplicate, DeleteCopy,
       Click, Truncate, Rate

(* The state that is restored is the last one moved.                         *)
LEMMA RestoreFacts ==
  ASSUME NEW B \in Seq(Entries), Restore(B)
  PROVE  /\ Len(Snapshots(B)) = 0 => UNCHANGED <<history, end, target>> /\ Snapshots(B) = <<>>
         /\ Len(Snapshots(B)) # 0 =>
              State' = Snapshots(B)[Len(Snapshots(B))] /\ target' = Nobody
<1>1. CASE Edits(B) = {}
  <2>1. Snapshots(B) = <<>> /\ Len(<<>>) = 0
    BY <1>1, NoSnapshots
  <2>2. UNCHANGED <<history, end, target>>
    BY <1>1 DEF Restore
  <2> QED BY <2>1, <2>2
<1>2. CASE Edits(B) # {}
  <2> DEFINE s == B[Max(Edits(B))].item.was
  <2>1. /\ Len(Snapshots(B)) # 0 /\ Max(Edits(B)) \in Edits(B)
        /\ Snapshots(B)[Len(Snapshots(B))] = s
    BY <1>2, LastSnapshot
  <2>2. s \in Saved
    BY <2>1, EditsOf
  <2>3. history' = Read(s).history /\ end' = Read(s).end /\ target' = Nobody
    BY <1>2 DEF Restore, Reloaded, Takes
  <2> HIDE DEF s
  <2>4. StateOf(Read(s).history, Read(s).end) = s
    BY <2>2, ReadSaved
  <2>5. State' = StateOf(history', end')
    BY DEF State, StateOf
  <2>6. State' = s
    BY <2>3, <2>4, <2>5
  <2> QED BY <2>1, <2>3, <2>6
<1> QED BY <1>1, <1>2

(* An undo carries some of the states of the undo list to the redo list,    *)
(* and restores the last of them.                                           *)
LEMMA UndoFacts ==
  ASSUME HistoryInv, Undo
  PROVE  \E s \in Seq(Saved) :
           /\ Snapshots(lists.undo) = s \o Snapshots(lists'.undo)
           /\ Snapshots(lists'.redo) = Carried(s, State) \o Snapshots(lists.redo)
           /\ Len(s) = 0 => UNCHANGED <<history, end, target>> /\ s = <<>>
           /\ Len(s) # 0 => State' = s[Len(s)] /\ target' = Nobody
<1>1. /\ State \in Saved /\ lists.undo \in Seq(Entries) /\ lists.redo \in Seq(Entries)
      /\ ListsType(lists)
  BY InvState
<1>2. PICK B : /\ B = Block(lists.undo) /\ FirstMoved(lists.undo) # 0 /\ Restore(B)
               /\ lists' = [lists EXCEPT !.undo = Rest(@), !.redo = Moved(Block(lists.undo)) \o @]
  BY DEF Undo
<1>3. /\ B \in Seq(Entries)
      /\ Snapshots(lists.undo) = Snapshots(B) \o Snapshots(Rest(lists.undo))
      /\ Snapshots(Moved(Block(lists.undo)) \o lists.redo)
           = Carried(Snapshots(B), State) \o Snapshots(lists.redo)
  BY <1>1, <1>2, MoveFacts
<1>4. /\ lists'.undo = Rest(lists.undo)
      /\ lists'.redo = Moved(Block(lists.undo)) \o lists.redo
  BY <1>1, <1>2 DEF ListsType
<1>5. Snapshots(B) \in Seq(Saved)
  BY <1>3, SnapshotsType
<1>6. /\ Len(Snapshots(B)) = 0 => UNCHANGED <<history, end, target>> /\ Snapshots(B) = <<>>
      /\ Len(Snapshots(B)) # 0 =>
           State' = Snapshots(B)[Len(Snapshots(B))] /\ target' = Nobody
  BY <1>2, <1>3, RestoreFacts
<1> QED BY <1>3, <1>4, <1>5, <1>6

(* A redo carries some of the states of the redo list to the undo list, and *)
(* restores the last of them.                                               *)
LEMMA RedoFacts ==
  ASSUME HistoryInv, Redo
  PROVE  \E s \in Seq(Saved) :
           /\ Snapshots(lists.redo) = s \o Snapshots(lists'.redo)
           /\ Snapshots(lists'.undo) = Carried(s, State) \o Snapshots(lists.undo)
           /\ Len(s) = 0 => UNCHANGED <<history, end, target>> /\ s = <<>>
           /\ Len(s) # 0 => State' = s[Len(s)] /\ target' = Nobody
<1>1. /\ State \in Saved /\ lists.undo \in Seq(Entries) /\ lists.redo \in Seq(Entries)
      /\ ListsType(lists)
  BY InvState
<1>2. PICK B : /\ B = Block(lists.redo) /\ FirstMoved(lists.redo) # 0 /\ Restore(B)
               /\ lists' = [lists EXCEPT !.redo = Rest(@), !.undo = Moved(Block(lists.redo)) \o @]
  BY DEF Redo
<1>3. /\ B \in Seq(Entries)
      /\ Snapshots(lists.redo) = Snapshots(B) \o Snapshots(Rest(lists.redo))
      /\ Snapshots(Moved(Block(lists.redo)) \o lists.undo)
           = Carried(Snapshots(B), State) \o Snapshots(lists.undo)
  BY <1>1, <1>2, MoveFacts
<1>4. /\ lists'.redo = Rest(lists.redo)
      /\ lists'.undo = Moved(Block(lists.redo)) \o lists.undo
  BY <1>1, <1>2 DEF ListsType
<1>5. Snapshots(B) \in Seq(Saved)
  BY <1>3, SnapshotsType
<1>6. /\ Len(Snapshots(B)) = 0 => UNCHANGED <<history, end, target>> /\ Snapshots(B) = <<>>
      /\ Len(Snapshots(B)) # 0 =>
           State' = Snapshots(B)[Len(Snapshots(B))] /\ target' = Nobody
  BY <1>2, <1>3, RestoreFacts
<1> QED BY <1>3, <1>4, <1>5, <1>6

(* As long as the same control goes on, there is nothing to redo.            *)
LEMMA TargetStep ==
  ASSUME HistoryInv, [HistoryNext]_historyVars,
         lists'.undo \in Seq(Entries), lists'.redo \in Seq(Entries)
  PROVE  TargetInv'
<1> SUFFICES ASSUME GuiWaits, target' # Nobody PROVE Snapshots(lists'.redo) = <<>>
  BY DEF TargetInv
<1>0. target # Nobody => Snapshots(lists.redo) = <<>>
  BY DEF HistoryInv, TargetInv
<1>1. CASE UNCHANGED historyVars \/ Tick
  <2>1. UNCHANGED <<lists, target>>
    BY <1>1 DEF historyVars, devVars, Tick
  <2> QED BY <1>0, <2>1
<1>2. CASE Job
  <2>1. UNCHANGED target
    BY <1>2 DEF Job, JobStart, JobRecord, JobDisable, JobEnd, JobStep, devVars
  <2>2. lists'.redo = lists.redo \/ lists'.redo = <<>>
    BY <1>2, JobFacts
  <2> QED BY <1>0, <2>1, <2>2, EmptySnapshots
<1>3. CASE Gui
  <2>1. CASE Signals
    <3>1. lists'.redo = <<>>
      BY <1>3, <2>1, NotDisabled DEF Signals, Signalled
    <3> QED BY <3>1, EmptySnapshots
  <2>2. CASE Continues
    BY <1>0, <2>2 DEF Continues
  <2>3. CASE Undo
    <3>1. PICK s \in Seq(Saved) :
            /\ Snapshots(lists'.redo) = Carried(s, State) \o Snapshots(lists.redo)
            /\ Len(s) = 0 => UNCHANGED <<history, end, target>> /\ s = <<>>
            /\ Len(s) # 0 => State' = s[Len(s)] /\ target' = Nobody
      BY <2>3, UndoFacts
    <3>2. s = <<>> /\ target' = target
      BY <3>1
    <3>3. Carried(s, State) = <<>> /\ Snapshots(lists.redo) = <<>>
      BY <1>0, <3>2, CarriedNothing
    <3> QED BY <3>1, <3>3
  <2>4. CASE Redo
    <3>1. PICK s \in Seq(Saved) :
            /\ Snapshots(lists.redo) = s \o Snapshots(lists'.redo)
            /\ Len(s) = 0 => UNCHANGED <<history, end, target>> /\ s = <<>>
            /\ Len(s) # 0 => State' = s[Len(s)] /\ target' = Nobody
      BY <2>4, RedoFacts
    <3>2. s = <<>> /\ target' = target
      BY <3>1
    <3>3. <<>> \o Snapshots(lists'.redo) = <<>>
      BY <1>0, <3>1, <3>2
    <3>4. Snapshots(lists'.redo) \in Seq(Saved)
      BY SnapshotsType
    <3> QED BY <3>3, <3>4, ConcatEmptySeq
  <2>5. CASE ChangeImage
    BY <2>5, ClearedFacts, EmptySnapshots
  <2>6. ASSUME NEW type \in RatedTypes, Rate(type) PROVE Snapshots(lists'.redo) = <<>>
    <3>1. UNCHANGED target
      BY <2>6 DEF Rate, devVars
    <3>2. lists'.redo = lists.redo \/ lists'.redo = <<>>
      BY <2>6, RateFacts
    <3> QED BY <1>0, <3>1, <3>2, EmptySnapshots
  <2> QED BY <1>3, <2>1, <2>2, <2>3, <2>4, <2>5, <2>6, StepKinds
<1> QED BY <1>1, <1>2, <1>3 DEF HistoryNext

InitLists ==
  [undo |-> <<>>, redo |-> <<>>, group |-> "NONE", indent |-> 0, disable |-> FALSE]

(* The invariant holds of the history of a fresh image.                     *)
LEMMA InitFacts == ASSUME HistoryInit PROVE HistoryInv
<1> DEFINE s == [items |-> <<>>, end |-> 0]
           r == Read(s)
<1>1. Stored(s) /\ Len(s.items) = 0
  BY DEF Stored
<1>2. /\ r.history \in Seq(HistoryItems) /\ r.end \in 0..Len(r.history)
      /\ AlwaysListed(r.history)
      /\ \A k \in 1..Len(r.history) :
           \/ r.history[k].module \in AlwaysOn
           \/ \E i \in 1..Len(s.items) : r.history[k].module = s.items[i][1]
  <2> HIDE DEF s
  <2> QED BY <1>1, ReadFacts
<1>3. history = r.history /\ end = r.end
  BY DEF HistoryInit, Fresh
<1> HIDE DEF r, s
<1>4. /\ history \in Seq(HistoryItems) /\ end \in 0..Len(history) /\ AlwaysListed(history)
      /\ \A k \in 1..Len(history) : history[k].module \in AlwaysOn
  BY <1>1, <1>2, <1>3
<1>5. /\ params = Shown(history, end) /\ present = Base /\ focus = FALSE /\ target = Nobody
      /\ copying = Nobody /\ level = 0 /\ recording = TRUE /\ lists = InitLists
      /\ now = 0 /\ steps = 0 /\ job = "new" /\ disturbed = FALSE
  BY DEF HistoryInit, InitLists
<1>6. Shown(history, end) \in [Instance -> 0..MaxSteps]
  BY <1>4, ShownType
<1>7. AlwaysOn \subseteq Base /\ Base \subseteq Instance /\ 0 \in 0..MaxSteps
  BY HistoryAssumption DEF Base
<1>8. DevInv
  BY <1>4, <1>5, <1>6, <1>7 DEF DevInv
<1>9. Shows
  BY <1>5 DEF Shows
<1>10. ListsInv(lists, job)
  BY <1>5, EmptySpans DEF ListsInv, ListsType, InitLists, Types
<1>11. lists.undo = <<>> /\ lists.redo = <<>> /\ lists.indent = 0 /\ (lists.indent > 0) = FALSE
  BY <1>5 DEF InitLists
<1>12. GroupsInv
  BY <1>11, EmptySpans DEF GroupsInv, Grouped
<1>13. TargetInv
  BY <1>5 DEF TargetInv
<1> QED BY <1>5, <1>8, <1>9, <1>10, <1>12, <1>13 DEF HistoryInv

(* The invariant is inductive.                                              *)
LEMMA InvStep ==
  ASSUME RemoveListedOnly, HistoryInv, [HistoryNext]_historyVars PROVE HistoryInv'
<1>1. DevInv' /\ Shows'
  BY DevStep
<1>2. /\ ListsInv(lists', job') /\ (~disturbed' => Grouped(lists'))
      /\ disturbed' \in BOOLEAN /\ job' \in {"new", "open", "done"}
  BY ListsStep
<1>3. GroupsInv'
  BY <1>2 DEF GroupsInv
<1>4. TargetInv'
  <2>1. lists'.undo \in Seq(Entries) /\ lists'.redo \in Seq(Entries)
    BY <1>2 DEF ListsInv, ListsType
  <2> QED BY <2>1, TargetStep
<1> QED BY <1>1, <1>2, <1>3, <1>4 DEF HistoryInv

(* The inductive invariant of the edit history holds as long as only copies *)
(* are removed all of whose items are active: typing of the history and of  *)
(* the lists, what the controls show, whole groups, and nothing to redo     *)
(* while a control goes on.                                                 *)
THEOREM HistoryInvariant == RemoveListedOnly => (HistorySpec => []HistoryInv)
<1> SUFFICES ASSUME RemoveListedOnly PROVE HistorySpec => []HistoryInv
  OBVIOUS
<1>1. HistoryInit => HistoryInv
  BY InitFacts
<1>2. HistoryInv /\ [HistoryNext]_historyVars => HistoryInv'
  BY InvStep
<1> QED BY <1>1, <1>2, PTL DEF HistorySpec

(* The invariant implies the property of the run.                           *)
LEMMA InvWellFormed == ASSUME HistoryInv PROVE HistoryWellFormed
<1>1. /\ history \in Seq(HistoryItems) /\ end \in 0..Len(history) /\ Base \subseteq present
      /\ \A k \in 1..Len(history) : history[k].module \in present
      /\ level = 0 /\ recording = TRUE
      /\ ListsInv(lists, job) /\ lists.undo \in Seq(Entries) /\ lists.redo \in Seq(Entries)
  BY InvState DEF HistoryInv, DevInv
<1>2. /\ lists.indent = (IF job = "open" THEN 1 ELSE 0)
      /\ (lists.group = "NONE") = (lists.indent = 0)
  BY <1>1 DEF ListsInv
<1>3. HistoryTypeOK
  <2>1. DOMAIN history = 1..Len(history) /\ \A k \in 1..Len(history) : history[k] \in HistoryItems
    BY <1>1
  <2> QED BY <1>1, <1>2, <2>1 DEF HistoryTypeOK, HistoryItems
<1>4. GroupsMoveWhole
  <2> SUFFICES ASSUME ~disturbed, lists.indent = 0
               PROVE  /\ Marks(lists.undo, 1, Len(lists.undo)) % 2 = 0
                      /\ Marks(lists.redo, 1, Len(lists.redo)) % 2 = 0
    BY DEF GroupsMoveWhole, GroupsHandledTogether
  <2>1. Grouped(lists) /\ (lists.indent > 0) = FALSE
    BY DEF HistoryInv, GroupsInv
  <2>2. PICK c : Spans(c, lists.undo) /\ c[0] = FALSE
    BY <2>1 DEF Grouped
  <2>3. PICK d : Spans(d, lists.redo) /\ d[0] = FALSE
    BY <2>1 DEF Grouped
  <2>4. Marks(lists.undo, 1, Len(lists.undo)) % 2 = 0
    BY <1>1, <2>2, WholeGroups
  <2>5. Marks(lists.redo, 1, Len(lists.redo)) % 2 = 0
    BY <1>1, <2>3, WholeGroups
  <2> QED BY <2>4, <2>5
<1> QED BY <1>3, <1>4 DEF HistoryWellFormed

(* And that the controls show the history.                                  *)
LEMMA InvShows == ASSUME HistoryInv PROVE ControlsShowHistory
<1>1. Shows /\ AlwaysListed(history)
  BY DEF HistoryInv, DevInv
<1> QED BY <1>1 DEF ControlsShowHistory, ShowsHistory, Shows, AlwaysListed

(* Between any two handlers the history, its end, the will-change signals,  *)
(* the records of undo and the groups they come in fit together, and        *)
(* neither list ever holds half of a group, unless a group was disturbed    *)
(* while open (common/undo.c:86-293, libs/history.c:656-687).               *)
THEOREM HistoryStaysWellFormed ==
  RemoveListedOnly => (HistorySpec => []HistoryWellFormed)
BY HistoryInvariant, InvWellFormed, PTL

(* The controls of every module but the always-on ones and a copy about to  *)
(* be listed show what the active part of the history says of it, and every *)
(* always-on module keeps an item (develop.c:1191-1327, 1552-1658).         *)
THEOREM ControlsAlwaysShowHistory ==
  RemoveListedOnly => (HistorySpec => []ControlsShowHistory)
BY HistoryInvariant, InvShows, PTL

(* The states on the lists are documents of Timeline.                       *)
LEMMA SavedStates == Saved \subseteq States
<1> SUFFICES ASSUME NEW s \in Saved PROVE s \in States
  OBVIOUS
<1>1. /\ s = [items |-> s.items, end |-> s.end]
      /\ s.items \in Seq(Instance \X (0..MaxSteps)) /\ s.end \in Nat
  BY DEF Saved
<1>2. \A k \in 1..Len(s.items) : s.items[k] \in Instance \X Nat
  <2>1. \A k \in 1..Len(s.items) : s.items[k] \in Instance \X (0..MaxSteps)
    BY <1>1
  <2> QED BY <2>1, HistoryAssumption
<1>3. s.items \in Seq(Instance \X Nat)
  <2>1. s.items = [k \in 1..Len(s.items) |-> s.items[k]] /\ Len(s.items) \in Nat
    BY <1>1
  <2> DEFINE q == s.items
  <2> HIDE DEF q
  <2>2. q = [k \in 1..Len(q) |-> q[k]] /\ Len(q) \in Nat /\ \A k \in 1..Len(q) : q[k] \in Instance \X Nat
    BY <1>2, <2>1 DEF q
  <2>3. q \in Seq(Instance \X Nat)
    BY <2>2
  <2> QED BY <2>3 DEF q
<1> QED BY <1>1, <1>3 DEF States

(* Under the invariant, before and after a step, what Timeline is given has *)
(* its types.                                                               *)
LEMMA InvLine ==
  ASSUME HistoryInv, HistoryInv'
  PROVE  /\ State \in Saved /\ State' \in Saved /\ State' \in States
         /\ Snapshots(lists.undo) \in Seq(Saved) /\ Snapshots(lists.redo) \in Seq(Saved)
         /\ Snapshots(lists'.undo) \in Seq(Saved) /\ Snapshots(lists'.redo) \in Seq(Saved)
<1>1. State \in Saved /\ lists.undo \in Seq(Entries) /\ lists.redo \in Seq(Entries)
  BY InvState
<1>2. State' \in Saved /\ lists'.undo \in Seq(Entries) /\ lists'.redo \in Seq(Entries)
  <2>1. (HistoryInv => State \in Saved /\ lists.undo \in Seq(Entries) /\ lists.redo \in Seq(Entries))'
    BY InvState, PTL
  <2> QED BY <2>1
<1> QED BY <1>1, <1>2, SnapshotsType, SavedStates

(* A step that moves states from one list to the other walks along the line. *)
LEMMA UndoLine ==
  ASSUME HistoryInv, HistoryInv', Undo PROVE [Line!Next]_(Line!vars)
<1> DEFINE p == Snapshots(lists.undo)
           f == Snapshots(lists.redo)
           P == Snapshots(lists'.undo)
           F == Snapshots(lists'.redo)
<1>1. /\ State \in Saved /\ p \in Seq(Saved) /\ f \in Seq(Saved)
      /\ P \in Seq(Saved) /\ F \in Seq(Saved) /\ State' \in States
  BY InvLine
<1>2. PICK s \in Seq(Saved) :
        /\ p = s \o P /\ F = Carried(s, State) \o f
        /\ Len(s) = 0 => UNCHANGED <<history, end, target>> /\ s = <<>>
        /\ Len(s) # 0 => State' = s[Len(s)] /\ target' = Nobody
  BY UndoFacts
<1>3. /\ p = Snapshots(lists.undo) /\ f = Snapshots(lists.redo)
      /\ P = Snapshots(lists.undo)' /\ F = Snapshots(lists.redo)'
  OBVIOUS
<1>4. CASE Len(s) = 0
  <2>1. <<>> \o P = P /\ <<>> \o f = f /\ Carried(s, State) = <<>>
    BY <1>1, <1>2, <1>4, ConcatEmptySeq, CarriedNothing
  <2>2. P = p /\ F = f /\ State' = State
    BY <1>2, <1>4, <2>1 DEF State
  <2> HIDE DEF p, f, P, F
  <2> QED BY <1>3, <2>2 DEF Line!vars
<1>5. CASE Len(s) # 0
  <2>1. State' = s[Len(s)]
    BY <1>2, <1>5
  <2> HIDE DEF p, f, P, F
  <2>2. Line!Line(P, s[Len(s)], Carried(s, State) \o f) = Line!Line(s \o P, State, f)
    BY <1>1, <1>5, UndoWalks
  <2>3. Line!Line(P, State', F) = Line!Line(p, State, f)
    BY <1>2, <2>1, <2>2
  <2>4. p # P
    <3>1. Len(s \o P) = Len(s) + Len(P) /\ Len(s) \in Nat /\ Len(P) \in Nat
      BY <1>1
    <3>2. Len(p) # Len(P)
      BY <1>2, <1>5, <3>1
    <3> QED BY <3>2
  <2>5. Line!Walk
    BY <1>1, <1>3, <2>3, <2>4 DEF Line!Walk
  <2> QED BY <2>5 DEF Line!Next
<1> QED BY <1>4, <1>5

(* The same for a redo.                                                     *)
LEMMA RedoLine ==
  ASSUME HistoryInv, HistoryInv', Redo PROVE [Line!Next]_(Line!vars)
<1> DEFINE p == Snapshots(lists.undo)
           f == Snapshots(lists.redo)
           P == Snapshots(lists'.undo)
           F == Snapshots(lists'.redo)
<1>1. /\ State \in Saved /\ p \in Seq(Saved) /\ f \in Seq(Saved)
      /\ P \in Seq(Saved) /\ F \in Seq(Saved) /\ State' \in States
  BY InvLine
<1>2. PICK s \in Seq(Saved) :
        /\ f = s \o F /\ P = Carried(s, State) \o p
        /\ Len(s) = 0 => UNCHANGED <<history, end, target>> /\ s = <<>>
        /\ Len(s) # 0 => State' = s[Len(s)] /\ target' = Nobody
  BY RedoFacts
<1>3. /\ p = Snapshots(lists.undo) /\ f = Snapshots(lists.redo)
      /\ P = Snapshots(lists.undo)' /\ F = Snapshots(lists.redo)'
  OBVIOUS
<1>4. CASE Len(s) = 0
  <2>1. <<>> \o F = F /\ <<>> \o p = p /\ Carried(s, State) = <<>>
    BY <1>1, <1>2, <1>4, ConcatEmptySeq, CarriedNothing
  <2>2. P = p /\ F = f /\ State' = State
    BY <1>2, <1>4, <2>1 DEF State
  <2> HIDE DEF p, f, P, F
  <2> QED BY <1>3, <2>2 DEF Line!vars
<1>5. CASE Len(s) # 0
  <2>1. State' = s[Len(s)]
    BY <1>2, <1>5
  <2> HIDE DEF p, f, P, F
  <2>2. Line!Line(Carried(s, State) \o p, s[Len(s)], F) = Line!Line(p, State, s \o F)
    BY <1>1, <1>5, RedoWalks
  <2>3. Line!Line(P, State', F) = Line!Line(p, State, f)
    BY <1>2, <2>1, <2>2
  <2>4. p # P
    <3> DEFINE C == Carried(s, State)
    <3>1. C \in Seq(Saved) /\ Len(C) = Len(s)
      BY <1>1, CarriedType
    <3> HIDE DEF C
    <3>1a. p \in Seq(Saved) /\ C \in Seq(Saved)
      BY <1>1, <3>1
    <3>1b. Len(p) \in Nat /\ Len(C) \in Nat
      BY <3>1a
    <3>1c. Len(C \o p) = Len(C) + Len(p)
      BY <3>1a
    <3>2. Len(C \o p) = Len(C) + Len(p) /\ Len(C) \in Nat /\ Len(p) \in Nat
      BY <3>1b, <3>1c
    <3>3. P = C \o p
      BY <1>2 DEF C
    <3>4. Len(p) # Len(P)
      BY <1>5, <3>1, <3>2, <3>3
    <3> QED BY <3>4
  <2>5. Line!Walk
    BY <1>1, <1>3, <2>3, <2>4 DEF Line!Walk
  <2> QED BY <2>5 DEF Line!Next
<1> QED BY <1>4, <1>5

(* Steps that leave the history alone: there may be no future any more.      *)
LEMMA SameLine ==
  ASSUME UNCHANGED <<history, end>>, Snapshots(lists'.undo) = Snapshots(lists.undo),
         lists'.redo = lists.redo \/ lists'.redo = <<>>
  PROVE  [Line!Next]_(Line!vars)
<1>1. State' = State /\ Snapshots(lists.undo)' = Snapshots(lists.undo)
  BY DEF State
<1>2. CASE lists'.redo = lists.redo
  <2>1. Snapshots(lists.redo)' = Snapshots(lists.redo)
    BY <1>2
  <2> QED BY <1>1, <2>1 DEF Line!vars
<1>3. CASE lists'.redo = <<>>
  <2>1. Snapshots(lists.redo)' = <<>>
    BY <1>3, EmptySnapshots
  <2>2. Line!DropFuture
    BY <1>1, <2>1 DEF Line!DropFuture
  <2> QED BY <2>2 DEF Line!Next
<1> QED BY <1>2, <1>3

(* Every step of the darkroom is one of Timeline, or changes nothing of it. *)
LEMMA LineStep ==
  ASSUME GuiWaits, HistoryInv, HistoryInv', [HistoryNext]_historyVars
  PROVE  [Line!Next]_(Line!vars)
<1>0. State' \in States /\ Snapshots(<<>>) = <<>>
  BY InvLine, EmptySnapshots
<1>1. CASE UNCHANGED historyVars \/ Tick
  <2>1. UNCHANGED <<history, end, lists>>
    BY <1>1 DEF historyVars, devVars, Tick
  <2> QED BY <2>1, SameLine
<1>2. CASE Job
  <2>1. UNCHANGED <<history, end>>
    BY <1>2 DEF Job, JobStart, JobRecord, JobDisable, JobEnd, JobStep, devVars
  <2> QED BY <1>2, <2>1, JobFacts, SameLine
<1>3. CASE Gui
  <2>1. CASE Signals
    <3>1. Snapshots(lists'.undo) = <<State>> \o Snapshots(lists.undo) /\ lists'.redo = <<>>
      BY <1>3, <2>1, NotDisabled DEF Signals, Signalled
    <3>2. Snapshots(lists.undo)' = <<State>> \o Snapshots(lists.undo) /\ Snapshots(lists.redo)' = <<>>
      BY <1>0, <3>1
    <3>3. Line!Change
      BY <1>0, <3>2 DEF Line!Change
    <3> QED BY <3>3 DEF Line!Next
  <2>2. CASE Continues
    <3>1. lists' = lists /\ Snapshots(lists.redo) = <<>>
      BY <2>2 DEF Continues, HistoryInv, TargetInv
    <3>2. Snapshots(lists.undo)' = Snapshots(lists.undo) /\ Snapshots(lists.redo)' = Snapshots(lists.redo)
      BY <3>1
    <3>3. Line!Amend
      BY <1>0, <3>1, <3>2 DEF Line!Amend
    <3> QED BY <3>3 DEF Line!Next
  <2>3. CASE Undo
    BY <2>3, UndoLine
  <2>4. CASE Redo
    BY <2>4, RedoLine
  <2>5. CASE ChangeImage
    <3>1. lists'.undo = <<>> /\ lists'.redo = <<>>
      BY <2>5, ClearedFacts
    <3>2. Snapshots(lists.undo)' = <<>> /\ Snapshots(lists.redo)' = <<>>
      BY <1>0, <3>1
    <3>3. Line!Forget
      BY <1>0, <3>2 DEF Line!Forget
    <3> QED BY <3>3 DEF Line!Next
  <2>6. ASSUME NEW type \in RatedTypes, Rate(type) PROVE [Line!Next]_(Line!vars)
    <3>1. UNCHANGED <<history, end>>
      BY <2>6 DEF Rate, devVars
    <3> QED BY <2>6, <3>1, RateFacts, SameLine
  <2> QED BY <1>3, <2>1, <2>2, <2>3, <2>4, <2>5, <2>6, StepKinds
<1> QED BY <1>1, <1>2, <1>3 DEF HistoryNext

(* Undo and redo walk along the states the user went through, whatever      *)
(* groups and other records lie between them, as long as only listed copies *)
(* are removed and the GUI records nothing between dt_undo_disable_next of  *)
(* the job and the record it is for: the edit history implements Timeline.  *)
THEOREM UndoWalksTheTimeline ==
  RemoveListedOnly /\ GuiWaits => (HistorySpec => WalksTheTimeline)
<1> SUFFICES ASSUME RemoveListedOnly, GuiWaits PROVE HistorySpec => WalksTheTimeline
  OBVIOUS
<1>1. HistoryInit => Line!Init
  <2> SUFFICES ASSUME HistoryInit PROVE Line!Init
    OBVIOUS
  <2>1. State \in States
    BY InitFacts, InvState, SavedStates
  <2>2. lists.undo = <<>> /\ lists.redo = <<>>
    BY DEF HistoryInit
  <2> QED BY <2>1, <2>2, EmptySnapshots DEF Line!Init
<1>2. HistoryInv /\ HistoryInv' /\ [HistoryNext]_historyVars => [Line!Next]_(Line!vars)
  BY LineStep
<1>3. HistorySpec => []HistoryInv
  BY HistoryInvariant
<1> QED BY <1>1, <1>2, <1>3, PTL DEF HistorySpec, WalksTheTimeline, Line!Spec

=============================================================================
