------------------------ MODULE ConcurrentCacheProofs ------------------------
(***************************************************************************)
(* For every set of threads, keys and costs: leases exclude each other, a  *)
(* leased entry stays published, a key has one allocation at a time, the   *)
(* records kept beside the entries agree with them, and the cache          *)
(* implements LeaseCache.                                                  *)
(***************************************************************************)
EXTENDS ConcurrentCache, DataFacts

(* The threads whose call has parked its key in `pending`. *)
Working == {"allocate", "publish", "take", "cleanup", "finish"}

ReadHolders(s) == {t \in Thread : Holds(t, s, "Read")}
WriteHolders(s) == {t \in Thread : Holds(t, s, "Write")}

(* The lease state of an entry counts the threads that hold it. *)
LeaseInv ==
  \A s \in Slot :
    /\ readers[s] = Cardinality(ReadHolders(s))
    /\ writer[s] <=> WriteHolders(s) # {}
    /\ writer[s] => ReadHolders(s) = {}
    /\ \A t, u \in WriteHolders(s) : t = u

(* What a thread's locals are good for at each point of its call. *)
LocalInv ==
  \A t \in Thread :
    /\ pc[t] \in {"entry", "confirm", "held", "take", "publish", "cleanup"} =>
         slot[t] \in Slot
    /\ pc[t] = "take" => mode[t] = "Write"
    /\ pc[t] \in {"lookup", "entry", "confirm"} /\ op[t] = "remove" => mode[t] = "Write"
    /\ pc[t] = "scan" => idx[t] >= 1

(* A published entry is live, under its own key, and its key is not parked.  *)
EntriesInv ==
  /\ \A k \in Key : entries[k] # NoSlot =>
       /\ ekey[entries[k]] = k /\ entries[k] \in live /\ ~removed[entries[k]]
  /\ \A k \in pending : entries[k] = NoSlot

(* The MRU queue lists published keys, each at most once.                    *)
LruInv ==
  /\ Distinct(lru)
  /\ \A i \in 1..Len(lru) : entries[lru[i]] # NoSlot

(* A thread on its way to a lease refers to the published entry, or to one   *)
(* that is marked removed.                                                   *)
EntryInv ==
  \A t \in Thread :
    /\ pc[t] = "entry" /\ ~removed[slot[t]] => entries[key[t]] = slot[t]
    /\ pc[t] \in {"confirm", "held"} => entries[key[t]] = slot[t]

(* A slot being published, removed or cleaned up is not in the key map.      *)
OffMapInv ==
  \A t \in Thread : pc[t] \in {"publish", "take", "cleanup"} =>
    ekey[slot[t]] = key[t] /\ \A k \in Key : entries[k] # slot[t]

(* Only the thread publishing a slot refers to it.                           *)
FreshInv ==
  \A t \in Thread : pc[t] = "publish" =>
    /\ slot[t] \in live
    /\ \A u \in Thread : u # t => slot[u] # slot[t]
    /\ \A u \in Thread : \A i \in 1..Len(bag[u]) : bag[u][i] # slot[t]

(* A key is parked while a thread is at work on it, one thread at a time.    *)
WorkInv ==
  /\ \A t \in Thread : pc[t] \in Working => key[t] \in pending
  /\ \A t, u \in Thread : t # u /\ pc[t] \in Working /\ pc[u] \in Working =>
       key[t] # key[u]

(* A key is parked while its removed entry is in a collection bag, of one    *)
(* thread, once; no thread is at work on that key.                           *)
BagInv ==
  /\ \A t \in Thread : \A i \in 1..Len(bag[t]) :
       /\ ekey[bag[t][i]] \in pending
       /\ \A k \in Key : entries[k] # bag[t][i]
  /\ \A t, u \in Thread : \A i \in 1..Len(bag[u]) :
       pc[t] \in Working => ekey[bag[u][i]] # key[t]
  /\ \A t, u \in Thread : \A i \in 1..Len(bag[t]) : \A j \in 1..Len(bag[u]) :
       ekey[bag[t][i]] = ekey[bag[u][j]] => t = u /\ i = j

(* A bag is filled, then emptied, by the thread's collection pass.           *)
PassInv ==
  /\ \A t \in Thread : pc[t] \notin {"scan", "collect", "collectFinish"} => bag[t] = <<>>
  /\ \A t \in Thread : pc[t] = "collectFinish" =>
       bag[t] # <<>> /\ bag[t][1] \notin live

(* A live allocation is published, or claimed. *)
LiveInv ==
  \A s \in live :
    \/ entries[ekey[s]] = s
    \/ \E t \in Thread : pc[t] \in {"publish", "take", "cleanup"} /\ slot[t] = s
    \/ \E t \in Thread : \E i \in 1..Len(bag[t]) : bag[t][i] = s

IndInv ==
  /\ TypeOK /\ LeaseInv /\ LocalInv /\ EntriesInv /\ LruInv /\ EntryInv /\ OffMapInv /\ FreshInv
  /\ WorkInv /\ BagInv /\ PassInv /\ LiveInv

-----------------------------------------------------------------------------
(* An allocation gets a slot that nothing refers to. *)
LEMMA NewSlotIsFree ==
  ASSUME FreeSlots # {}
  PROVE  NewSlot \in Slot /\ NewSlot \in FreeSlots
BY DEF NewSlot, FreeSlots

(* RemoveLruKey takes every occurrence of the key out of the MRU queue.      *)
LEMMA RemoveLruKeyFacts ==
  ASSUME NEW s \in Seq(Key), NEW k \in Key, Distinct(s)
  PROVE  /\ RemoveLruKey(s, k) \in Seq(Key)
         /\ Distinct(RemoveLruKey(s, k))
         /\ \A j \in 1..Len(RemoveLruKey(s, k)) :
              /\ RemoveLruKey(s, k)[j] # k
              /\ \E i \in 1..Len(s) : RemoveLruKey(s, k)[j] = s[i]
<1>1. CASE k \in Range(s)
  <2> DEFINE i == CHOOSE i \in DOMAIN s : s[i] = k
  <2>1. i \in 1..Len(s) /\ s[i] = k
    BY <1>1 DEF Range
  <2>2. RemoveLruKey(s, k) = RemoveAt(s, i)
    BY <1>1 DEF RemoveLruKey
  <2> HIDE DEF i
  <2> QED BY <2>1, <2>2, RemoveAtDistinct
<1>2. CASE k \notin Range(s)
  <2>1. \A j \in 1..Len(s) : s[j] # k
    BY <1>2 DEF Range
  <2>2. RemoveLruKey(s, k) = s
    BY <1>2 DEF RemoveLruKey
  <2> QED BY <2>1, <2>2
<1> QED BY <1>1, <1>2

(* The key an idle call is reset to is a key. *)
LEMMA AnyKeyInKey == AnyKey \in Key
BY CacheConstants DEF AnyKey

(* What the shared pieces of the actions do to the types. *)
LEMMA HoldType ==
  ASSUME TypeOK, NEW s \in Slot, NEW m \in Mode, Hold(s, m)
  PROVE  readers' \in [Slot -> Nat] /\ writer' \in [Slot -> BOOLEAN]
<1>1. CASE m = "Read"
  BY <1>1 DEF TypeOK, Hold
<1>2. CASE m # "Read"
  BY <1>2 DEF TypeOK, Hold
<1> QED BY <1>1, <1>2

(* Entry::release keeps the types of the lease state. *)
LEMMA ReleaseType ==
  ASSUME TypeOK, NEW s \in Slot, NEW m \in Mode, ReleaseLease(s, m)
  PROVE  /\ readers' \in [Slot -> Nat] /\ writer' \in [Slot -> BOOLEAN]
         /\ asleep' \subseteq Thread
<1>1. CASE m = "Read"
  <2>1. (IF readers[s] > 0 THEN readers[s] - 1 ELSE 0) \in Nat
    BY DEF TypeOK
  <2> QED BY <1>1, <2>1 DEF TypeOK, ReleaseLease
<1>2. CASE m # "Read"
  BY <1>2 DEF TypeOK, ReleaseLease
<1> QED BY <1>1, <1>2

(* A returning call leaves its locals with their types. *)
LEMMA ReturnType ==
  ASSUME TypeOK, NEW t \in Thread, Return(t)
  PROVE  /\ pc' \in [Thread -> PC] /\ op' \in [Thread -> {"acquire", "remove", "gc"}]
         /\ key' \in [Thread -> Key] /\ mode' \in [Thread -> Mode]
         /\ slot' \in [Thread -> Slot \cup {NoSlot}] /\ gced' \in [Thread -> BOOLEAN]
         /\ idx' \in [Thread -> Nat] /\ ratio' \in [Thread -> Nat]
         /\ failed' \in [Thread -> BOOLEAN]
BY AnyKeyInKey DEF TypeOK, Return, Goto, Forget, PC, Mode

(* A returning call forgets its entry and disturbs no other call. *)
LEMMA ReturnFacts ==
  ASSUME TypeOK, NEW t \in Thread, Return(t)
  PROVE  /\ pc'[t] = "idle" /\ slot'[t] = NoSlot
         /\ \A u \in Thread : u # t =>
              /\ pc'[u] = pc[u] /\ op'[u] = op[u] /\ key'[u] = key[u]
              /\ mode'[u] = mode[u] /\ slot'[u] = slot[u] /\ idx'[u] = idx[u]
BY DEF TypeOK, Return, Goto, Forget

(* The record-keeping of a removal keeps the types. *)
LEMMA UnpublishType ==
  ASSUME TypeOK, Distinct(lru), NEW k \in Key, NEW s \in Slot, Unpublish(k, s)
  PROVE  /\ pending' \subseteq Key /\ entries' \in [Key -> Slot \cup {NoSlot}]
         /\ lru' \in Seq(Key) /\ cost' \in 0..MaxCost
<1>1. cost \in Nat /\ ecost[s] \in Nat /\ cost =< MaxCost
  BY CacheConstants DEF TypeOK
<1>2. cost' \in 0..MaxCost
  BY <1>1, CacheConstants DEF Unpublish, CheckedSub
<1> QED BY <1>2, RemoveLruKeyFacts DEF TypeOK, Unpublish

(* Moving a key to the end of the MRU queue keeps its type. *)
LEMMA TouchType ==
  ASSUME TypeOK, Distinct(lru), NEW k \in Key, TouchMru(k)
  PROVE  lru' \in Seq(Key)
BY RemoveLruKeyFacts DEF TypeOK, TouchMru

(* Every step keeps the types. *)
LEMMA TypeOKStep ==
  ASSUME IndInv, NEW t \in Thread, Step(t) \/ Call(t)
  PROVE  TypeOK'
<1> USE CacheConstants DEF IndInv
<1>1. CASE LookupHit(t)
  BY <1>1 DEF TypeOK, PC, Mode, LookupHit, stateVars, leaseVars, slotVars,
     gcVars, Goto
<1>2. CASE LookupPending(t)
  BY <1>2 DEF TypeOK, PC, Mode, LookupPending, stateVars, leaseVars, slotVars,
     gcVars
<1>3. CASE LookupOver(t)
  BY <1>3 DEF TypeOK, PC, Mode, LookupOver, stateVars, leaseVars, slotVars,
     Goto, OverAutomaticGcThreshold, AutomaticGcFillRatio
<1>4. CASE LookupMiss(t)
  BY <1>4 DEF TypeOK, PC, Mode, LookupMiss, leaseVars, slotVars, gcVars, Goto,
     OverAutomaticGcThreshold
<1>5. CASE RemoveMissing(t)
  BY <1>5, ReturnType, ReturnFacts DEF TypeOK, PC, Mode, RemoveMissing,
     stateVars, leaseVars, slotVars
<1>6. CASE EntryAcquire(t)
  <2>1. slot[t] \in Slot /\ mode[t] \in Mode
    BY <1>6 DEF EntryAcquire, LocalInv, TypeOK
  <2>2. readers' \in [Slot -> Nat] /\ writer' \in [Slot -> BOOLEAN]
    BY <1>6, <2>1, HoldType DEF EntryAcquire, TypeOK
  <2> QED BY <1>6, <2>1, <2>2
        DEF TypeOK, PC, EntryAcquire, stateVars, slotVars, gcVars, Goto, Forget
<1>7. CASE ConfirmAcquire(t)
  <2>1. slot[t] \in Slot /\ mode[t] \in Mode /\ key[t] \in Key
    BY <1>7 DEF ConfirmAcquire, LocalInv, TypeOK
  <2>2. readers' \in [Slot -> Nat] /\ writer' \in [Slot -> BOOLEAN] /\ asleep' \subseteq Thread
    BY <1>7, <2>1, ReleaseType DEF ConfirmAcquire, TypeOK
  <2>3. lru' \in Seq(Key)
    BY <1>7, <2>1, TouchType DEF ConfirmAcquire, TypeOK, LruInv
  <2> QED BY <1>7, <2>1, <2>2, <2>3
     DEF TypeOK, PC, ConfirmAcquire, slotVars, gcVars, Goto, Forget
<1>8. CASE ConfirmRemove(t)
  <2>1. slot[t] \in Slot /\ mode[t] \in Mode /\ key[t] \in Key
    BY <1>8 DEF ConfirmRemove, LocalInv, TypeOK
  <2>2. readers' \in [Slot -> Nat] /\ writer' \in [Slot -> BOOLEAN] /\ asleep' \subseteq Thread
    BY <1>8, <2>1, ReleaseType DEF ConfirmRemove, TypeOK
  <2>3. /\ pending' \subseteq Key /\ entries' \in [Key -> Slot \cup {NoSlot}]
        /\ lru' \in Seq(Key) /\ cost' \in 0..MaxCost
    BY <1>8, <2>1, UnpublishType DEF ConfirmRemove, TypeOK, LruInv
  <2> QED BY <1>8, <2>1, <2>2, <2>3
     DEF TypeOK, PC, ConfirmRemove, slotVars, gcVars, Goto, Forget
<1>9. CASE TakeValue(t)
  <2>1. slot[t] \in Slot
    BY <1>9 DEF TakeValue, LocalInv
  <2> QED BY <1>9, <2>1, ReleaseType
     DEF TypeOK, PC, Mode, TakeValue, stateVars, slotVars, gcVars, Goto
<1>10. CASE Cleanup(t)
  BY <1>10 DEF TypeOK, PC, Mode, Cleanup, stateVars, leaseVars, slotVars,
     gcVars, Goto
<1>11. CASE FinishPending(t)
  BY <1>11, ReturnType, ReturnFacts DEF TypeOK, PC, Mode, FinishPending,
     leaseVars, slotVars, NotifyChanged
<1>12. ASSUME NEW c \in Costs, Allocate(t, c)
      PROVE TypeOK'
  BY <1>12, NewSlotIsFree DEF TypeOK, PC, Mode, Allocate, stateVars,
     leaseVars, gcVars, Goto
<1>13. CASE AllocateFails(t)
  BY <1>13 DEF TypeOK, PC, Mode, AllocateFails, stateVars, leaseVars,
     slotVars, gcVars, Goto
<1>14. CASE CostOverflow(t)
  BY <1>14 DEF TypeOK, PC, Mode, CostOverflow, stateVars, leaseVars, slotVars,
     gcVars, Goto, FitsUsize
<1>15. CASE Publish(t)
  <2> DEFINE s == slot[t]
  <2>1. s \in Slot /\ key[t] \in Key /\ mode[t] \in Mode
    BY <1>15 DEF Publish, LocalInv, TypeOK
  <2>2. cost' \in 0..MaxCost
    BY <1>15, <2>1 DEF Publish, FitsUsize, TypeOK
  <2>3. mode' \in [Thread -> Mode]
    BY <1>15, <2>1 DEF Publish, TypeOK, Mode
  <2>4. readers' \in [Slot -> Nat] /\ writer' \in [Slot -> BOOLEAN] /\ removed' \in [Slot -> BOOLEAN]
    BY <1>15, <2>1 DEF Publish, TypeOK
  <2>5. entries' \in [Key -> Slot \cup {NoSlot}] /\ lru' \in Seq(Key)
    BY <1>15, <2>1 DEF Publish, TypeOK
  <2> QED BY <1>15, <2>1, <2>2, <2>3, <2>4, <2>5
        DEF TypeOK, PC, Publish, slotVars, gcVars, Goto, NotifyChanged
<1>16. CASE Release(t)
  <2>1. slot[t] \in Slot
    BY <1>16 DEF Release, LocalInv
  <2> QED BY <1>16, <2>1, ReleaseType, ReturnType
     DEF TypeOK, Release, stateVars, slotVars
<1>17. CASE GcLock(t)
  BY <1>17 DEF TypeOK, PC, Mode, GcLock, stateVars, leaseVars, slotVars, Goto
<1>18. CASE GcTake(t)
  <2>1. lru[idx[t]] \in Key /\ GcSlot(t) \in Slot
    BY <1>18 DEF GcTake, GcMore, GcSlot, LocalInv, LruInv, TypeOK
  <2>2. /\ pending' \subseteq Key /\ entries' \in [Key -> Slot \cup {NoSlot}]
        /\ lru' \in Seq(Key) /\ cost' \in 0..MaxCost
    BY <1>18, <2>1, UnpublishType DEF GcTake, LruInv
  <2>3. bag' \in [Thread -> Seq(Slot)]
    BY <1>18, <2>1 DEF GcTake, TypeOK
  <2> QED BY <1>18, <2>1, <2>2, <2>3 DEF TypeOK, GcTake, slotVars
<1>19. CASE GcSkip(t)
  <2>1. /\ idx' = [idx EXCEPT ![t] = @ + 1]
        /\ UNCHANGED <<stateVars, leaseVars, slotVars, ratio, bag, lock, live, pc, op,
                      key, mode, slot, gced, asleep, failed>>
    BY <1>19 DEF GcSkip
  <2> QED BY <2>1 DEF TypeOK, PC, Mode, stateVars, leaseVars, slotVars
<1>20. CASE GcUnlock(t)
  BY <1>20 DEF TypeOK, PC, Mode, GcUnlock, stateVars, leaseVars, slotVars,
     gcVars, Goto
<1>21. ASSUME NEW p \in BOOLEAN, GcCleanup(t, p)
      PROVE TypeOK'
  BY <1>21 DEF TypeOK, PC, Mode, GcCleanup, stateVars, leaseVars, slotVars,
     gcVars, Goto
<1>22. CASE GcFinishPending(t)
  <2>1. bag[t] \in Seq(Slot) /\ bag[t] # <<>>
    BY <1>22 DEF GcFinishPending, TypeOK, PassInv
  <2>2. Tail(bag[t]) \in Seq(Slot)
    BY <2>1
  <2> QED BY <1>22, <2>2
     DEF TypeOK, PC, GcFinishPending, leaseVars, slotVars, Goto, NotifyChanged
<1>23. CASE GcReturn(t)
  <2>1. CASE op[t] = "acquire" /\ ~failed[t]
    BY <1>23, <2>1 DEF TypeOK, PC, GcReturn, stateVars, leaseVars, slotVars, Goto
  <2>2. CASE ~(op[t] = "acquire" /\ ~failed[t])
    BY <1>23, <2>2, ReturnType DEF TypeOK, GcReturn, stateVars, leaseVars, slotVars
  <2> QED BY <2>1, <2>2
<1>24. ASSUME NEW k \in Key, NEW m \in Mode, StartAcquire(t, k, m)
      PROVE TypeOK'
  BY <1>24 DEF TypeOK, PC, Mode, StartAcquire, stateVars, leaseVars, slotVars,
     gcVars, Goto
<1>25. ASSUME NEW k \in Key, NEW m \in Mode, TryAcquire(t, k, m)
      PROVE TypeOK'
  <2>1. entries[k] \in Slot
    BY <1>25 DEF TryAcquire, TypeOK
  <2>2. readers' \in [Slot -> Nat] /\ writer' \in [Slot -> BOOLEAN] /\ lru' \in Seq(Key)
    BY <1>25, <2>1, HoldType, TouchType DEF TryAcquire, LruInv
  <2> QED BY <1>25, <2>1, <2>2 DEF TypeOK, PC, TryAcquire, slotVars, gcVars, Goto
<1>26. ASSUME NEW k \in Key, StartRemove(t, k)
      PROVE TypeOK'
  BY <1>26 DEF TypeOK, PC, Mode, StartRemove, stateVars, leaseVars, slotVars,
     gcVars, Goto
<1>27. ASSUME NEW q \in Quotas, SetCostQuota(t, q)
      PROVE TypeOK'
  BY <1>27 DEF TypeOK, PC, Mode, SetCostQuota, leaseVars, slotVars, gcVars
<1>28. ASSUME NEW r \in Ratios, StartGc(t, r)
      PROVE TypeOK'
  BY <1>28 DEF TypeOK, PC, Mode, StartGc, stateVars, leaseVars, slotVars, Goto
<1>29. CASE Demote(t)
  BY <1>29 DEF TypeOK, PC, Mode, Demote, stateVars, slotVars, gcVars,
     DemotedReaders
<1> QED
  BY <1>1, <1>2, <1>3, <1>4, <1>5, <1>6, <1>7, <1>8, <1>9, <1>10, <1>11,
     <1>12, <1>13, <1>14, <1>15, <1>16, <1>17, <1>18, <1>19, <1>20, <1>21,
     <1>22, <1>23, <1>24, <1>25, <1>26, <1>27, <1>28, <1>29 DEF Step, Call

(* Every step keeps the meaning of the threads' locals. *)
LEMMA LocalStep ==
  ASSUME IndInv, NEW t \in Thread, Step(t) \/ Call(t)
  PROVE  LocalInv'
<1> USE CacheConstants DEF IndInv
<1>1. CASE LookupHit(t)
  BY <1>1 DEF TypeOK, LocalInv, LookupHit, stateVars, leaseVars, slotVars,
     gcVars, Goto
<1>2. CASE LookupPending(t)
  BY <1>2 DEF TypeOK, LocalInv, LookupPending, stateVars, leaseVars, slotVars,
     gcVars
<1>3. CASE LookupOver(t)
  BY <1>3 DEF TypeOK, LocalInv, LookupOver, stateVars, leaseVars, slotVars,
     Goto, OverAutomaticGcThreshold
<1>4. CASE LookupMiss(t)
  BY <1>4 DEF TypeOK, LocalInv, LookupMiss, leaseVars, slotVars, gcVars, Goto,
     OverAutomaticGcThreshold
<1>5. CASE RemoveMissing(t)
  BY <1>5, ReturnFacts DEF TypeOK, LocalInv, RemoveMissing, stateVars,
     leaseVars, slotVars
<1>6. CASE EntryAcquire(t)
  BY <1>6 DEF TypeOK, LocalInv, EntryAcquire, stateVars, slotVars, gcVars,
     Goto, Forget
<1>7. CASE ConfirmAcquire(t)
  BY <1>7 DEF TypeOK, LocalInv, ConfirmAcquire, slotVars, gcVars, Goto,
     Forget, StillPublished
<1>8. CASE ConfirmRemove(t)
  BY <1>8 DEF TypeOK, LocalInv, ConfirmRemove, slotVars, gcVars, Goto, Forget,
     StillPublished
<1>9. CASE TakeValue(t)
  BY <1>9 DEF TypeOK, LocalInv, TakeValue, stateVars, slotVars, gcVars, Goto
<1>10. CASE Cleanup(t)
  BY <1>10 DEF TypeOK, LocalInv, Cleanup, stateVars, leaseVars, slotVars,
     gcVars, Goto
<1>11. CASE FinishPending(t)
  BY <1>11, ReturnFacts DEF TypeOK, LocalInv, FinishPending, leaseVars,
     slotVars, NotifyChanged
<1>12. ASSUME NEW c \in Costs, Allocate(t, c)
      PROVE LocalInv'
  BY <1>12, NewSlotIsFree DEF TypeOK, LocalInv, Allocate, stateVars,
     leaseVars, gcVars, Goto
<1>13. CASE AllocateFails(t)
  BY <1>13 DEF TypeOK, LocalInv, AllocateFails, stateVars, leaseVars,
     slotVars, gcVars, Goto
<1>14. CASE CostOverflow(t)
  BY <1>14 DEF TypeOK, LocalInv, CostOverflow, stateVars, leaseVars, slotVars,
     gcVars, Goto, FitsUsize
<1>15. CASE Publish(t)
  BY <1>15 DEF TypeOK, LocalInv, Publish, slotVars, gcVars, Goto,
     NotifyChanged, FitsUsize
<1>16. CASE Release(t)
  BY <1>16, ReturnFacts DEF TypeOK, LocalInv, Release, stateVars, slotVars
<1>17. CASE GcLock(t)
  BY <1>17 DEF TypeOK, LocalInv, GcLock, stateVars, leaseVars, slotVars, Goto
<1>18. CASE GcTake(t)
  BY <1>18 DEF TypeOK, LocalInv, GcTake, slotVars, GcSlot
<1>19. CASE GcSkip(t)
  BY <1>19 DEF TypeOK, LocalInv, GcSkip, stateVars, leaseVars, slotVars,
     GcSlot
<1>20. CASE GcUnlock(t)
  BY <1>20 DEF TypeOK, LocalInv, GcUnlock, stateVars, leaseVars, slotVars,
     gcVars, Goto
<1>21. ASSUME NEW p \in BOOLEAN, GcCleanup(t, p)
      PROVE LocalInv'
  BY <1>21 DEF TypeOK, LocalInv, GcCleanup, stateVars, leaseVars, slotVars,
     gcVars, Goto
<1>22. CASE GcFinishPending(t)
  BY <1>22 DEF TypeOK, LocalInv, GcFinishPending, leaseVars, slotVars, Goto,
     NotifyChanged
<1>23. CASE GcReturn(t)
  <2>1. CASE op[t] = "acquire" /\ ~failed[t]
    BY <1>23, <2>1 DEF TypeOK, LocalInv, GcReturn, Goto
  <2>2. CASE ~(op[t] = "acquire" /\ ~failed[t])
    BY <1>23, <2>2, ReturnFacts DEF LocalInv, GcReturn
  <2> QED BY <2>1, <2>2
<1>24. ASSUME NEW k \in Key, NEW m \in Mode, StartAcquire(t, k, m)
      PROVE LocalInv'
  BY <1>24 DEF TypeOK, LocalInv, StartAcquire, stateVars, leaseVars, slotVars,
     gcVars, Goto
<1>25. ASSUME NEW k \in Key, NEW m \in Mode, TryAcquire(t, k, m)
      PROVE LocalInv'
  BY <1>25 DEF TypeOK, LocalInv, TryAcquire, slotVars, gcVars, Goto
<1>26. ASSUME NEW k \in Key, StartRemove(t, k)
      PROVE LocalInv'
  BY <1>26 DEF TypeOK, LocalInv, StartRemove, stateVars, leaseVars, slotVars,
     gcVars, Goto
<1>27. ASSUME NEW q \in Quotas, SetCostQuota(t, q)
      PROVE LocalInv'
  BY <1>27 DEF TypeOK, LocalInv, SetCostQuota, leaseVars, slotVars, gcVars
<1>28. ASSUME NEW r \in Ratios, StartGc(t, r)
      PROVE LocalInv'
  BY <1>28 DEF TypeOK, LocalInv, StartGc, stateVars, leaseVars, slotVars, Goto
<1>29. CASE Demote(t)
  BY <1>29 DEF TypeOK, LocalInv, Demote, stateVars, slotVars, gcVars,
     DemotedReaders
<1> QED
  BY <1>1, <1>2, <1>3, <1>4, <1>5, <1>6, <1>7, <1>8, <1>9, <1>10, <1>11,
     <1>12, <1>13, <1>14, <1>15, <1>16, <1>17, <1>18, <1>19, <1>20, <1>21,
     <1>22, <1>23, <1>24, <1>25, <1>26, <1>27, <1>28, <1>29 DEF Step, Call

-----------------------------------------------------------------------------
(* The lease count: taking, giving up and demoting a lease.                 *)

(* The other threads hold what they held; and: every thread does.            *)
SameHolders(t) ==
  \A u \in Thread : u # t =>
    \A s \in Slot : \A m \in Mode : Holds(u, s, m)' <=> Holds(u, s, m)

SameLeases ==
  \A u \in Thread : \A s \in Slot : \A m \in Mode : Holds(u, s, m)' <=> Holds(u, s, m)

(* A step that changes no lease and no holder keeps the lease counts. *)
LEMMA HoldersUnchanged ==
  ASSUME LeaseInv, UNCHANGED <<readers, writer>>,
         SameLeases
  PROVE  LeaseInv'
<1>1. \A s \in Slot : ReadHolders(s)' = ReadHolders(s) /\ WriteHolders(s)' = WriteHolders(s)
  BY DEF SameLeases, ReadHolders, WriteHolders, Mode
<1> QED BY <1>1 DEF LeaseInv

(* Taking an available lease counts its new holder. *)
LEMMA HoldKeepsLeaseInv ==
  ASSUME TypeOK, LeaseInv, NEW t \in Thread, NEW s \in Slot, NEW m \in Mode,
         Available(s, m), Hold(s, m), SameHolders(t),
         \A r \in Slot : \A n \in Mode : ~Holds(t, r, n),
         \A r \in Slot : \A n \in Mode : Holds(t, r, n)' <=> r = s /\ n = m
  PROVE  LeaseInv'
<1> USE DEF Mode
<1>1. \A r \in Slot : r # s => /\ ReadHolders(r)' = ReadHolders(r)
                               /\ WriteHolders(r)' = WriteHolders(r)
  BY DEF ReadHolders, WriteHolders, SameHolders
<1>2. \A r \in Slot : r # s => readers'[r] = readers[r] /\ writer'[r] = writer[r]
  BY DEF Hold, TypeOK
<1>3. CASE m = "Read"
  <2>1. ReadHolders(s)' = ReadHolders(s) \cup {t} /\ t \notin ReadHolders(s)
    BY <1>3 DEF ReadHolders, SameHolders
  <2>2. WriteHolders(s)' = WriteHolders(s)
    BY <1>3 DEF WriteHolders, SameHolders
  <2>3. WriteHolders(s) = {}
    BY <1>3 DEF Available, LeaseInv
  <2>4. IsFiniteSet(ReadHolders(s))
    BY CacheConstants, FS_Subset DEF ReadHolders
  <2>5. Cardinality(ReadHolders(s)') = Cardinality(ReadHolders(s)) + 1
    BY <2>1, <2>4, FS_AddElement
  <2>6. readers'[s] = readers[s] + 1 /\ writer'[s] = writer[s]
    BY <1>3 DEF Hold, TypeOK
  <2>7. readers'[s] = Cardinality(ReadHolders(s)')
    BY <2>5, <2>6 DEF LeaseInv
  <2> QED BY <1>1, <1>2, <2>2, <2>3, <2>6, <2>7 DEF LeaseInv
<1>4. CASE m = "Write"
  <2>1. WriteHolders(s)' = WriteHolders(s) \cup {t}
    BY <1>4 DEF WriteHolders, SameHolders
  <2>2. ReadHolders(s)' = ReadHolders(s)
    BY <1>4 DEF ReadHolders, SameHolders
  <2>3. readers[s] = 0 /\ ~writer[s]
    BY <1>4 DEF Available
  <2>4. WriteHolders(s) = {}
    BY <2>3 DEF LeaseInv
  <2>5. IsFiniteSet(ReadHolders(s))
    BY CacheConstants, FS_Subset DEF ReadHolders
  <2>6. ReadHolders(s) = {}
    BY <2>3, <2>5, FS_EmptySet DEF LeaseInv
  <2>7. readers'[s] = readers[s] /\ writer'[s] = TRUE
    BY <1>4 DEF Hold, TypeOK
  <2> QED BY <1>1, <1>2, <2>1, <2>2, <2>4, <2>6, <2>7 DEF LeaseInv
<1> QED BY <1>3, <1>4

(* Giving a lease up uncounts its holder. *)
LEMMA ReleaseKeepsLeaseInv ==
  ASSUME TypeOK, LeaseInv, NEW t \in Thread, NEW s \in Slot, NEW m \in Mode,
         Holds(t, s, m), ReleaseLease(s, m), SameHolders(t),
         \A r \in Slot : \A n \in Mode : ~Holds(t, r, n)'
  PROVE  LeaseInv'
<1> USE DEF Mode
<1>1. \A r \in Slot : r # s => /\ ReadHolders(r)' = ReadHolders(r)
                               /\ WriteHolders(r)' = WriteHolders(r)
  BY DEF ReadHolders, WriteHolders, SameHolders, Holds
<1>2. \A r \in Slot : r # s => readers'[r] = readers[r] /\ writer'[r] = writer[r]
  BY DEF ReleaseLease, TypeOK
<1>3. CASE m = "Read"
  <2>1. ReadHolders(s)' = ReadHolders(s) \ {t} /\ t \in ReadHolders(s)
    BY <1>3 DEF ReadHolders, SameHolders
  <2>2. WriteHolders(s)' = WriteHolders(s)
    BY <1>3 DEF WriteHolders, SameHolders, Holds
  <2>3. IsFiniteSet(ReadHolders(s))
    BY CacheConstants, FS_Subset DEF ReadHolders
  <2>4. Cardinality(ReadHolders(s)') = Cardinality(ReadHolders(s)) - 1
    BY <2>1, <2>3, FS_RemoveElement
  <2>5. Cardinality(ReadHolders(s)) # 0
    BY <2>1, <2>3, FS_EmptySet
  <2>6. readers'[s] = readers[s] - 1 /\ writer'[s] = writer[s]
    BY <1>3, <2>5 DEF ReleaseLease, TypeOK, LeaseInv
  <2>7. readers'[s] = Cardinality(ReadHolders(s)')
    BY <2>4, <2>6 DEF LeaseInv
  <2>8. ~writer[s]
    BY <2>1 DEF LeaseInv
  <2> QED BY <1>1, <1>2, <2>2, <2>6, <2>7, <2>8 DEF LeaseInv
<1>4. CASE m = "Write"
  <2>1. t \in WriteHolders(s)
    BY <1>4 DEF WriteHolders
  <2>2. WriteHolders(s) = {t} /\ ReadHolders(s) = {}
    BY <2>1 DEF LeaseInv
  <2>3. WriteHolders(s)' = {}
    BY <2>2 DEF WriteHolders, SameHolders
  <2>4. ReadHolders(s)' = ReadHolders(s)
    BY <1>4 DEF ReadHolders, SameHolders, Holds
  <2>5. readers'[s] = readers[s] /\ writer'[s] = FALSE
    BY <1>4 DEF ReleaseLease, TypeOK
  <2> QED BY <1>1, <1>2, <2>2, <2>3, <2>4, <2>5 DEF LeaseInv
<1> QED BY <1>3, <1>4

(* CacheWriteLease::demote turns the one writer into the one reader. *)
LEMMA DemoteKeepsLeaseInv ==
  ASSUME TypeOK, LeaseInv, NEW t \in Thread, Demote(t), slot[t] \in Slot
  PROVE  LeaseInv'
<1> SUFFICES ASSUME NEW s \in Slot, s = slot[t] PROVE LeaseInv'
  OBVIOUS
<1>1. t \in WriteHolders(s)
  BY DEF Demote, WriteHolders, Holds
<1>2. WriteHolders(s) = {t} /\ ReadHolders(s) = {}
  BY <1>1 DEF LeaseInv
<1>3. \A u \in Thread : \A r \in Slot : u # t \/ r # s =>
        \A m \in Mode : Holds(u, r, m)' <=> Holds(u, r, m)
  BY DEF Demote, Holds, TypeOK
<1>4. Holds(t, s, "Read")' /\ ~Holds(t, s, "Write")'
  BY DEF Demote, Holds, TypeOK
<1>5. \A r \in Slot : r # s => /\ ReadHolders(r)' = ReadHolders(r)
                               /\ WriteHolders(r)' = WriteHolders(r)
  BY <1>3 DEF ReadHolders, WriteHolders, Mode
<1>6. \A u \in Thread : u # t =>
        ~Holds(u, s, "Read")' /\ ~Holds(u, s, "Write")'
  <2> TAKE u \in Thread
  <2> HAVE u # t
  <2>1. ~Holds(u, s, "Read") /\ ~Holds(u, s, "Write")
    BY <1>2 DEF ReadHolders, WriteHolders
  <2> QED BY <2>1, <1>3 DEF Mode
<1>7. WriteHolders(s)' = {} /\ ReadHolders(s)' = {t}
  BY <1>4, <1>6 DEF ReadHolders, WriteHolders
<1>8. Cardinality(ReadHolders(s)') = 1
  BY <1>7, FS_Singleton
<1>9. /\ readers'[s] = 1 /\ writer'[s] = FALSE
       /\ \A r \in Slot : r # s => readers'[r] = readers[r] /\ writer'[r] = writer[r]
  BY DEF Demote, DemotedReaders, TypeOK
<1> QED
  <2> SUFFICES ASSUME NEW r \in Slot
               PROVE  /\ readers'[r] = Cardinality(ReadHolders(r)')
                      /\ writer'[r] <=> WriteHolders(r)' # {}
                      /\ writer'[r] => ReadHolders(r)' = {}
                      /\ \A t1, u1 \in WriteHolders(r)' : t1 = u1
    BY DEF LeaseInv
  <2>1. CASE r = s
    BY <2>1, <1>7, <1>8, <1>9
  <2>2. CASE r # s
    BY <2>2, <1>5, <1>9 DEF LeaseInv
  <2> QED BY <2>1, <2>2

(* Every step keeps the lease counts. *)
LEMMA LeaseStep ==
  ASSUME IndInv, NEW t \in Thread, Step(t) \/ Call(t)
  PROVE  LeaseInv'
<1> USE CacheConstants DEF IndInv
<1>1. CASE LookupHit(t)
  <2>1. SameLeases
    BY <1>1 DEF TypeOK, LookupHit, stateVars, leaseVars, slotVars, gcVars, Goto,
       SameLeases, Holds
  <2> QED
    BY <1>1, <2>1, HoldersUnchanged DEF LookupHit, stateVars, leaseVars
<1>2. CASE LookupPending(t)
  <2>1. SameLeases
    BY <1>2 DEF TypeOK, LookupPending, stateVars, leaseVars, slotVars, gcVars,
       SameLeases, Holds
  <2> QED
    BY <1>2, <2>1, HoldersUnchanged DEF LookupPending, stateVars, leaseVars
<1>3. CASE LookupOver(t)
  <2>1. SameLeases
    BY <1>3 DEF TypeOK, LookupOver, stateVars, leaseVars, slotVars, Goto,
       OverAutomaticGcThreshold, SameLeases, Holds
  <2> QED
    BY <1>3, <2>1, HoldersUnchanged DEF LookupOver, stateVars, leaseVars
<1>4. CASE LookupMiss(t)
  <2>1. SameLeases
    BY <1>4 DEF TypeOK, LookupMiss, leaseVars, slotVars, gcVars, Goto,
       OverAutomaticGcThreshold, SameLeases, Holds
  <2> QED
    BY <1>4, <2>1, HoldersUnchanged DEF LookupMiss, leaseVars
<1>5. CASE RemoveMissing(t)
  <2>1. /\ pc'[t] = "idle"
        /\ \A u \in Thread : u # t =>
             pc'[u] = pc[u] /\ slot'[u] = slot[u] /\ mode'[u] = mode[u]
    BY <1>5, ReturnFacts DEF RemoveMissing
  <2>2. SameLeases
    BY <1>5, <2>1 DEF RemoveMissing, SameLeases, Holds
  <2> QED BY <1>5, <2>2, HoldersUnchanged DEF RemoveMissing, stateVars, leaseVars
<1>6. CASE EntryAcquire(t)
  <2>1. slot[t] \in Slot /\ mode[t] \in Mode
    BY <1>6 DEF EntryAcquire, LocalInv, TypeOK
  <2>2. CASE UNCHANGED <<readers, writer>> /\ pc'[t] # "confirm"
    <3>1. SameLeases
      BY <1>6, <2>2 DEF EntryAcquire, Goto, Forget, SameLeases, Holds, TypeOK
    <3> QED BY <2>2, <3>1, HoldersUnchanged
  <2>3. CASE /\ Available(slot[t], mode[t]) /\ Hold(slot[t], mode[t])
             /\ Goto(t, "confirm") /\ UNCHANGED slot
    <3>1. SameHolders(t)
      BY <1>6, <2>3 DEF EntryAcquire, SameHolders, Holds, Goto, TypeOK
    <3>2. \A r \in Slot : \A n \in Mode : ~Holds(t, r, n)
      BY <1>6 DEF EntryAcquire, Holds
    <3>3. \A r \in Slot : \A n \in Mode : Holds(t, r, n)' <=> r = slot[t] /\ n = mode[t]
      BY <1>6, <2>3 DEF EntryAcquire, Holds, Goto, TypeOK
    <3> QED BY <2>1, <2>3, <3>1, <3>2, <3>3, HoldKeepsLeaseInv
  <2> QED BY <1>6, <2>2, <2>3 DEF EntryAcquire, Goto, TypeOK
<1>7. CASE ConfirmAcquire(t)
  <2>1. slot[t] \in Slot /\ mode[t] \in Mode /\ Holds(t, slot[t], mode[t])
    BY <1>7 DEF ConfirmAcquire, LocalInv, TypeOK, Holds
  <2>2. CASE StillPublished(t)
    <3>1. SameLeases
      BY <1>7, <2>2 DEF ConfirmAcquire, Goto, SameLeases, Holds, TypeOK
    <3> QED BY <1>7, <2>2, <3>1, HoldersUnchanged DEF ConfirmAcquire
  <2>3. CASE ~StillPublished(t)
    <3>1. SameHolders(t)
      BY <1>7, <2>3 DEF ConfirmAcquire, SameHolders, Holds, Goto, Forget, TypeOK
    <3>2. \A r \in Slot : \A n \in Mode : ~Holds(t, r, n)'
      BY <1>7, <2>3 DEF ConfirmAcquire, Holds, Goto, TypeOK
    <3> QED BY <1>7, <2>1, <2>3, <3>1, <3>2, ReleaseKeepsLeaseInv DEF ConfirmAcquire
  <2> QED BY <2>2, <2>3
<1>8. CASE ConfirmRemove(t)
  <2>1. slot[t] \in Slot /\ mode[t] \in Mode /\ Holds(t, slot[t], mode[t])
    BY <1>8 DEF ConfirmRemove, LocalInv, TypeOK, Holds
  <2>2. CASE StillPublished(t)
    <3>1. SameLeases
      BY <1>8, <2>2 DEF ConfirmRemove, Goto, SameLeases, Holds, TypeOK
    <3> QED BY <1>8, <2>2, <3>1, HoldersUnchanged DEF ConfirmRemove
  <2>3. CASE ~StillPublished(t)
    <3>1. SameHolders(t)
      BY <1>8, <2>3 DEF ConfirmRemove, SameHolders, Holds, Goto, Forget, TypeOK
    <3>2. \A r \in Slot : \A n \in Mode : ~Holds(t, r, n)'
      BY <1>8, <2>3 DEF ConfirmRemove, Holds, Goto, TypeOK
    <3> QED BY <1>8, <2>1, <2>3, <3>1, <3>2, ReleaseKeepsLeaseInv DEF ConfirmRemove
  <2> QED BY <2>2, <2>3
<1>9. CASE TakeValue(t)
  <2>1. slot[t] \in Slot /\ mode[t] \in Mode /\ Holds(t, slot[t], mode[t])
    BY <1>9 DEF TakeValue, LocalInv, TypeOK, Holds
  <2>2. SameHolders(t)
    BY <1>9 DEF TakeValue, SameHolders, Holds, Goto, TypeOK
  <2>3. \A r \in Slot : \A n \in Mode : ~Holds(t, r, n)'
    BY <1>9 DEF TakeValue, Holds, Goto, TypeOK
  <2> QED BY <1>9, <2>1, <2>2, <2>3, ReleaseKeepsLeaseInv DEF TakeValue, LocalInv
<1>10. CASE Cleanup(t)
  <2>1. SameLeases
    BY <1>10 DEF TypeOK, Cleanup, stateVars, leaseVars, slotVars, gcVars, Goto,
       SameLeases, Holds
  <2> QED
    BY <1>10, <2>1, HoldersUnchanged DEF Cleanup, stateVars, leaseVars
<1>11. CASE FinishPending(t)
  <2>1. /\ pc'[t] = "idle"
        /\ \A u \in Thread : u # t =>
             pc'[u] = pc[u] /\ slot'[u] = slot[u] /\ mode'[u] = mode[u]
    BY <1>11, ReturnFacts DEF FinishPending
  <2>2. SameLeases
    BY <1>11, <2>1 DEF FinishPending, SameLeases, Holds
  <2> QED BY <1>11, <2>2, HoldersUnchanged DEF FinishPending, stateVars, leaseVars
<1>12. ASSUME NEW c \in Costs, Allocate(t, c)
      PROVE LeaseInv'
  <2>1. SameLeases
    BY <1>12 DEF TypeOK, Allocate, stateVars, leaseVars, gcVars, Goto, SameLeases, Holds
  <2> QED
    BY <1>12, <2>1, HoldersUnchanged DEF Allocate, stateVars, leaseVars
<1>13. CASE AllocateFails(t)
  <2>1. SameLeases
    BY <1>13 DEF TypeOK, AllocateFails, stateVars, leaseVars, slotVars, gcVars,
       Goto, SameLeases, Holds
  <2> QED
    BY <1>13, <2>1, HoldersUnchanged DEF AllocateFails, stateVars, leaseVars
<1>14. CASE CostOverflow(t)
  <2>1. SameLeases
    BY <1>14 DEF TypeOK, CostOverflow, stateVars, leaseVars, slotVars, gcVars,
       Goto, FitsUsize, SameLeases, Holds
  <2> QED
    BY <1>14, <2>1, HoldersUnchanged DEF CostOverflow, stateVars, leaseVars
<1>15. CASE Publish(t)
  <2> DEFINE h == IF CallbackBacked THEN "Write" ELSE mode[t]
  <2>1. slot[t] \in Slot /\ h \in Mode
    BY <1>15 DEF Publish, LocalInv, TypeOK, Mode
  <2>2. \A u \in Thread : \A n \in Mode : ~Holds(u, slot[t], n)
    BY <1>15 DEF Publish, FreshInv, Holds
  <2>3. ReadHolders(slot[t]) = {} /\ WriteHolders(slot[t]) = {}
    BY <2>2 DEF ReadHolders, WriteHolders, Mode
  <2>4. readers[slot[t]] = 0 /\ ~writer[slot[t]]
    BY <2>1, <2>3, FS_EmptySet DEF LeaseInv
  <2>5. Available(slot[t], h) /\ Hold(slot[t], h)
    <3>1. CASE h = "Read"
      BY <1>15, <3>1, <2>1, <2>4 DEF Publish, Available, Hold, TypeOK
    <3>2. CASE h = "Write"
      BY <1>15, <3>2, <2>1, <2>4 DEF Publish, Available, Hold, TypeOK
    <3> QED BY <2>1, <3>1, <3>2 DEF Mode
  <2>6. SameHolders(t)
    BY <1>15 DEF Publish, SameHolders, Holds, Goto, TypeOK
  <2>7. \A r \in Slot : \A n \in Mode : ~Holds(t, r, n)
    BY <1>15 DEF Publish, Holds
  <2>8. \A r \in Slot : \A n \in Mode : Holds(t, r, n)' <=> r = slot[t] /\ n = h
    BY <1>15 DEF Publish, Holds, Goto, TypeOK
  <2> HIDE DEF h
  <2> QED BY <2>1, <2>5, <2>6, <2>7, <2>8, HoldKeepsLeaseInv
<1>16. CASE Release(t)
  <2>1. slot[t] \in Slot /\ mode[t] \in Mode /\ Holds(t, slot[t], mode[t])
    BY <1>16 DEF Release, LocalInv, TypeOK, Holds
  <2>2. /\ pc'[t] = "idle"
        /\ \A u \in Thread : u # t =>
             pc'[u] = pc[u] /\ slot'[u] = slot[u] /\ mode'[u] = mode[u]
    BY <1>16, ReturnFacts DEF Release
  <2>3. SameHolders(t)
    BY <2>2 DEF SameHolders, Holds
  <2>4. \A r \in Slot : \A n \in Mode : ~Holds(t, r, n)'
    BY <2>2 DEF Holds
  <2> QED BY <1>16, <2>1, <2>3, <2>4, ReleaseKeepsLeaseInv DEF Release
<1>17. CASE GcLock(t)
  <2>1. SameLeases
    BY <1>17 DEF TypeOK, GcLock, stateVars, leaseVars, slotVars, Goto, SameLeases, Holds
  <2> QED
    BY <1>17, <2>1, HoldersUnchanged DEF GcLock, stateVars, leaseVars
<1>18. CASE GcTake(t)
  <2>1. SameLeases
    BY <1>18 DEF TypeOK, GcTake, slotVars, Unpublish, GcSlot, SameLeases, Holds
  <2> QED
    BY <1>18, <2>1, HoldersUnchanged DEF GcTake
<1>19. CASE GcSkip(t)
  <2>1. SameLeases
    BY <1>19 DEF TypeOK, GcSkip, stateVars, leaseVars, slotVars, GcSlot, SameLeases, Holds
  <2> QED
    BY <1>19, <2>1, HoldersUnchanged DEF GcSkip, stateVars, leaseVars
<1>20. CASE GcUnlock(t)
  <2>1. SameLeases
    BY <1>20 DEF TypeOK, GcUnlock, stateVars, leaseVars, slotVars, gcVars, Goto,
       SameLeases, Holds
  <2> QED
    BY <1>20, <2>1, HoldersUnchanged DEF GcUnlock, stateVars, leaseVars
<1>21. ASSUME NEW p \in BOOLEAN, GcCleanup(t, p)
      PROVE LeaseInv'
  <2>1. SameLeases
    BY <1>21 DEF TypeOK, GcCleanup, stateVars, leaseVars, slotVars, gcVars, Goto,
       SameLeases, Holds
  <2> QED
    BY <1>21, <2>1, HoldersUnchanged DEF GcCleanup, stateVars, leaseVars
<1>22. CASE GcFinishPending(t)
  <2>1. SameLeases
    BY <1>22 DEF TypeOK, GcFinishPending, leaseVars, slotVars, Goto, NotifyChanged,
       SameLeases, Holds
  <2> QED
    BY <1>22, <2>1, HoldersUnchanged DEF GcFinishPending, leaseVars
<1>23. CASE GcReturn(t)
  <2>1. SameLeases
    BY <1>23, ReturnFacts DEF TypeOK, GcReturn, stateVars, leaseVars, slotVars,
       Goto, SameLeases, Holds
  <2> QED
    BY <1>23, <2>1, HoldersUnchanged DEF GcReturn, stateVars, leaseVars
<1>24. ASSUME NEW k \in Key, NEW m \in Mode, StartAcquire(t, k, m)
      PROVE LeaseInv'
  <2>1. SameLeases
    BY <1>24 DEF TypeOK, StartAcquire, stateVars, leaseVars, slotVars, gcVars,
       Goto, SameLeases, Holds
  <2> QED
    BY <1>24, <2>1, HoldersUnchanged DEF StartAcquire, stateVars, leaseVars
<1>25. ASSUME NEW k \in Key, NEW m \in Mode, TryAcquire(t, k, m)
      PROVE LeaseInv'
  <2>1. entries[k] \in Slot
    BY <1>25 DEF TryAcquire, TypeOK
  <2>2. SameHolders(t)
    BY <1>25 DEF TryAcquire, SameHolders, Holds, Goto, TypeOK
  <2>3. \A r \in Slot : \A n \in Mode : ~Holds(t, r, n)
    BY <1>25 DEF TryAcquire, Holds
  <2>4. \A r \in Slot : \A n \in Mode : Holds(t, r, n)' <=> r = entries[k] /\ n = m
    BY <1>25 DEF TryAcquire, Holds, Goto, TypeOK
  <2> QED BY <1>25, <2>1, <2>2, <2>3, <2>4, HoldKeepsLeaseInv DEF TryAcquire
<1>26. ASSUME NEW k \in Key, StartRemove(t, k)
      PROVE LeaseInv'
  <2>1. SameLeases
    BY <1>26 DEF TypeOK, StartRemove, stateVars, leaseVars, slotVars, gcVars, Goto,
       SameLeases, Holds
  <2> QED
    BY <1>26, <2>1, HoldersUnchanged DEF StartRemove, stateVars, leaseVars
<1>27. ASSUME NEW q \in Quotas, SetCostQuota(t, q)
      PROVE LeaseInv'
  <2>1. SameLeases
    BY <1>27 DEF TypeOK, SetCostQuota, leaseVars, slotVars, gcVars, SameLeases, Holds
  <2> QED
    BY <1>27, <2>1, HoldersUnchanged DEF SetCostQuota, leaseVars
<1>28. ASSUME NEW r \in Ratios, StartGc(t, r)
      PROVE LeaseInv'
  <2>1. SameLeases
    BY <1>28 DEF TypeOK, StartGc, stateVars, leaseVars, slotVars, Goto, SameLeases, Holds
  <2> QED
    BY <1>28, <2>1, HoldersUnchanged DEF StartGc, stateVars, leaseVars
<1>29. CASE Demote(t)
  <2>1. slot[t] \in Slot
    BY <1>29 DEF Demote, LocalInv
  <2> QED BY <1>29, <2>1, DemoteKeepsLeaseInv
<1> QED
  BY <1>1, <1>2, <1>3, <1>4, <1>5, <1>6, <1>7, <1>8, <1>9, <1>10, <1>11,
     <1>12, <1>13, <1>14, <1>15, <1>16, <1>17, <1>18, <1>19, <1>20, <1>21,
     <1>22, <1>23, <1>24, <1>25, <1>26, <1>27, <1>28, <1>29 DEF Step, Call

-----------------------------------------------------------------------------
(* A removal parks its key, and takes it out of the key map and the queue. *)
LEMMA UnpublishFacts ==
  ASSUME TypeOK, LruInv, NEW k \in Key, NEW s \in Slot, Unpublish(k, s)
  PROVE  /\ pending' = pending \cup {k}
         /\ entries'[k] = NoSlot
         /\ \A j \in Key : j # k => entries'[j] = entries[j]
         /\ Distinct(lru')
         /\ \A i \in 1..Len(lru') : lru'[i] # k /\ \E j \in 1..Len(lru) : lru'[i] = lru[j]
<1>1. lru \in Seq(Key) /\ Distinct(lru)
  BY DEF TypeOK, LruInv
<1>2. /\ Distinct(RemoveLruKey(lru, k))
      /\ \A i \in 1..Len(RemoveLruKey(lru, k)) :
           /\ RemoveLruKey(lru, k)[i] # k
           /\ \E j \in 1..Len(lru) : RemoveLruKey(lru, k)[i] = lru[j]
  BY <1>1, RemoveLruKeyFacts
<1>3. lru' = RemoveLruKey(lru, k)
  BY DEF Unpublish
<1>4. /\ Distinct(lru')
      /\ \A i \in 1..Len(lru') : lru'[i] # k /\ \E j \in 1..Len(lru) : lru'[i] = lru[j]
  BY <1>2, <1>3
<1> QED BY <1>4 DEF TypeOK, Unpublish

(* touch_mru keeps the queue duplicate-free and over published keys. *)
LEMMA TouchFacts ==
  ASSUME TypeOK, LruInv, NEW k \in Key, TouchMru(k), entries[k] # NoSlot
  PROVE  /\ Distinct(lru')
         /\ \A i \in 1..Len(lru') : entries[lru'[i]] # NoSlot
<1>1. lru \in Seq(Key) /\ Distinct(lru)
  BY DEF TypeOK, LruInv
<1>2. PICK q \in Seq(Key) : q = RemoveLruKey(lru, k)
  BY <1>1, RemoveLruKeyFacts
<1>3. /\ lru' = Append(q, k) /\ Distinct(q)
      /\ \A i \in 1..Len(q) : q[i] # k /\ \E j \in 1..Len(lru) : q[i] = lru[j]
  <2>1. /\ Distinct(RemoveLruKey(lru, k))
        /\ \A i \in 1..Len(RemoveLruKey(lru, k)) :
             /\ RemoveLruKey(lru, k)[i] # k
             /\ \E j \in 1..Len(lru) : RemoveLruKey(lru, k)[i] = lru[j]
    BY <1>1, RemoveLruKeyFacts
  <2> QED BY <1>2, <2>1 DEF TouchMru
<1>4. /\ Len(lru') = Len(q) + 1 /\ lru'[Len(q) + 1] = k
      /\ \A i \in 1..Len(q) : lru'[i] = q[i]
  BY <1>3
<1>5. Distinct(lru')
  BY <1>3, <1>4 DEF Distinct
<1>6. \A i \in 1..Len(q) : entries[q[i]] # NoSlot
  BY <1>3 DEF LruInv
<1> QED BY <1>3, <1>4, <1>5, <1>6

(* A step of one thread leaves the locals of every other thread alone.       *)
Others(t) ==
  \A u \in Thread : u # t =>
    /\ pc'[u] = pc[u] /\ op'[u] = op[u] /\ key'[u] = key[u] /\ mode'[u] = mode[u]
    /\ slot'[u] = slot[u] /\ bag'[u] = bag[u] /\ idx'[u] = idx[u]

(* Each step of the model satisfies Others. *)
LEMMA OthersUnchanged ==
  ASSUME TypeOK, NEW t \in Thread, Step(t) \/ Call(t)
  PROVE  Others(t)
<1>1. CASE LookupHit(t)
  BY <1>1 DEF TypeOK, Others, LookupHit, stateVars, leaseVars, slotVars,
     gcVars, Goto
<1>2. CASE LookupPending(t)
  BY <1>2 DEF TypeOK, Others, LookupPending, stateVars, leaseVars, slotVars,
     gcVars
<1>3. CASE LookupOver(t)
  BY <1>3 DEF TypeOK, Others, LookupOver, stateVars, leaseVars, slotVars,
     Goto, OverAutomaticGcThreshold
<1>4. CASE LookupMiss(t)
  BY <1>4 DEF TypeOK, Others, LookupMiss, leaseVars, slotVars, gcVars, Goto,
     OverAutomaticGcThreshold
<1>5. CASE RemoveMissing(t)
  BY <1>5, ReturnFacts DEF TypeOK, Others, RemoveMissing, stateVars,
     leaseVars, slotVars
<1>6. CASE EntryAcquire(t)
  BY <1>6 DEF TypeOK, Others, EntryAcquire, stateVars, slotVars, gcVars, Goto,
     Forget
<1>7. CASE ConfirmAcquire(t)
  BY <1>7 DEF TypeOK, Others, ConfirmAcquire, slotVars, gcVars, Goto, Forget,
     StillPublished
<1>8. CASE ConfirmRemove(t)
  BY <1>8 DEF TypeOK, Others, ConfirmRemove, slotVars, gcVars, Goto, Forget,
     StillPublished
<1>9. CASE TakeValue(t)
  BY <1>9 DEF TypeOK, Others, TakeValue, stateVars, slotVars, gcVars, Goto
<1>10. CASE Cleanup(t)
  BY <1>10 DEF TypeOK, Others, Cleanup, stateVars, leaseVars, slotVars,
     gcVars, Goto
<1>11. CASE FinishPending(t)
  BY <1>11, ReturnFacts DEF TypeOK, Others, FinishPending, leaseVars,
     slotVars, NotifyChanged
<1>12. ASSUME NEW c \in Costs, Allocate(t, c)
      PROVE Others(t)
  BY <1>12 DEF TypeOK, Others, Allocate, stateVars, leaseVars, gcVars, Goto
<1>13. CASE AllocateFails(t)
  BY <1>13 DEF TypeOK, Others, AllocateFails, stateVars, leaseVars, slotVars,
     gcVars, Goto
<1>14. CASE CostOverflow(t)
  BY <1>14 DEF TypeOK, Others, CostOverflow, stateVars, leaseVars, slotVars,
     gcVars, Goto, FitsUsize
<1>15. CASE Publish(t)
  BY <1>15 DEF TypeOK, Others, Publish, slotVars, gcVars, Goto, NotifyChanged,
     FitsUsize
<1>16. CASE Release(t)
  BY <1>16, ReturnFacts DEF TypeOK, Others, Release, stateVars, slotVars
<1>17. CASE GcLock(t)
  BY <1>17 DEF TypeOK, Others, GcLock, stateVars, leaseVars, slotVars, Goto
<1>18. CASE GcTake(t)
  BY <1>18 DEF TypeOK, Others, GcTake, slotVars, GcSlot
<1>19. CASE GcSkip(t)
  BY <1>19 DEF TypeOK, Others, GcSkip, stateVars, leaseVars, slotVars, GcSlot
<1>20. CASE GcUnlock(t)
  BY <1>20 DEF TypeOK, Others, GcUnlock, stateVars, leaseVars, slotVars,
     gcVars, Goto
<1>21. ASSUME NEW p \in BOOLEAN, GcCleanup(t, p)
      PROVE Others(t)
  BY <1>21 DEF TypeOK, Others, GcCleanup, stateVars, leaseVars, slotVars,
     gcVars, Goto
<1>22. CASE GcFinishPending(t)
  BY <1>22 DEF TypeOK, Others, GcFinishPending, leaseVars, slotVars, Goto,
     NotifyChanged
<1>23. CASE GcReturn(t)
  <2>1. CASE op[t] = "acquire" /\ ~failed[t]
    BY <1>23, <2>1 DEF TypeOK, Others, GcReturn, Goto
  <2>2. CASE ~(op[t] = "acquire" /\ ~failed[t])
    BY <1>23, <2>2, ReturnFacts DEF Others, GcReturn
  <2> QED BY <2>1, <2>2
<1>24. ASSUME NEW k \in Key, NEW m \in Mode, StartAcquire(t, k, m)
      PROVE Others(t)
  BY <1>24 DEF TypeOK, Others, StartAcquire, stateVars, leaseVars, slotVars,
     gcVars, Goto
<1>25. ASSUME NEW k \in Key, NEW m \in Mode, TryAcquire(t, k, m)
      PROVE Others(t)
  BY <1>25 DEF TypeOK, Others, TryAcquire, slotVars, gcVars, Goto
<1>26. ASSUME NEW k \in Key, StartRemove(t, k)
      PROVE Others(t)
  BY <1>26 DEF TypeOK, Others, StartRemove, stateVars, leaseVars, slotVars,
     gcVars, Goto
<1>27. ASSUME NEW q \in Quotas, SetCostQuota(t, q)
      PROVE Others(t)
  BY <1>27 DEF TypeOK, Others, SetCostQuota, leaseVars, slotVars, gcVars
<1>28. ASSUME NEW r \in Ratios, StartGc(t, r)
      PROVE Others(t)
  BY <1>28 DEF TypeOK, Others, StartGc, stateVars, leaseVars, slotVars, Goto
<1>29. CASE Demote(t)
  BY <1>29 DEF TypeOK, Others, Demote, stateVars, slotVars, gcVars,
     DemotedReaders
<1> QED
  BY <1>1, <1>2, <1>3, <1>4, <1>5, <1>6, <1>7, <1>8, <1>9, <1>10, <1>11,
     <1>12, <1>13, <1>14, <1>15, <1>16, <1>17, <1>18, <1>19, <1>20, <1>21,
     <1>22, <1>23, <1>24, <1>25, <1>26, <1>27, <1>28, <1>29 DEF Step, Call

(* A quiet step changes no record of what is published, parked or live, and  *)
(* takes its own thread no further into work on a key.                       *)
Quiet(t) ==
  /\ UNCHANGED <<entries, pending, ekey, live, removed, bag>> /\ Others(t)
  /\ pc'[t] \in {"confirm", "held"} => entries[key'[t]] = slot'[t]
  /\ pc'[t] = "entry" /\ ~removed[slot'[t]] => entries[key'[t]] = slot'[t]
  /\ pc'[t] \in Working => pc[t] \in Working /\ key'[t] = key[t]
  /\ pc'[t] \in {"publish", "take", "cleanup"} <=> pc[t] \in {"publish", "take", "cleanup"}
  /\ pc'[t] \in {"publish", "take", "cleanup"} => slot'[t] = slot[t]
  /\ pc'[t] = "publish" => pc[t] = "publish"
  /\ slot'[t] \in {slot[t], NoSlot} \/ \E k \in Key : slot'[t] = entries[k]
  /\ pc'[t] \notin {"scan", "collect", "collectFinish"} => bag[t] = <<>>
  /\ pc'[t] = "collectFinish" => pc[t] = "collectFinish"

(* The conjuncts that relate the key map, the parked keys and the calls.     *)
CoreInv ==
  /\ EntriesInv /\ EntryInv /\ OffMapInv /\ FreshInv /\ WorkInv /\ BagInv
  /\ PassInv /\ LiveInv

(* A quiet step keeps every conjunct of CoreInv. *)
LEMMA QuietKeepsCoreInv ==
  ASSUME TypeOK, LocalInv, CoreInv, NEW t \in Thread, Quiet(t)
  PROVE  CoreInv'
<1> USE CacheConstants DEF CoreInv, Quiet, Others
<1>1. EntriesInv'
  BY DEF EntriesInv
<1>2. EntryInv'
  BY DEF EntryInv
<1>3. OffMapInv'
  BY DEF OffMapInv, Working
<1>4. FreshInv'
  <2>1. \A k \in Key : entries[k] \in Slot \cup {NoSlot}
    BY DEF TypeOK
  <2>2. \A u \in Thread : pc[u] = "publish" =>
          slot[u] \in Slot /\ \A k \in Key : entries[k] # slot[u]
    BY DEF OffMapInv, LocalInv
  <2>3. \A u \in Thread : pc'[u] = "publish" => pc[u] = "publish" /\ slot'[u] = slot[u]
    OBVIOUS
  <2>4. \A u, v \in Thread : pc[u] = "publish" /\ v # u => slot'[v] # slot[u]
    BY <2>2 DEF FreshInv
  <2> QED BY <2>3, <2>4 DEF FreshInv
<1>5. WorkInv'
  BY DEF WorkInv
<1>6. BagInv'
  BY DEF BagInv
<1>7. PassInv'
  BY DEF PassInv
<1>8. LiveInv'
  <2>1. \A u \in Thread : pc[u] \in {"publish", "take", "cleanup"} =>
          pc'[u] \in {"publish", "take", "cleanup"} /\ slot'[u] = slot[u]
    OBVIOUS
  <2> QED BY <2>1 DEF LiveInv
<1> QED BY <1>1, <1>2, <1>3, <1>4, <1>5, <1>6, <1>7, <1>8

QuietStep(t) ==
  \/ LookupHit(t)
  \/ LookupPending(t)
  \/ LookupOver(t)
  \/ RemoveMissing(t)
  \/ EntryAcquire(t)
  \/ ConfirmAcquire(t)
  \/ TakeValue(t)
  \/ AllocateFails(t)
  \/ CostOverflow(t)
  \/ Release(t)
  \/ GcLock(t)
  \/ GcSkip(t)
  \/ GcUnlock(t)
  \/ GcReturn(t)
  \/ (\E k \in Key, m \in Mode : StartAcquire(t, k, m))
  \/ (\E k \in Key, m \in Mode : TryAcquire(t, k, m))
  \/ (\E k \in Key : StartRemove(t, k))
  \/ (\E q \in Quotas : SetCostQuota(t, q))
  \/ (\E r \in Ratios : StartGc(t, r))
  \/ Demote(t)

(* Twenty of the steps are quiet. *)
LEMMA QuietSteps ==
  ASSUME IndInv, NEW t \in Thread, QuietStep(t)
  PROVE  Quiet(t)
<1> USE CacheConstants DEF IndInv
<1>o. Others(t)
  BY OthersUnchanged DEF QuietStep, Step, Call
<1> USE <1>o
<1>1. CASE LookupHit(t)
  BY <1>1 DEF TypeOK, PassInv, EntryInv, LocalInv, OffMapInv, Quiet, Working,
     LookupHit, stateVars, leaseVars, slotVars, gcVars, Goto
<1>2. CASE LookupPending(t)
  BY <1>2 DEF TypeOK, PassInv, EntryInv, LocalInv, OffMapInv, Quiet, Working,
     LookupPending, stateVars, leaseVars, slotVars, gcVars
<1>3. CASE LookupOver(t)
  BY <1>3 DEF TypeOK, PassInv, EntryInv, LocalInv, OffMapInv, Quiet, Working,
     LookupOver, stateVars, leaseVars, slotVars, Goto,
     OverAutomaticGcThreshold
<1>4. CASE RemoveMissing(t)
  <2>1. slot'[t] = NoSlot /\ pc'[t] = "idle"
    BY <1>4, ReturnFacts DEF RemoveMissing
  <2>2. UNCHANGED <<entries, pending, ekey, live, removed, bag>>
    BY <1>4 DEF RemoveMissing, stateVars, leaseVars, slotVars
  <2> QED BY <1>4, <2>1, <2>2 DEF Quiet, PassInv, RemoveMissing, Working
<1>5. CASE EntryAcquire(t)
  <2>1. UNCHANGED <<entries, pending, ekey, live, removed, bag, key>> /\ pc[t] = "entry"
    BY <1>5 DEF EntryAcquire, stateVars, slotVars, gcVars
  <2>2. \/ pc'[t] = "lookup" /\ slot'[t] = NoSlot
        \/ pc'[t] = "confirm" /\ slot'[t] = slot[t] /\ ~removed[slot[t]]
        \/ pc'[t] = "entry" /\ slot'[t] = slot[t]
    BY <1>5 DEF TypeOK, EntryAcquire, Goto, Forget
  <2>3. bag[t] = <<>>
    BY <2>1 DEF PassInv
  <2>4. ~removed[slot[t]] => entries[key[t]] = slot[t]
    BY <2>1 DEF EntryInv
  <2> QED BY <2>1, <2>2, <2>3, <2>4 DEF Quiet, Working
<1>6. CASE ConfirmAcquire(t)
  BY <1>6 DEF TypeOK, PassInv, EntryInv, LocalInv, OffMapInv, Quiet, Working,
     ConfirmAcquire, slotVars, gcVars, Goto, Forget, StillPublished
<1>7. CASE TakeValue(t)
  BY <1>7 DEF TypeOK, PassInv, EntryInv, LocalInv, OffMapInv, Quiet, Working,
     TakeValue, stateVars, slotVars, gcVars, Goto
<1>8. CASE AllocateFails(t)
  BY <1>8 DEF TypeOK, PassInv, EntryInv, LocalInv, OffMapInv, Quiet, Working,
     AllocateFails, stateVars, leaseVars, slotVars, gcVars, Goto
<1>9. CASE CostOverflow(t)
  BY <1>9 DEF TypeOK, PassInv, EntryInv, LocalInv, OffMapInv, Quiet, Working,
     CostOverflow, stateVars, leaseVars, slotVars, gcVars, Goto, FitsUsize
<1>10. CASE Release(t)
  <2>1. slot'[t] = NoSlot /\ pc'[t] = "idle"
    BY <1>10, ReturnFacts DEF Release
  <2>2. UNCHANGED <<entries, pending, ekey, live, removed, bag>>
    BY <1>10 DEF Release, stateVars, leaseVars, slotVars
  <2> QED BY <1>10, <2>1, <2>2 DEF Quiet, PassInv, Release, Working
<1>11. CASE GcLock(t)
  BY <1>11 DEF TypeOK, PassInv, EntryInv, LocalInv, OffMapInv, Quiet, Working,
     GcLock, stateVars, leaseVars, slotVars, Goto
<1>12. CASE GcSkip(t)
  BY <1>12 DEF TypeOK, PassInv, EntryInv, LocalInv, OffMapInv, Quiet, Working,
     GcSkip, stateVars, leaseVars, slotVars, GcSlot
<1>13. CASE GcUnlock(t)
  BY <1>13 DEF TypeOK, PassInv, EntryInv, LocalInv, OffMapInv, Quiet, Working,
     GcUnlock, stateVars, leaseVars, slotVars, gcVars, Goto
<1>14. CASE GcReturn(t)
  <2>1. CASE op[t] = "acquire" /\ ~failed[t]
    BY <1>14, <2>1
       DEF TypeOK, Quiet, PassInv, Working, GcReturn, Goto, stateVars,
           leaseVars, slotVars
  <2>2. CASE ~(op[t] = "acquire" /\ ~failed[t])
    <3>1. slot'[t] = NoSlot /\ pc'[t] = "idle"
      BY <1>14, <2>2, ReturnFacts DEF GcReturn
    <3>2. UNCHANGED <<entries, pending, ekey, live, removed, bag>>
      BY <1>14 DEF GcReturn, stateVars, leaseVars, slotVars
    <3> QED BY <1>14, <3>1, <3>2 DEF Quiet, PassInv, GcReturn, Working
  <2> QED BY <2>1, <2>2
<1>15. ASSUME NEW k \in Key, NEW m \in Mode, StartAcquire(t, k, m)
      PROVE Quiet(t)
  BY <1>15 DEF TypeOK, PassInv, EntryInv, LocalInv, OffMapInv, Quiet, Working,
     StartAcquire, stateVars, leaseVars, slotVars, gcVars, Goto
<1>16. ASSUME NEW k \in Key, NEW m \in Mode, TryAcquire(t, k, m)
      PROVE Quiet(t)
  BY <1>16 DEF TypeOK, PassInv, EntryInv, LocalInv, OffMapInv, Quiet, Working,
     TryAcquire, slotVars, gcVars, Goto
<1>17. ASSUME NEW k \in Key, StartRemove(t, k)
      PROVE Quiet(t)
  BY <1>17 DEF TypeOK, PassInv, EntryInv, LocalInv, OffMapInv, Quiet, Working,
     StartRemove, stateVars, leaseVars, slotVars, gcVars, Goto
<1>18. ASSUME NEW q \in Quotas, SetCostQuota(t, q)
      PROVE Quiet(t)
  BY <1>18 DEF TypeOK, PassInv, EntryInv, LocalInv, OffMapInv, Quiet, Working,
     SetCostQuota, leaseVars, slotVars, gcVars
<1>19. ASSUME NEW r \in Ratios, StartGc(t, r)
      PROVE Quiet(t)
  BY <1>19 DEF TypeOK, PassInv, EntryInv, LocalInv, OffMapInv, Quiet, Working,
     StartGc, stateVars, leaseVars, slotVars, Goto
<1>20. CASE Demote(t)
  BY <1>20 DEF TypeOK, PassInv, EntryInv, LocalInv, OffMapInv, Quiet, Working,
     Demote, stateVars, slotVars, gcVars, DemotedReaders
<1> QED
  BY <1>1, <1>2, <1>3, <1>4, <1>5, <1>6, <1>7, <1>8, <1>9, <1>10, <1>11,
     <1>12, <1>13, <1>14, <1>15, <1>16, <1>17, <1>18, <1>19, <1>20 DEF QuietStep

-----------------------------------------------------------------------------
(* The nine steps that publish, park, clean up or collect.                   *)

(* A miss parks a key nobody had parked. *)
LEMMA LookupMissKeepsCoreInv ==
  ASSUME IndInv, NEW t \in Thread, LookupMiss(t)
  PROVE  CoreInv'
<1> USE CacheConstants DEF IndInv
<1>1. /\ pc[t] = "lookup" /\ pc'[t] = "allocate" /\ entries[key[t]] = NoSlot
      /\ key[t] \notin pending /\ pending' = pending \cup {key[t]}
      /\ UNCHANGED <<entries, ekey, live, removed, slot, key, bag>>
      /\ key[t] \in Key
  BY DEF TypeOK, LookupMiss, Goto, leaseVars, slotVars, gcVars
<1>2. \A u \in Thread : u # t => pc'[u] = pc[u]
  BY OthersUnchanged DEF Step, Others
<1>3. EntriesInv'
  BY <1>1 DEF EntriesInv
<1>4. EntryInv'
  BY <1>1, <1>2 DEF EntryInv
<1>5. OffMapInv'
  BY <1>1, <1>2 DEF OffMapInv
<1>6. FreshInv'
  BY <1>1, <1>2 DEF FreshInv
<1>7. WorkInv'
  BY <1>1, <1>2 DEF WorkInv, Working
<1>8. BagInv'
  BY <1>1, <1>2 DEF BagInv, Working
<1>9. PassInv'
  BY <1>1, <1>2 DEF PassInv
<1>10. LiveInv'
  BY <1>1, <1>2 DEF LiveInv
<1> QED
  BY <1>3, <1>4, <1>5, <1>6, <1>7, <1>8, <1>9, <1>10 DEF CoreInv

(* Removing a published entry that no thread holds, except the remover.      *)
LEMMA UnpublishKeepsEntryInv ==
  ASSUME IndInv, NEW t \in Thread, NEW k \in Key, NEW s \in Slot,
         entries[k] = s, entries'[k] = NoSlot,
         \A j \in Key : j # k => entries'[j] = entries[j],
         removed' = [removed EXCEPT ![s] = TRUE], Others(t), UNCHANGED <<slot, key>>,
         pc'[t] \notin {"entry", "confirm", "held"},
         \A u \in Thread : u # t /\ pc[u] \in {"confirm", "held"} => slot[u] # s
  PROVE  EntryInv'
<1> SUFFICES ASSUME NEW u \in Thread, u # t
             PROVE /\ pc[u] = "entry" /\ ~removed'[slot[u]] => entries'[key[u]] = slot[u]
                   /\ pc[u] \in {"confirm", "held"} => entries'[key[u]] = slot[u]
  BY DEF EntryInv, Others
<1>1. key[u] \in Key /\ removed \in [Slot -> BOOLEAN]
  BY DEF IndInv, TypeOK
<1>2. CASE pc[u] = "entry" /\ ~removed'[slot[u]]
  <2>1. slot[u] \in Slot
    BY <1>2 DEF IndInv, LocalInv
  <2>2. slot[u] # s /\ ~removed[slot[u]]
    BY <1>1, <1>2, <2>1
  <2> QED BY <1>1, <1>2, <2>2 DEF IndInv, EntryInv
<1>3. CASE pc[u] \in {"confirm", "held"}
  BY <1>1, <1>3 DEF IndInv, EntryInv
<1> QED BY <1>2, <1>3

(* remove takes the entry out of the key map while it holds the only lease. *)
LEMMA ConfirmRemoveKeepsCoreInv ==
  ASSUME IndInv, NEW t \in Thread, ConfirmRemove(t)
  PROVE  CoreInv'
<1> USE CacheConstants DEF IndInv
<1>1. SUFFICES ASSUME NEW k, k = key[t], NEW s, s = slot[t] PROVE CoreInv'
  OBVIOUS
<1>2. /\ k \in Key /\ s \in Slot /\ pc[t] = "confirm" /\ mode[t] = "Write"
      /\ entries[k] = s /\ StillPublished(t)
  BY <1>1 DEF ConfirmRemove, StillPublished, EntryInv, LocalInv, TypeOK
<1>3. /\ pc'[t] = "take" /\ UNCHANGED <<ekey, live, slot, key, bag>>
      /\ removed' = [removed EXCEPT ![s] = TRUE] /\ Unpublish(k, s)
  BY <1>1, <1>2 DEF ConfirmRemove, Goto, TypeOK, slotVars, gcVars
<1>4. /\ pending' = pending \cup {k} /\ entries'[k] = NoSlot
      /\ \A j \in Key : j # k => entries'[j] = entries[j]
  BY <1>2, <1>3, UnpublishFacts
<1>5. Others(t) /\ \A u \in Thread : u # t => pc'[u] = pc[u]
  BY OthersUnchanged DEF Step, Others
<1>6. k \notin pending /\ ekey[s] = k /\ s \in live
  BY <1>2 DEF EntriesInv
<1>7. \A j \in Key : j # k => entries[j] # s
  BY <1>2, <1>6 DEF EntriesInv
<1>8. EntriesInv'
  <2>1. \A j \in Key : j # k /\ entries[j] # NoSlot =>
          removed'[entries[j]] = removed[entries[j]]
    BY <1>3, <1>7 DEF TypeOK
  <2>2. \A j \in Key : entries'[j] # NoSlot => j # k /\ entries'[j] = entries[j]
    BY <1>4
  <2>3. \A j \in pending' : entries'[j] = NoSlot
    BY <1>2, <1>4 DEF EntriesInv, TypeOK
  <2>4. ASSUME NEW j \in Key, entries'[j] # NoSlot
        PROVE  ekey[entries'[j]] = j /\ entries'[j] \in live /\ ~removed'[entries'[j]]
    BY <2>1, <2>2, <2>4 DEF EntriesInv
  <2> QED BY <1>3, <2>3, <2>4 DEF EntriesInv
<1>9. EntryInv'
  <2>1. \A u \in Thread : u # t /\ pc[u] \in {"confirm", "held"} => slot[u] # s
    <3>1. t \in WriteHolders(s)
      BY <1>1, <1>2 DEF WriteHolders, Holds
    <3>2. \A u \in Thread : u # t => u \notin WriteHolders(s) /\ u \notin ReadHolders(s)
      BY <1>2, <3>1 DEF LeaseInv
    <3> QED BY <3>2 DEF WriteHolders, ReadHolders, Holds, TypeOK, Mode
  <2> QED BY <1>2, <1>3, <1>4, <1>5, <2>1, UnpublishKeepsEntryInv
<1>10. OffMapInv'
  <2>1. \A j \in Key : entries'[j] \in {NoSlot, entries[j]}
    BY <1>4
  <2>2. \A u \in Thread : pc[u] \in {"publish", "take", "cleanup"} => slot[u] \in Slot
    BY DEF LocalInv
  <2>3. \A u \in Thread : u # t /\ pc'[u] \in {"publish", "take", "cleanup"} =>
          ekey'[slot'[u]] = key'[u] /\ \A j \in Key : entries'[j] # slot'[u]
    BY <1>3, <1>5, <2>1, <2>2 DEF OffMapInv
  <2>4. ekey'[slot'[t]] = key'[t] /\ \A j \in Key : entries'[j] # slot'[t]
    BY <1>1, <1>2, <1>3, <1>4, <1>6, <1>7
  <2> QED BY <2>3, <2>4 DEF OffMapInv
<1>11. FreshInv'
  BY <1>3, <1>5 DEF FreshInv
<1>12. WorkInv'
  BY <1>1, <1>2, <1>3, <1>4, <1>5, <1>6 DEF WorkInv, Working
<1>13. BagInv'
  <2>1. \A j \in Key : entries'[j] \in {NoSlot, entries[j]}
    BY <1>4
  <2>2. \A u \in Thread : \A i \in 1..Len(bag[u]) : bag[u][i] \in Slot
    BY DEF TypeOK
  <2> QED BY <1>1, <1>2, <1>3, <1>4, <1>5, <1>6, <2>1, <2>2 DEF BagInv, Working
<1>14. PassInv'
  BY <1>2, <1>3, <1>5 DEF PassInv
<1>15. LiveInv'
  <2> SUFFICES ASSUME NEW r \in live
      PROVE \/ entries'[ekey[r]] = r
            \/ \E u \in Thread : pc'[u] \in {"publish", "take", "cleanup"} /\ slot[u] = r
            \/ \E u \in Thread : \E i \in 1..Len(bag[u]) : bag[u][i] = r
    BY <1>3 DEF LiveInv
  <2>1. CASE r = s
    BY <1>1, <1>3, <2>1
  <2>2. CASE r # s /\ entries[ekey[r]] = r
    <3>1. ekey[r] \in Key /\ ekey[r] # k
      BY <1>2, <2>2 DEF TypeOK
    <3> QED BY <1>4, <2>2, <3>1
  <2>3. CASE \E u \in Thread : pc[u] \in {"publish", "take", "cleanup"} /\ slot[u] = r
    BY <1>2, <1>5, <2>3
  <2> QED BY <2>1, <2>2, <2>3 DEF LiveInv
<1> QED
  BY <1>8, <1>9, <1>10, <1>11, <1>12, <1>13, <1>14, <1>15 DEF CoreInv

(* The value given to cleanup is no longer published. *)
LEMMA CleanupKeepsCoreInv ==
  ASSUME IndInv, NEW t \in Thread, Cleanup(t)
  PROVE  CoreInv'
<1> USE CacheConstants DEF IndInv
<1>1. /\ pc[t] = "cleanup" /\ pc'[t] = "finish" /\ live' = live \ {slot[t]}
      /\ UNCHANGED <<entries, pending, ekey, removed, slot, key, bag>>
  BY DEF TypeOK, Cleanup, Goto, stateVars, leaseVars, slotVars, gcVars
<1>2. \A u \in Thread : u # t => pc'[u] = pc[u]
  BY OthersUnchanged DEF Step, Others
<1>3. \A k \in Key : entries[k] # slot[t]
  BY <1>1 DEF OffMapInv
<1>4. EntriesInv'
  BY <1>1, <1>3 DEF EntriesInv
<1>5. EntryInv'
  BY <1>1, <1>2 DEF EntryInv
<1>6. OffMapInv'
  BY <1>1, <1>2 DEF OffMapInv
<1>7. FreshInv'
  BY <1>1, <1>2 DEF FreshInv
<1>8. WorkInv'
  BY <1>1, <1>2 DEF WorkInv, Working
<1>9. BagInv'
  BY <1>1, <1>2 DEF BagInv, Working
<1>10. PassInv'
  BY <1>1, <1>2 DEF PassInv
<1>11. LiveInv'
  BY <1>1, <1>2 DEF LiveInv
<1> QED
  BY <1>4, <1>5, <1>6, <1>7, <1>8, <1>9, <1>10, <1>11 DEF CoreInv

(* Only the key of the finishing call stops pending. *)
LEMMA FinishPendingKeepsCoreInv ==
  ASSUME IndInv, NEW t \in Thread, FinishPending(t)
  PROVE  CoreInv'
<1> USE CacheConstants DEF IndInv
<1>1. /\ pc[t] = "finish" /\ pending' = pending \ {key[t]}
      /\ UNCHANGED <<entries, ekey, live, removed, bag>>
  BY DEF FinishPending, leaseVars, slotVars
<1>2. /\ pc'[t] = "idle" /\ slot'[t] = NoSlot
      /\ \A u \in Thread : u # t =>
           pc'[u] = pc[u] /\ key'[u] = key[u] /\ slot'[u] = slot[u]
  BY ReturnFacts DEF FinishPending
<1>3. EntriesInv'
  BY <1>1 DEF EntriesInv
<1>4. EntryInv'
  BY <1>1, <1>2 DEF EntryInv
<1>5. OffMapInv'
  BY <1>1, <1>2 DEF OffMapInv
<1>6. FreshInv'
  <2>1. \A u \in Thread : pc[u] = "publish" => slot[u] # NoSlot
    BY DEF LocalInv
  <2> QED BY <1>1, <1>2, <2>1 DEF FreshInv
<1>7. WorkInv'
  BY <1>1, <1>2 DEF WorkInv, Working
<1>8. BagInv'
  BY <1>1, <1>2 DEF BagInv, Working
<1>9. PassInv'
  BY <1>1, <1>2 DEF PassInv
<1>10. LiveInv'
  BY <1>1, <1>2 DEF LiveInv
<1> QED
  BY <1>3, <1>4, <1>5, <1>6, <1>7, <1>8, <1>9, <1>10 DEF CoreInv

(* A new entry is in nobody else's hands. *)
LEMMA AllocateKeepsCoreInv ==
  ASSUME IndInv, NEW t \in Thread, NEW c \in Costs, Allocate(t, c)
  PROVE  CoreInv'
<1> USE CacheConstants DEF IndInv
<1>1. SUFFICES ASSUME NEW n, n = NewSlot PROVE CoreInv'
  OBVIOUS
<1>2. /\ n \in Slot /\ \A k \in Key : entries[k] # n
      /\ \A u \in Thread : slot[u] # n
      /\ \A u \in Thread : \A i \in 1..Len(bag[u]) : bag[u][i] # n
  <2>1. n \in Slot /\ n \notin Published /\ n \notin Referenced
    BY <1>1, NewSlotIsFree DEF Allocate, FreeSlots
  <2>2. \A u \in Thread : \A i \in 1..Len(bag[u]) : bag[u][i] \in Range(bag[u])
    BY DEF TypeOK, Range
  <2>3. \A u \in Thread : \A i \in 1..Len(bag[u]) : bag[u][i] # n
    BY <2>1, <2>2 DEF Referenced
  <2> QED BY <2>1, <2>3 DEF Published, Referenced
<1>3. /\ pc[t] = "allocate" /\ pc'[t] = "publish" /\ live' = live \cup {n}
      /\ slot'[t] = n /\ ekey'[n] = key[t]
      /\ \A s \in Slot : s # n => ekey'[s] = ekey[s]
      /\ UNCHANGED <<entries, pending, removed, key, bag>>
  BY <1>1, <1>2 DEF TypeOK, Allocate, Goto, stateVars, leaseVars, gcVars
<1>4. \A u \in Thread : u # t => pc'[u] = pc[u] /\ slot'[u] = slot[u]
  BY OthersUnchanged DEF Step, Others
<1>5. \A u \in Thread : \A i \in 1..Len(bag[u]) : ekey'[bag[u][i]] = ekey[bag[u][i]]
  <2>1. \A u \in Thread : \A i \in 1..Len(bag[u]) : bag[u][i] \in Slot
    BY DEF TypeOK
  <2> QED BY <1>2, <1>3, <2>1
<1>6. EntriesInv'
  <2>1. \A k \in Key : entries[k] # NoSlot => ekey'[entries[k]] = ekey[entries[k]]
    BY <1>2, <1>3 DEF TypeOK
  <2> QED BY <1>3, <2>1 DEF EntriesInv
<1>7. EntryInv'
  BY <1>3, <1>4 DEF EntryInv
<1>8. OffMapInv'
  <2>1. \A u \in Thread : pc[u] \in {"publish", "take", "cleanup"} =>
          ekey'[slot[u]] = ekey[slot[u]]
    BY <1>2, <1>3 DEF LocalInv
  <2> QED BY <1>2, <1>3, <1>4, <2>1 DEF OffMapInv
<1>9. FreshInv'
  BY <1>2, <1>3, <1>4 DEF FreshInv
<1>10. WorkInv'
  BY <1>3, <1>4 DEF WorkInv, Working
<1>11. BagInv'
  BY <1>3, <1>4, <1>5 DEF BagInv, Working
<1>12. PassInv'
  BY <1>2, <1>3, <1>4 DEF PassInv
<1>13. LiveInv'
  <2>1. \A s \in live : s # n => ekey'[s] = ekey[s]
    BY <1>3 DEF TypeOK
  <2> QED BY <1>3, <1>4, <2>1 DEF LiveInv
<1> QED
  BY <1>6, <1>7, <1>8, <1>9, <1>10, <1>11, <1>12, <1>13 DEF CoreInv

(* Publishing puts the slot under its parked key, with one holder. *)
LEMMA PublishKeepsCoreInv ==
  ASSUME IndInv, NEW t \in Thread, Publish(t)
  PROVE  CoreInv'
<1> USE CacheConstants DEF IndInv
<1>1. SUFFICES ASSUME NEW k, k = key[t], NEW s, s = slot[t] PROVE CoreInv'
  OBVIOUS
<1>2. k \in Key /\ s \in Slot /\ pc[t] = "publish"
  BY <1>1 DEF Publish, LocalInv, TypeOK
<1>3. /\ pc'[t] = "held" /\ pending' = pending \ {k}
      /\ entries'[k] = s /\ \A j \in Key : j # k => entries'[j] = entries[j]
      /\ ~removed'[s] /\ \A r \in Slot : r # s => removed'[r] = removed[r]
      /\ UNCHANGED <<ekey, live, slot, key, bag>>
  BY <1>1, <1>2 DEF Publish, Goto, TypeOK, slotVars, gcVars
<1>4. \A u \in Thread : u # t => pc'[u] = pc[u]
  BY OthersUnchanged DEF Step, Others
<1>5. /\ ekey[s] = k /\ s \in live
      /\ \A j \in Key : entries[j] # s
      /\ \A u \in Thread : u # t => slot[u] # s
      /\ \A u \in Thread : \A i \in 1..Len(bag[u]) : bag[u][i] # s
  BY <1>1, <1>2 DEF OffMapInv, FreshInv
<1>6. entries[k] = NoSlot
  BY <1>1, <1>2 DEF WorkInv, Working, EntriesInv
<1>7. EntriesInv'
  <2>1. \A j \in Key : j # k /\ entries[j] # NoSlot =>
          removed'[entries[j]] = removed[entries[j]]
    BY <1>3, <1>5 DEF TypeOK
  <2>2. \A j \in pending' : entries'[j] = NoSlot
    BY <1>2, <1>3 DEF EntriesInv, TypeOK
  <2>3. ASSUME NEW j \in Key, entries'[j] # NoSlot
        PROVE  ekey[entries'[j]] = j /\ entries'[j] \in live /\ ~removed'[entries'[j]]
    <3>1. CASE j = k
      BY <1>3, <1>5, <3>1
    <3>2. CASE j # k
      BY <1>3, <2>1, <2>3, <3>2 DEF EntriesInv
    <3> QED BY <3>1, <3>2
  <2> QED BY <1>3, <2>2, <2>3 DEF EntriesInv
<1>8. EntryInv'
  <2>1. \A u \in Thread : u # t /\ pc[u] \in {"entry", "confirm", "held"} =>
          /\ slot[u] \in Slot /\ slot[u] # s /\ slot[u] # NoSlot
          /\ removed'[slot[u]] = removed[slot[u]] /\ key[u] \in Key
    BY <1>3, <1>5 DEF LocalInv, TypeOK
  <2> QED BY <1>1, <1>3, <1>4, <1>6, <2>1 DEF EntryInv
<1>9. OffMapInv'
  <2>1. \A j \in Key : entries'[j] \in {s, entries[j]}
    BY <1>3
  <2> QED BY <1>3, <1>4, <1>5, <2>1 DEF OffMapInv
<1>10. FreshInv'
  BY <1>3, <1>4 DEF FreshInv
<1>11. WorkInv'
  BY <1>1, <1>2, <1>3, <1>4 DEF WorkInv, Working
<1>12. BagInv'
  <2>1. \A j \in Key : entries'[j] \in {s, entries[j]}
    BY <1>3
  <2>2. \A u \in Thread : \A i \in 1..Len(bag[u]) : ekey[bag[u][i]] # k
    BY <1>1, <1>2 DEF BagInv, Working
  <2> QED BY <1>3, <1>4, <1>5, <2>1, <2>2 DEF BagInv, Working
<1>13. PassInv'
  BY <1>2, <1>3, <1>4 DEF PassInv
<1>14. LiveInv'
  <2> SUFFICES ASSUME NEW r \in live
      PROVE \/ entries'[ekey[r]] = r
            \/ \E u \in Thread : pc'[u] \in {"publish", "take", "cleanup"} /\ slot[u] = r
            \/ \E u \in Thread : \E i \in 1..Len(bag[u]) : bag[u][i] = r
    BY <1>3 DEF LiveInv
  <2>1. CASE r = s
    BY <1>3, <1>5, <2>1
  <2>2. CASE r # s /\ entries[ekey[r]] = r
    <3>1. ekey[r] \in Key /\ r # NoSlot
      BY DEF TypeOK
    <3> QED BY <1>3, <1>6, <2>2, <3>1
  <2>3. CASE r # s /\ \E u \in Thread : pc[u] \in {"publish", "take", "cleanup"} /\ slot[u] = r
    BY <1>1, <1>4, <2>3
  <2> QED BY <2>1, <2>2, <2>3 DEF LiveInv
<1> QED
  BY <1>7, <1>8, <1>9, <1>10, <1>11, <1>12, <1>13, <1>14 DEF CoreInv

(* Collection tombstones only an entry without holders. *)
LEMMA GcTakeKeepsCoreInv ==
  ASSUME IndInv, NEW t \in Thread, GcTake(t)
  PROVE  CoreInv'
<1> USE CacheConstants DEF IndInv
<1>1. SUFFICES ASSUME NEW k, k = lru[idx[t]], NEW s, s = entries[k] PROVE CoreInv'
  OBVIOUS
<1>2. k \in Key /\ s \in Slot /\ GcSlot(t) = s /\ pc[t] = "scan"
  BY <1>1 DEF GcTake, GcMore, GcSlot, LocalInv, LruInv, TypeOK
<1>3. /\ readers[s] = 0 /\ ~writer[s] /\ Unpublish(k, s)
      /\ removed' = [removed EXCEPT ![s] = TRUE]
      /\ bag'[t] = Append(bag[t], s)
      /\ UNCHANGED <<ekey, live, pc, slot, key>>
  BY <1>1, <1>2 DEF GcTake, GcMayTake, Available, TypeOK, slotVars
<1>4. /\ pending' = pending \cup {k} /\ entries'[k] = NoSlot
      /\ \A j \in Key : j # k => entries'[j] = entries[j]
  BY <1>2, <1>3, UnpublishFacts
<1>5. Others(t) /\ \A u \in Thread : u # t => bag'[u] = bag[u]
  BY OthersUnchanged DEF Step, Others
<1>6. k \notin pending /\ ekey[s] = k /\ s \in live
  BY <1>1, <1>2 DEF EntriesInv
<1>7. \A j \in Key : j # k => entries[j] # s
  BY <1>2, <1>6 DEF EntriesInv
<1>8. /\ Len(bag'[t]) = Len(bag[t]) + 1 /\ bag'[t][Len(bag[t]) + 1] = s
      /\ \A i \in 1..Len(bag[t]) : bag'[t][i] = bag[t][i]
      /\ Len(bag[t]) \in Nat
  BY <1>2, <1>3 DEF TypeOK
<1>9. EntriesInv'
  <2>1. \A j \in Key : j # k /\ entries[j] # NoSlot =>
          removed'[entries[j]] = removed[entries[j]]
    BY <1>3, <1>7 DEF TypeOK
  <2>2. \A j \in Key : entries'[j] # NoSlot => j # k /\ entries'[j] = entries[j]
    BY <1>4
  <2>3. \A j \in pending' : entries'[j] = NoSlot
    BY <1>2, <1>4 DEF EntriesInv, TypeOK
  <2>4. ASSUME NEW j \in Key, entries'[j] # NoSlot
        PROVE  ekey[entries'[j]] = j /\ entries'[j] \in live /\ ~removed'[entries'[j]]
    BY <2>1, <2>2, <2>4 DEF EntriesInv
  <2> QED BY <1>3, <2>3, <2>4 DEF EntriesInv
<1>10. EntryInv'
  <2>1. \A u \in Thread : pc[u] \in {"confirm", "held"} => slot[u] # s
    <3>1. WriteHolders(s) = {} /\ Cardinality(ReadHolders(s)) = 0
      BY <1>2, <1>3 DEF LeaseInv
    <3>2. ReadHolders(s) = {}
      BY <3>1, FS_Subset, FS_EmptySet DEF ReadHolders
    <3> QED BY <3>1, <3>2 DEF WriteHolders, ReadHolders, Holds, TypeOK, Mode
  <2> QED BY <1>1, <1>2, <1>3, <1>4, <1>5, <2>1, UnpublishKeepsEntryInv
<1>11. OffMapInv'
  <2>1. \A j \in Key : entries'[j] \in {NoSlot, entries[j]}
    BY <1>4
  <2>2. \A u \in Thread : pc[u] \in {"publish", "take", "cleanup"} => slot[u] \in Slot
    BY DEF LocalInv
  <2> QED BY <1>3, <2>1, <2>2 DEF OffMapInv
<1>12. FreshInv'
  <2>1. \A u \in Thread : pc[u] = "publish" => slot[u] # s
    BY <1>1, <1>2 DEF OffMapInv
  <2>2. \A u \in Thread : \A i \in 1..Len(bag'[u]) :
          bag'[u][i] = s \/ (i \in 1..Len(bag[u]) /\ bag'[u][i] = bag[u][i])
    BY <1>5, <1>8
  <2> QED BY <1>3, <2>1, <2>2 DEF FreshInv
<1>13. WorkInv'
  BY <1>3, <1>4 DEF WorkInv
<1>14. BagInv'
  <2>1. \A j \in Key : entries'[j] \in {NoSlot, entries[j]}
    BY <1>4
  <2>2. \A u \in Thread : \A i \in 1..Len(bag[u]) :
          bag[u][i] \in Slot /\ ekey[bag[u][i]] # k
    <3>1. \A u \in Thread : \A i \in 1..Len(bag[u]) : bag[u][i] \in Slot
      BY DEF TypeOK
    <3>2. \A u \in Thread : \A i \in 1..Len(bag[u]) : ekey[bag[u][i]] # k
      BY <1>6 DEF BagInv
    <3> QED BY <3>1, <3>2
  <2>3. \A u \in Thread : \A i \in 1..Len(bag'[u]) :
          \/ u = t /\ i = Len(bag[t]) + 1 /\ bag'[u][i] = s
          \/ i \in 1..Len(bag[u]) /\ bag'[u][i] = bag[u][i]
    BY <1>5, <1>8
  <2>4. \A j \in Key : entries'[j] # s
    BY <1>2, <1>4, <1>7
  <2>5. \A u \in Thread : \A i \in 1..Len(bag'[u]) :
          /\ ekey[bag'[u][i]] \in pending'
          /\ \A j \in Key : entries'[j] # bag'[u][i]
    BY <1>4, <1>6, <2>1, <2>2, <2>3, <2>4 DEF BagInv
  <2>6. \A u, v \in Thread : \A i \in 1..Len(bag'[v]) :
          pc[u] \in Working => ekey[bag'[v][i]] # key[u]
    BY <1>6, <2>3 DEF BagInv, WorkInv
  <2>7. \A u, v \in Thread : \A i \in 1..Len(bag'[u]) : \A j \in 1..Len(bag'[v]) :
          ekey[bag'[u][i]] = ekey[bag'[v][j]] => u = v /\ i = j
    <3> TAKE u, v \in Thread
    <3> TAKE i \in 1..Len(bag'[u])
    <3> TAKE j \in 1..Len(bag'[v])
    <3> HAVE ekey[bag'[u][i]] = ekey[bag'[v][j]]
    <3>1. CASE i \in 1..Len(bag[u]) /\ j \in 1..Len(bag[v])
      <4>1. bag'[u][i] = bag[u][i] /\ bag'[v][j] = bag[v][j]
        BY <1>5, <1>8, <3>1
      <4> QED BY <3>1, <4>1 DEF BagInv
    <3>2. CASE i \notin 1..Len(bag[u])
      <4>1. u = t /\ i = Len(bag[t]) + 1 /\ ekey[bag'[u][i]] = k
        BY <1>6, <2>3, <3>2
      <4>2. CASE j \in 1..Len(bag[v]) /\ bag'[v][j] = bag[v][j]
        BY <2>2, <4>1, <4>2
      <4> QED BY <2>3, <4>1, <4>2
    <3>3. CASE j \notin 1..Len(bag[v])
      <4>1. v = t /\ j = Len(bag[t]) + 1 /\ ekey[bag'[v][j]] = k
        BY <1>6, <2>3, <3>3
      <4>2. CASE i \in 1..Len(bag[u]) /\ bag'[u][i] = bag[u][i]
        BY <2>2, <4>1, <4>2
      <4> QED BY <2>3, <4>1, <4>2
    <3> QED BY <3>1, <3>2, <3>3
  <2> QED BY <1>3, <2>5, <2>6, <2>7 DEF BagInv
<1>15. PassInv'
  BY <1>2, <1>3, <1>5 DEF PassInv
<1>16. LiveInv'
  <2> SUFFICES ASSUME NEW r \in live
      PROVE \/ entries'[ekey[r]] = r
            \/ \E u \in Thread : pc[u] \in {"publish", "take", "cleanup"} /\ slot[u] = r
            \/ \E u \in Thread : \E i \in 1..Len(bag'[u]) : bag'[u][i] = r
    BY <1>3 DEF LiveInv
  <2>1. CASE r = s
    <3>1. Len(bag[t]) + 1 \in 1..Len(bag'[t])
      BY <1>8
    <3> QED BY <1>8, <2>1, <3>1
  <2>2. CASE r # s /\ entries[ekey[r]] = r
    <3>1. ekey[r] \in Key /\ ekey[r] # k
      BY <1>1, <2>2 DEF TypeOK
    <3> QED BY <1>4, <2>2, <3>1
  <2>3. ASSUME NEW u \in Thread, NEW i \in 1..Len(bag[u]), bag[u][i] = r
        PROVE  \E j \in 1..Len(bag'[u]) : bag'[u][j] = r
    <3>1. i \in 1..Len(bag'[u]) /\ bag'[u][i] = bag[u][i]
      BY <1>5, <1>8
    <3> QED BY <2>3, <3>1
  <2> QED BY <2>1, <2>2, <2>3 DEF LiveInv
<1> QED
  BY <1>9, <1>10, <1>11, <1>12, <1>13, <1>14, <1>15, <1>16 DEF CoreInv

(* Collection cleans up the head of its bag, which is not published. *)
LEMMA GcCleanupKeepsCoreInv ==
  ASSUME IndInv, NEW t \in Thread, NEW p \in BOOLEAN, GcCleanup(t, p)
  PROVE  CoreInv'
<1> USE CacheConstants DEF IndInv
<1>1. /\ pc[t] = "collect" /\ pc'[t] = "collectFinish" /\ bag[t] # <<>>
      /\ live' = live \ {Head(bag[t])}
      /\ UNCHANGED <<entries, pending, ekey, removed, slot, key, bag>>
  BY DEF TypeOK, GcCleanup, Goto, stateVars, leaseVars, slotVars, gcVars
<1>2. \A u \in Thread : u # t => pc'[u] = pc[u]
  BY OthersUnchanged DEF Step, Others
<1>3. 1 \in 1..Len(bag[t]) /\ Head(bag[t]) = bag[t][1]
  BY <1>1 DEF TypeOK
<1>4. EntriesInv'
  BY <1>1, <1>3 DEF EntriesInv, BagInv
<1>5. EntryInv'
  BY <1>1, <1>2 DEF EntryInv
<1>6. OffMapInv'
  BY <1>1, <1>2 DEF OffMapInv
<1>7. FreshInv'
  BY <1>1, <1>2, <1>3 DEF FreshInv
<1>8. WorkInv'
  BY <1>1, <1>2 DEF WorkInv, Working
<1>9. BagInv'
  BY <1>1, <1>2 DEF BagInv, Working
<1>10. PassInv'
  BY <1>1, <1>2, <1>3 DEF PassInv
<1>11. LiveInv'
  BY <1>1, <1>2 DEF LiveInv
<1> QED
  BY <1>4, <1>5, <1>6, <1>7, <1>8, <1>9, <1>10, <1>11 DEF CoreInv

(* Collection unparks the key of the head of its bag. *)
LEMMA GcFinishPendingKeepsCoreInv ==
  ASSUME IndInv, NEW t \in Thread, GcFinishPending(t)
  PROVE  CoreInv'
<1> USE CacheConstants DEF IndInv
<1>1. SUFFICES ASSUME NEW h, h = bag[t][1] PROVE CoreInv'
  OBVIOUS
<1>2. /\ pc[t] = "collectFinish" /\ bag[t] # <<>> /\ h \notin live
      /\ bag[t] \in Seq(Slot)
  BY <1>1 DEF GcFinishPending, PassInv, TypeOK
<1>3. 1 \in 1..Len(bag[t]) /\ Head(bag[t]) = h
  BY <1>1, <1>2
<1>4. /\ pc'[t] = "collect" /\ pending' = pending \ {ekey[h]}
      /\ bag'[t] = Tail(bag[t])
      /\ UNCHANGED <<entries, ekey, live, removed, slot, key>>
  BY <1>3 DEF GcFinishPending, Goto, TypeOK, leaseVars, slotVars
<1>5. \A u \in Thread : u # t => pc'[u] = pc[u] /\ bag'[u] = bag[u]
  BY OthersUnchanged DEF Step, Others
<1>6. /\ Len(bag'[t]) = Len(bag[t]) - 1 /\ Len(bag[t]) \in Nat
      /\ \A i \in 1..Len(bag'[t]) : i + 1 \in 1..Len(bag[t]) /\ bag'[t][i] = bag[t][i + 1]
  BY <1>2, <1>4
<1>7. \A u \in Thread : \A i \in 1..Len(bag'[u]) :
        \E j \in 1..Len(bag[u]) :
          /\ bag'[u][i] = bag[u][j] /\ j = (IF u = t THEN i + 1 ELSE i)
  BY <1>5, <1>6
<1>8. EntriesInv'
  BY <1>4 DEF EntriesInv
<1>9. EntryInv'
  BY <1>2, <1>4, <1>5 DEF EntryInv
<1>10. OffMapInv'
  BY <1>2, <1>4, <1>5 DEF OffMapInv
<1>11. FreshInv'
  <2>1. \A u \in Thread : pc'[u] = "publish" => pc[u] = "publish"
    BY <1>4, <1>5
  <2> QED BY <1>4, <1>7, <2>1 DEF FreshInv
<1>12. WorkInv'
  <2>1. \A u \in Thread : pc'[u] \in Working => pc[u] \in Working /\ key[u] # ekey[h]
    BY <1>1, <1>3, <1>4, <1>5 DEF BagInv, Working
  <2> QED BY <1>4, <2>1 DEF WorkInv
<1>13. BagInv'
  <2>1. \A u \in Thread : \A i \in 1..Len(bag'[u]) : ekey[bag'[u][i]] # ekey[h]
    <3> TAKE u \in Thread
    <3> TAKE i \in 1..Len(bag'[u])
    <3>1. PICK j \in 1..Len(bag[u]) :
            bag'[u][i] = bag[u][j] /\ j = (IF u = t THEN i + 1 ELSE i)
      BY <1>7
    <3>2. ~(u = t /\ j = 1)
      BY <3>1
    <3> QED BY <1>1, <1>3, <3>1, <3>2 DEF BagInv
  <2>2. \A u \in Thread : \A i \in 1..Len(bag'[u]) :
          /\ ekey[bag'[u][i]] \in pending'
          /\ \A k \in Key : entries[k] # bag'[u][i]
    <3> TAKE u \in Thread
    <3> TAKE i \in 1..Len(bag'[u])
    <3>1. PICK j \in 1..Len(bag[u]) : bag'[u][i] = bag[u][j]
      BY <1>7
    <3>2. ekey[bag[u][j]] \in pending /\ \A k \in Key : entries[k] # bag[u][j]
      BY DEF BagInv
    <3>3. ekey[bag'[u][i]] # ekey[h]
      BY <2>1
    <3> QED BY <1>4, <3>1, <3>2, <3>3
  <2>3. \A u \in Thread : pc'[u] \in Working => pc[u] \in Working
    BY <1>4, <1>5 DEF Working
  <2>4. \A u, v \in Thread : \A i \in 1..Len(bag'[v]) :
          pc'[u] \in Working => ekey[bag'[v][i]] # key[u]
    BY <1>7, <2>3 DEF BagInv
  <2>5. \A u, v \in Thread : \A i \in 1..Len(bag'[u]) : \A j \in 1..Len(bag'[v]) :
          ekey[bag'[u][i]] = ekey[bag'[v][j]] => u = v /\ i = j
    <3> TAKE u, v \in Thread
    <3> TAKE i \in 1..Len(bag'[u])
    <3> TAKE j \in 1..Len(bag'[v])
    <3> HAVE ekey[bag'[u][i]] = ekey[bag'[v][j]]
    <3>1. PICK x \in 1..Len(bag[u]) :
            bag'[u][i] = bag[u][x] /\ x = (IF u = t THEN i + 1 ELSE i)
      BY <1>7
    <3>2. PICK y \in 1..Len(bag[v]) :
            bag'[v][j] = bag[v][y] /\ y = (IF v = t THEN j + 1 ELSE j)
      BY <1>7
    <3>3. u = v /\ x = y
      BY <3>1, <3>2 DEF BagInv
    <3> QED BY <3>1, <3>2, <3>3
  <2> QED BY <1>4, <2>2, <2>4, <2>5 DEF BagInv
<1>14. PassInv'
  BY <1>4, <1>5 DEF PassInv
<1>15. LiveInv'
  <2> SUFFICES ASSUME NEW r \in live
      PROVE \/ entries[ekey[r]] = r
            \/ \E u \in Thread : pc'[u] \in {"publish", "take", "cleanup"} /\ slot[u] = r
            \/ \E u \in Thread : \E i \in 1..Len(bag'[u]) : bag'[u][i] = r
    BY <1>4 DEF LiveInv
  <2>1. CASE \E u \in Thread : pc[u] \in {"publish", "take", "cleanup"} /\ slot[u] = r
    BY <1>2, <1>5, <2>1
  <2>2. ASSUME NEW u \in Thread, NEW i \in 1..Len(bag[u]), bag[u][i] = r
        PROVE  \E j \in 1..Len(bag'[u]) : bag'[u][j] = r
    <3>1. CASE u = t
      <4>1. i # 1
        BY <1>1, <1>2, <2>2, <3>1
      <4>2. i - 1 \in 1..Len(bag'[u]) /\ bag'[u][i - 1] = bag[u][i]
        BY <1>6, <3>1, <4>1
      <4> QED BY <2>2, <4>2
    <3>2. CASE u # t
      BY <1>5, <2>2, <3>2
    <3> QED BY <3>1, <3>2
  <2> QED BY <2>1, <2>2 DEF LiveInv
<1> QED
  BY <1>8, <1>9, <1>10, <1>11, <1>12, <1>13, <1>14, <1>15 DEF CoreInv

-----------------------------------------------------------------------------
(* Every step keeps CoreInv. *)
LEMMA CoreStep ==
  ASSUME IndInv, NEW t \in Thread, Step(t) \/ Call(t)
  PROVE  CoreInv'
<1>1. CASE QuietStep(t)
  BY <1>1, QuietSteps, QuietKeepsCoreInv DEF IndInv, CoreInv
<1>2. CASE LookupMiss(t)
  BY <1>2, LookupMissKeepsCoreInv
<1>3. CASE ConfirmRemove(t)
  BY <1>3, ConfirmRemoveKeepsCoreInv
<1>4. CASE Cleanup(t)
  BY <1>4, CleanupKeepsCoreInv
<1>5. CASE FinishPending(t)
  BY <1>5, FinishPendingKeepsCoreInv
<1>6. ASSUME NEW c \in Costs, Allocate(t, c) PROVE CoreInv'
  BY <1>6, AllocateKeepsCoreInv
<1>7. CASE Publish(t)
  BY <1>7, PublishKeepsCoreInv
<1>8. CASE GcTake(t)
  BY <1>8, GcTakeKeepsCoreInv
<1>9. ASSUME NEW p \in BOOLEAN, GcCleanup(t, p) PROVE CoreInv'
  BY <1>9, GcCleanupKeepsCoreInv
<1>10. CASE GcFinishPending(t)
  BY <1>10, GcFinishPendingKeepsCoreInv
<1> QED
  BY <1>1, <1>2, <1>3, <1>4, <1>5, <1>6, <1>7, <1>8, <1>9, <1>10
     DEF Step, Call, QuietStep

(* Every step keeps the MRU queue over published keys, without repeats. *)
LEMMA LruStep ==
  ASSUME IndInv, NEW t \in Thread, Step(t) \/ Call(t)
  PROVE  LruInv'
<1> USE DEF IndInv
<1>1. CASE UNCHANGED <<entries, lru>>
  BY <1>1 DEF LruInv
<1>2. CASE ConfirmAcquire(t)
  <2>1. key[t] \in Key /\ slot[t] \in Slot /\ entries[key[t]] = slot[t]
    BY <1>2 DEF ConfirmAcquire, TypeOK, LocalInv, EntryInv
  <2>2. TouchMru(key[t]) /\ UNCHANGED entries
    BY <1>2, <2>1 DEF ConfirmAcquire, StillPublished
  <2> QED BY <2>1, <2>2, TouchFacts, CacheConstants DEF LruInv
<1>3. ASSUME NEW k \in Key, NEW m \in Mode, TryAcquire(t, k, m) PROVE LruInv'
  BY <1>3, TouchFacts DEF TryAcquire, LruInv
<1>4. ASSUME NEW k \in Key, NEW s \in Slot, Unpublish(k, s) PROVE LruInv'
  <2>1. \A i \in 1..Len(lru) : lru[i] \in Key
    BY DEF TypeOK
  <2> QED BY <1>4, <2>1, UnpublishFacts DEF LruInv
<1>5. CASE ConfirmRemove(t)
  <2>1. key[t] \in Key /\ slot[t] \in Slot /\ StillPublished(t)
    BY <1>5 DEF ConfirmRemove, StillPublished, TypeOK, LocalInv, EntryInv
  <2> QED BY <1>4, <1>5, <2>1 DEF ConfirmRemove
<1>6. CASE GcTake(t)
  <2>1. lru[idx[t]] \in Key /\ GcSlot(t) \in Slot
    BY <1>6, CacheConstants DEF GcTake, GcMore, GcSlot, LocalInv, LruInv, TypeOK
  <2> QED BY <1>4, <1>6, <2>1 DEF GcTake
<1>7. CASE Publish(t)
  <2>1. /\ key[t] \in Key /\ slot[t] \in Slot /\ entries[key[t]] = NoSlot
        /\ lru \in Seq(Key)
    BY <1>7 DEF Publish, TypeOK, LocalInv, WorkInv, Working, EntriesInv
  <2>2. \A i \in 1..Len(lru) : lru[i] # key[t]
    BY <2>1 DEF LruInv
  <2>3. lru' = Append(lru, key[t]) /\ entries' = [entries EXCEPT ![key[t]] = slot[t]]
    BY <1>7 DEF Publish
  <2>4. Distinct(lru')
    BY <2>1, <2>2, <2>3 DEF LruInv, Distinct
  <2>5. \A i \in 1..Len(lru') : entries'[lru'[i]] # NoSlot
    BY <2>1, <2>3, CacheConstants DEF LruInv, TypeOK
  <2> QED BY <2>4, <2>5 DEF LruInv
<1>8. \/ UNCHANGED <<entries, lru>> \/ ConfirmAcquire(t)
      \/ \E k \in Key, m \in Mode : TryAcquire(t, k, m)
      \/ ConfirmRemove(t) \/ GcTake(t) \/ Publish(t)
  BY DEF Step, Call, stateVars, LookupHit, LookupPending, LookupOver, LookupMiss,
         RemoveMissing, EntryAcquire, TakeValue, Cleanup, FinishPending, Allocate,
         AllocateFails, CostOverflow, Release, GcLock, GcSkip, GcUnlock, GcCleanup,
         GcFinishPending, GcReturn, StartAcquire, StartRemove, SetCostQuota, StartGc,
         Demote
<1> QED BY <1>1, <1>2, <1>3, <1>5, <1>6, <1>7, <1>8

-----------------------------------------------------------------------------
(* The empty cache satisfies the invariant. *)
LEMMA InitEstablishesIndInv == Init => IndInv
<1> SUFFICES ASSUME Init PROVE IndInv
  OBVIOUS
<1> USE CacheConstants DEF Init
<1>1. TypeOK
  BY AnyKeyInKey DEF TypeOK, PC, Mode
<1>2. LeaseInv
  <2>1. \A s \in Slot : ReadHolders(s) = {} /\ WriteHolders(s) = {}
    BY DEF ReadHolders, WriteHolders, Holds
  <2> QED BY <2>1, FS_EmptySet DEF LeaseInv
<1>3. LocalInv
  BY DEF LocalInv
<1>4. LruInv
  BY DEF LruInv, Distinct
<1>5. EntriesInv /\ EntryInv /\ OffMapInv /\ FreshInv /\ WorkInv /\ LiveInv
  BY DEF EntriesInv, EntryInv, OffMapInv, FreshInv, WorkInv, LiveInv, Working
<1>6. BagInv /\ PassInv
  BY DEF BagInv, PassInv
<1> QED BY <1>1, <1>2, <1>3, <1>4, <1>5, <1>6 DEF IndInv

(* The invariant is inductive. *)
LEMMA StepKeepsIndInv == IndInv /\ [Next]_vars => IndInv'
<1> SUFFICES ASSUME IndInv, [Next]_vars PROVE IndInv'
  OBVIOUS
<1>1. CASE UNCHANGED vars
  <2>1. SameLeases
    BY <1>1 DEF vars, SameLeases, Holds
  <2>2. LeaseInv'
    BY <1>1, <2>1, HoldersUnchanged DEF vars, IndInv
  <2>3. TypeOK' /\ LocalInv' /\ EntriesInv' /\ LruInv' /\ EntryInv' /\ OffMapInv'
    BY <1>1
       DEF vars, IndInv, TypeOK, LocalInv, EntriesInv, LruInv, EntryInv,
           OffMapInv
  <2>4. FreshInv' /\ WorkInv' /\ BagInv' /\ PassInv' /\ LiveInv'
    BY <1>1 DEF vars, IndInv, FreshInv, WorkInv, BagInv, PassInv, LiveInv
  <2> QED BY <2>2, <2>3, <2>4 DEF IndInv
<1>2. ASSUME NEW t \in Thread, Step(t) \/ Call(t) PROVE IndInv'
  <2>1. TypeOK' /\ LocalInv' /\ LeaseInv' /\ LruInv' /\ CoreInv'
    BY <1>2, TypeOKStep, LocalStep, LeaseStep, LruStep, CoreStep
  <2> QED BY <2>1 DEF IndInv, CoreInv
<1> QED BY <1>1, <1>2 DEF Next

(* The strengthened invariant holds in every reachable state.                *)
THEOREM IndInvHolds == Spec => []IndInv
<1>1. Init => IndInv
  BY InitEstablishesIndInv
<1>2. IndInv /\ [Next]_vars => IndInv'
  BY StepKeepsIndInv
<1> QED BY <1>1, <1>2, PTL DEF Spec

(* Type correctness, the cost account's bound by usize::MAX included.        *)
THEOREM TypeCorrect == Spec => []TypeOK
<1>1. IndInv => TypeOK
  BY DEF IndInv
<1> QED BY <1>1, IndInvHolds, PTL

(* The lease states say who excludes whom. *)
LEMMA IndInvExcludes == IndInv => LeaseExclusion
<1> SUFFICES ASSUME IndInv, NEW t \in Thread, NEW u \in Thread, NEW s \in Slot,
                    NEW m \in Mode, t # u, Holds(t, s, "Write"), Holds(u, s, m)
             PROVE FALSE
  BY DEF LeaseExclusion
<1>1. t \in WriteHolders(s)
  BY DEF WriteHolders
<1>2. writer[s] /\ ReadHolders(s) = {} /\ \A v \in WriteHolders(s) : v = t
  BY <1>1 DEF IndInv, LeaseInv
<1>3. u \in ReadHolders(s) \/ u \in WriteHolders(s)
  BY DEF ReadHolders, WriteHolders, Mode
<1> QED BY <1>2, <1>3

(* "The logical state excludes writers for the whole lease": whatever the    *)
(* number of threads, a write lease is the only lease on its entry.          *)
THEOREM LeasesExclude == Spec => []LeaseExclusion
BY IndInvExcludes, IndInvHolds, PTL

(* A lease keeps its entry published, unremoved and not cleaned up.          *)
THEOREM LeasedStaysPublished == Spec => []HeldStaysPublished
<1>1. IndInv => HeldStaysPublished
  <2> SUFFICES ASSUME IndInv, NEW t \in Thread, pc[t] \in {"confirm", "held"}
               PROVE /\ entries[key[t]] = slot[t] /\ ~removed[slot[t]]
                     /\ slot[t] \in live
    BY DEF HeldStaysPublished
  <2>1. entries[key[t]] = slot[t] /\ slot[t] \in Slot /\ key[t] \in Key
    BY DEF IndInv, EntryInv, LocalInv, TypeOK
  <2> QED BY <2>1, CacheConstants DEF IndInv, EntriesInv
<1> QED BY <1>1, IndInvHolds, PTL

(* "allocate is single-flight for each key": no key ever has two of a        *)
(* running allocation, a published entry and a value awaiting cleanup.       *)
THEOREM AllocationIsSingleFlight == Spec => []SingleFlight
<1>1. IndInv => SingleFlight
  <2> SUFFICES ASSUME IndInv PROVE SingleFlight
    OBVIOUS
  <2> USE DEF IndInv
  <2>1. \A s \in live :
          \/ entries[ekey[s]] = s /\ ekey[s] \notin pending
          \/ \E t \in Thread : /\ pc[t] \in {"publish", "take", "cleanup"}
                               /\ slot[t] = s /\ key[t] = ekey[s] /\ ekey[s] \in pending
          \/ \E t \in Thread : \E i \in 1..Len(bag[t]) :
               bag[t][i] = s /\ ekey[s] \in pending
    <3> TAKE s \in live
    <3>1. s # NoSlot
      BY CacheConstants DEF TypeOK
    <3> QED BY <3>1 DEF LiveInv, EntriesInv, OffMapInv, WorkInv, BagInv, Working
  <2>2. ASSUME NEW r \in live, NEW s \in live, ekey[r] = ekey[s] PROVE r = s
    BY <2>1, <2>2 DEF WorkInv, BagInv, Working
  <2>3. ASSUME NEW t \in Thread, pc[t] = "allocate"
        PROVE  /\ \A s \in live : ekey[s] # key[t]
               /\ \A u \in Thread : pc[u] = "allocate" /\ key[u] = key[t] => u = t
    BY <2>1, <2>3 DEF WorkInv, BagInv, Working
  <2> QED BY <2>2, <2>3 DEF SingleFlight
<1> QED BY <1>1, IndInvHolds, PTL

-----------------------------------------------------------------------------
(* The lease LeaseCache sees a thread hold. *)
LeaseOf(t) == IF pc[t] = "held" THEN [key |-> key[t], mode |-> mode[t]] ELSE NoSlot

(* It is a lease on the thread's key exactly while the thread holds one. *)
LEMMA LeaseOfFacts ==
  ASSUME TypeOK, NEW t \in Thread
  PROVE  /\ LeaseOf(t) # NoSlot <=> pc[t] = "held"
         /\ pc[t] = "held" => LeaseOf(t).key = key[t] /\ LeaseOf(t).mode = mode[t]
<1>1. key[t] \in Key /\ mode[t] \in Mode
  BY DEF TypeOK
<1>2. [key |-> key[t], mode |-> mode[t]] # NoSlot
  BY <1>1, NoSlotIsNoLease
<1> QED BY <1>2 DEF LeaseOf

(* The threads LeaseCache sees hold a lease on a key. *)
LEMMA HoldersAre ==
  ASSUME TypeOK, NEW k, NEW t \in Leases!Holders(k)
  PROVE  t \in Thread /\ pc[t] = "held" /\ key[t] = k
<1>1. t \in Thread /\ LeaseOf(t) # NoSlot /\ LeaseOf(t).key = k
  BY DEF Leases!Holders, LeaseOf
<1> QED BY <1>1, LeaseOfFacts

(* A step that publishes nothing new and leaves its thread without a lease,  *)
(* as it was, is no step of LeaseCache.                                      *)
LEMMA SilentImplements ==
  ASSUME NEW t \in Thread, Others(t), UNCHANGED entries,
         pc[t] # "held", pc'[t] # "held"
  PROVE  UNCHANGED Leases!vars
<1>1. \A u \in Thread : LeaseOf(u)' = LeaseOf(u)
  BY DEF Others, LeaseOf
<1> QED BY <1>1 DEF Leases!vars, LeaseOf

(* A lease that was granted is compatible with the leases there were.        *)
LEMMA GrantedIsCompatible ==
  ASSUME IndInv, IndInv', NEW t \in Thread, Others(t),
         pc[t] # "held", pc'[t] = "held",
         NEW k \in Key, k = key'[t], NEW m \in Mode, m = mode'[t]
  PROVE  Leases!Compatible(k, m)
<1> SUFFICES ASSUME NEW u \in Leases!Holders(k)
             PROVE  m = "Read" /\ LeaseOf(u).mode = "Read"
  BY DEF Leases!Compatible, Leases!Holders, LeaseOf
<1>1. u \in Thread /\ pc[u] = "held" /\ key[u] = k /\ u # t
  BY HoldersAre DEF IndInv
<1>2. pc'[u] = "held" /\ key'[u] = k /\ slot'[u] = slot[u] /\ mode'[u] = mode[u]
  BY <1>1 DEF Others
<1>3. slot'[u] = slot'[t] /\ slot'[t] \in Slot /\ mode'[u] \in Mode
  BY <1>1, <1>2 DEF IndInv, EntryInv, LocalInv, TypeOK
<1>4. LeaseExclusion'
  BY IndInvExcludes, PTL
<1>5. mode'[u] = "Read" /\ m = "Read"
  BY <1>1, <1>2, <1>3, <1>4 DEF LeaseExclusion, Holds, Mode
<1> QED BY <1>1, <1>2, <1>5, LeaseOfFacts DEF IndInv

(* A call that hits ends holding a lease on the published entry.             *)
LEMMA GrantImplementsAcquire ==
  ASSUME IndInv, IndInv', NEW t \in Thread, Others(t), UNCHANGED entries,
         pc[t] # "held", pc'[t] = "held"
  PROVE  Leases!Next
<1>1. PICK k \in Key, m \in Mode : k = key'[t] /\ m = mode'[t]
  BY DEF IndInv, TypeOK
<1>2. entries[k] # NoSlot
  BY <1>1, CacheConstants DEF IndInv, EntryInv, LocalInv
<1>3. LeaseOf(t) = NoSlot /\ LeaseOf(t)' = [key |-> k, mode |-> m]
  BY <1>1 DEF LeaseOf
<1>4. \A u \in Thread : u # t => LeaseOf(u)' = LeaseOf(u)
  BY DEF Others, LeaseOf
<1>5. Leases!Compatible(k, m)
  BY <1>1, GrantedIsCompatible
<1>6. Leases!Acquire(t, k, m)
  BY <1>2, <1>3, <1>4, <1>5 DEF Leases!Acquire, Leases!Compatible,
      Leases!Holders, LeaseOf
<1> QED BY <1>6 DEF Leases!Next, Mode

(* A miss ends holding the only lease on what it published.                  *)
LEMMA PublishImplementsAllocate ==
  ASSUME IndInv, IndInv', NEW t \in Thread, Publish(t)
  PROVE  Leases!Next
<1>1. /\ slot[t] \in Slot /\ pc[t] = "publish" /\ pc'[t] = "held" /\ key' = key
      /\ entries' = [entries EXCEPT ![key[t]] = slot[t]]
  BY DEF Publish, Goto, IndInv, TypeOK, LocalInv
<1>2. PICK k \in Key, m \in Mode : k = key[t] /\ m = mode'[t]
  BY DEF IndInv, TypeOK
<1>3. entries[k] = NoSlot
  BY <1>1, <1>2 DEF IndInv, WorkInv, Working, EntriesInv
<1>4. LeaseOf(t) = NoSlot /\ LeaseOf(t)' = [key |-> k, mode |-> m]
  BY <1>1, <1>2 DEF LeaseOf
<1>5. \A u \in Thread : u # t => LeaseOf(u)' = LeaseOf(u)
  BY OthersUnchanged DEF Others, LeaseOf, Step, IndInv
<1>6. Leases!Allocate(t, k, m)
  BY <1>1, <1>2, <1>3, <1>4, <1>5 DEF Leases!Allocate, LeaseOf
<1> QED BY <1>6 DEF Leases!Next, Mode

(* A removal or a collection evicts an entry nobody holds a lease on.        *)
LEMMA UnpublishImplementsEvict ==
  ASSUME IndInv, IndInv', NEW t \in Thread, Others(t),
         pc[t] # "held", pc'[t] # "held",
         NEW k \in Key, entries[k] # NoSlot, entries' = [entries EXCEPT ![k] = NoSlot]
  PROVE  Leases!Next
<1>1. \A u \in Thread : LeaseOf(u)' = LeaseOf(u)
  BY DEF Others, LeaseOf
<1>2. Leases!Holders(k) = {}
  <2> SUFFICES ASSUME NEW u \in Leases!Holders(k) PROVE FALSE
    OBVIOUS
  <2>1. u \in Thread /\ pc[u] = "held" /\ key[u] = k /\ u # t
    BY HoldersAre DEF IndInv
  <2>2. pc'[u] = "held" /\ key'[u] = k
    BY <2>1 DEF Others
  <2>3. entries'[k] \in Slot
    BY <2>1, <2>2 DEF IndInv, EntryInv, LocalInv
  <2> QED BY <2>3, CacheConstants DEF IndInv, TypeOK
<1>3. Leases!Evict(k)
  BY <1>1, <1>2 DEF Leases!Evict, LeaseOf
<1> QED BY <1>3 DEF Leases!Next

(* Giving a lease up, or making a write lease a read lease. *)
LEMMA ReleaseImplements ==
  ASSUME IndInv, NEW t \in Thread, Release(t)
  PROVE  Leases!Next
<1>1. pc[t] = "held" /\ pc'[t] = "idle" /\ UNCHANGED entries
  BY ReturnFacts DEF Release, IndInv, stateVars
<1>2. LeaseOf(t) # NoSlot /\ LeaseOf(t)' = NoSlot
  BY <1>1, LeaseOfFacts DEF LeaseOf, IndInv
<1>3. \A u \in Thread : u # t => LeaseOf(u)' = LeaseOf(u)
  BY OthersUnchanged DEF Others, LeaseOf, Step, IndInv
<1>4. Leases!Release(t)
  BY <1>1, <1>2, <1>3 DEF Leases!Release, LeaseOf
<1> QED BY <1>4 DEF Leases!Next

LEMMA DemoteImplements ==
  ASSUME IndInv, NEW t \in Thread, Demote(t)
  PROVE  Leases!Next
<1>1. /\ pc[t] = "held" /\ mode[t] = "Write" /\ mode'[t] = "Read"
      /\ UNCHANGED <<entries, pc, key>>
  BY DEF Demote, IndInv, TypeOK, stateVars
<1>2. /\ LeaseOf(t) # NoSlot /\ LeaseOf(t).mode = "Write"
      /\ LeaseOf(t)' = [LeaseOf(t) EXCEPT !.mode = "Read"]
  BY <1>1, LeaseOfFacts DEF LeaseOf, IndInv
<1>3. \A u \in Thread : u # t => LeaseOf(u)' = LeaseOf(u)
  BY OthersUnchanged DEF Others, LeaseOf, Call, IndInv
<1>4. Leases!Demote(t)
  BY <1>1, <1>2, <1>3 DEF Leases!Demote, LeaseOf
<1> QED BY <1>4 DEF Leases!Next

(* Every step of the cache is a step of LeaseCache, or none. *)
LEMMA StepImplementsLeases ==
  ASSUME IndInv, IndInv', NEW t \in Thread, Step(t) \/ Call(t)
  PROVE  [Leases!Next]_(Leases!vars)
<1>o. Others(t)
  BY OthersUnchanged DEF IndInv
<1>1. CASE /\ UNCHANGED entries /\ pc[t] # "held" /\ pc'[t] # "held"
  BY <1>1, <1>o, SilentImplements
<1>2. CASE ConfirmAcquire(t)
  <2>1. pc[t] # "held" /\ pc'[t] = "held" /\ UNCHANGED entries
    BY <1>2 DEF ConfirmAcquire, StillPublished, Goto, IndInv, EntryInv, TypeOK
  <2> QED BY <2>1, <1>o, GrantImplementsAcquire
<1>3. ASSUME NEW k \in Key, NEW m \in Mode, TryAcquire(t, k, m) PROVE Leases!Next
  <2>1. pc[t] # "held" /\ pc'[t] = "held" /\ UNCHANGED entries
    BY <1>3 DEF TryAcquire, Goto, IndInv, TypeOK
  <2> QED BY <2>1, <1>o, GrantImplementsAcquire
<1>4. CASE Publish(t)
  BY <1>4, PublishImplementsAllocate
<1>5. CASE ConfirmRemove(t)
  <2>1. /\ key[t] \in Key /\ slot[t] \in Slot /\ entries[key[t]] = slot[t]
        /\ pc[t] = "confirm" /\ pc'[t] = "take"
        /\ entries' = [entries EXCEPT ![key[t]] = NoSlot]
    BY <1>5 DEF ConfirmRemove, StillPublished, Unpublish, Goto, IndInv, EntryInv, LocalInv,
                TypeOK
  <2> QED BY <2>1, <1>o, UnpublishImplementsEvict, CacheConstants
<1>6. CASE GcTake(t)
  <2>1. /\ lru[idx[t]] \in Key /\ entries[lru[idx[t]]] # NoSlot
        /\ pc[t] = "scan" /\ UNCHANGED pc
        /\ entries' = [entries EXCEPT ![lru[idx[t]]] = NoSlot]
    BY <1>6 DEF GcTake, GcMore, Unpublish, IndInv, LruInv, LocalInv, TypeOK
  <2> QED BY <2>1, <1>o, UnpublishImplementsEvict
<1>7. CASE Release(t)
  BY <1>7, ReleaseImplements
<1>8. CASE Demote(t)
  BY <1>8, DemoteImplements
<1>9. \/ UNCHANGED entries /\ pc[t] # "held" /\ pc'[t] # "held"
      \/ ConfirmAcquire(t) \/ \E k \in Key, m \in Mode : TryAcquire(t, k, m)
      \/ Publish(t) \/ ConfirmRemove(t) \/ GcTake(t) \/ Release(t) \/ Demote(t)
  <2> USE DEF IndInv, TypeOK, Goto
  <2>1. CASE RemoveMissing(t) \/ FinishPending(t)
    BY <2>1, ReturnFacts DEF RemoveMissing, FinishPending, stateVars
  <2>2. CASE GcReturn(t)
    BY <2>2, ReturnFacts DEF GcReturn, stateVars
  <2>3. CASE EntryAcquire(t) \/ GcSkip(t)
    BY <2>3 DEF EntryAcquire, GcSkip, stateVars
  <2>4. CASE LookupHit(t) \/ LookupPending(t) \/ LookupOver(t) \/ LookupMiss(t)
    BY <2>4 DEF LookupHit, LookupPending, LookupOver, LookupMiss, stateVars
  <2>5. CASE TakeValue(t) \/ Cleanup(t) \/ AllocateFails(t) \/ CostOverflow(t)
             \/ \E c \in Costs : Allocate(t, c)
    BY <2>5 DEF TakeValue, Cleanup, AllocateFails, CostOverflow, Allocate, stateVars
  <2>6. CASE GcLock(t) \/ GcUnlock(t) \/ GcFinishPending(t)
             \/ \E p \in BOOLEAN : GcCleanup(t, p)
    BY <2>6 DEF GcLock, GcUnlock, GcFinishPending, GcCleanup, stateVars
  <2>7. CASE \/ \E k \in Key, m \in Mode : StartAcquire(t, k, m)
             \/ \E k \in Key : StartRemove(t, k)
             \/ \E q \in Quotas : SetCostQuota(t, q)
             \/ \E r \in Ratios : StartGc(t, r)
    BY <2>7 DEF StartAcquire, StartRemove, SetCostQuota, StartGc, stateVars
  <2> HIDE DEF IndInv, TypeOK, Goto
  <2> QED BY <2>1, <2>2, <2>3, <2>4, <2>5, <2>6, <2>7 DEF Step, Call
<1> QED BY <1>1, <1>2, <1>3, <1>4, <1>5, <1>6, <1>7, <1>8, <1>9

(* The cache keeps the promises of LeaseCache: leases exclude each other and *)
(* pin their entries, a miss publishes one value for its key, and only a     *)
(* value nobody leases is removed or collected, as if each call were one     *)
(* step.                                                                     *)
THEOREM CacheImplementsLeases == Spec => ImplementsLeases
<1>1. Init => Leases!Init
  BY DEF Init, Leases!Init
<1>2. IndInv /\ IndInv' /\ [Next]_vars => [Leases!Next]_(Leases!vars)
  <2> SUFFICES ASSUME IndInv, IndInv', [Next]_vars PROVE [Leases!Next]_(Leases!vars)
    OBVIOUS
  <2>1. CASE UNCHANGED vars
    BY <2>1 DEF vars, Leases!vars
  <2> QED BY <2>1, StepImplementsLeases DEF Next
<1> QED BY <1>1, <1>2, IndInvHolds, PTL DEF Spec, ImplementsLeases, Leases!Spec

-----------------------------------------------------------------------------
(* What the records beside the entries agree with, one step at a time.       *)

(* A parked key has a thread at work on it, or its value in a bag. *)
PendingInv ==
  \A k \in pending : \E t \in Thread :
    \/ pc[t] \in Working /\ key[t] = k
    \/ \E i \in 1..Len(bag[t]) : ekey[bag[t][i]] = k

PublishedKeys == {k \in Key : entries[k] # NoSlot}
CostOf == [k \in PublishedKeys |-> ecost[entries[k]]]

(* The MRU queue lists every published key, and the account adds them up.    *)
AccountInv ==
  /\ \A k \in PublishedKeys : \E i \in 1..Len(lru) : lru[i] = k
  /\ cost = SumFunctionOnSet(CostOf, PublishedKeys)

(* A value in a thread's hands is alive, but for the one it just cleaned up. *)
HandInv ==
  \A t \in Thread :
    /\ pc[t] \in {"publish", "take", "cleanup"} => slot[t] \in live
    /\ \A i \in 1..Len(bag[t]) : bag[t][i] \in live \/ (pc[t] = "collectFinish" /\ i = 1)

BookInv == PendingInv /\ AccountInv /\ HandInv

(* The keys in the queue are the published ones; there are finitely many.    *)
LEMMA QueueIsPublished ==
  ASSUME TypeOK, LruInv, AccountInv
  PROVE  /\ Range(lru) = PublishedKeys /\ Len(lru) = Cardinality(PublishedKeys)
         /\ IsFiniteSet(PublishedKeys)
<1>1. lru \in Seq(Key) /\ \A i \in 1..Len(lru) : lru[i] \in PublishedKeys
  BY DEF TypeOK, LruInv, PublishedKeys
<1>2. \A x : x \in Range(lru) <=> \E i \in 1..Len(lru) : lru[i] = x
  BY <1>1, DistinctCardinality DEF LruInv
<1>3. \A x : x \in PublishedKeys <=> \E i \in 1..Len(lru) : lru[i] = x
  BY <1>1 DEF AccountInv
<1>4. Range(lru) = PublishedKeys
  BY <1>2, <1>3
<1> QED BY <1>1, <1>4, DistinctCardinality DEF LruInv

(* Every step of a quiet thread keeps what it is responsible for. *)
LEMMA QuietIsSteady ==
  ASSUME IndInv, NEW t \in Thread, QuietStep(t)
  PROVE  /\ pc[t] \in Working => pc'[t] \in Working /\ key'[t] = key[t]
         /\ pc[t] # "collectFinish"
<1> USE DEF IndInv, TypeOK, Goto, Working
<1>1. CASE RemoveMissing(t) \/ Release(t)
  BY <1>1 DEF RemoveMissing, Release
<1>2. CASE GcReturn(t) \/ LookupHit(t) \/ LookupPending(t) \/ LookupOver(t)
           \/ EntryAcquire(t) \/ ConfirmAcquire(t)
  BY <1>2 DEF GcReturn, LookupHit, LookupPending, LookupOver, EntryAcquire, ConfirmAcquire
<1>3. CASE TakeValue(t) \/ AllocateFails(t) \/ CostOverflow(t)
  BY <1>3 DEF TakeValue, AllocateFails, CostOverflow
<1>4. CASE GcLock(t) \/ GcSkip(t) \/ GcUnlock(t) \/ Demote(t)
  BY <1>4 DEF GcLock, GcSkip, GcUnlock, Demote
<1>5. CASE \/ \E k \in Key, m \in Mode : StartAcquire(t, k, m) \/ TryAcquire(t, k, m)
           \/ \E k \in Key : StartRemove(t, k)
           \/ \E q \in Quotas : SetCostQuota(t, q)
           \/ \E r \in Ratios : StartGc(t, r)
  BY <1>5 DEF StartAcquire, TryAcquire, StartRemove, SetCostQuota, StartGc
<1> HIDE DEF IndInv, TypeOK, Goto, Working
<1> QED BY <1>1, <1>2, <1>3, <1>4, <1>5 DEF QuietStep

(* A step leaves a parked key its owner, or unparks it. *)
LEMMA PendingStep ==
  ASSUME IndInv, PendingInv, NEW t \in Thread, Step(t) \/ Call(t)
  PROVE  PendingInv'
<1>o. Others(t)
  BY OthersUnchanged DEF IndInv
<1> SUFFICES ASSUME NEW k \in pending'
             PROVE  \E u \in Thread :
                      \/ pc'[u] \in Working /\ key'[u] = k
                      \/ \E i \in 1..Len(bag'[u]) : ekey'[bag'[u][i]] = k
  BY DEF PendingInv
<1> DEFINE Owned(u) == \/ pc[u] \in Working /\ key[u] = k
                       \/ \E i \in 1..Len(bag[u]) : ekey[bag[u][i]] = k
           OwnedNow(u) == \/ pc'[u] \in Working /\ key'[u] = k
                          \/ \E i \in 1..Len(bag'[u]) : ekey'[bag'[u][i]] = k
<1> SUFFICES \E u \in Thread : OwnedNow(u)
  OBVIOUS
(* It is enough to look at the thread that takes the step. *)
<1>1. ASSUME UNCHANGED ekey, k \in pending, Owned(t) => OwnedNow(t)
      PROVE  \E u \in Thread : OwnedNow(u)
  <2>1. PICK u \in Thread : Owned(u)
    BY <1>1 DEF PendingInv
  <2>2. u # t /\ Owned(u) => OwnedNow(u)
    BY <1>1, <1>o DEF Others
  <2> QED BY <1>1, <2>1, <2>2
<1> HIDE DEF Owned, OwnedNow
<1>2. CASE QuietStep(t)
  <2>1. UNCHANGED <<pending, ekey, bag>>
    BY <1>2, QuietSteps DEF Quiet
  <2>2. Owned(t) => OwnedNow(t)
    BY <1>2, <2>1, QuietIsSteady DEF Owned, OwnedNow
  <2> QED BY <1>1, <2>1, <2>2
<1>3. CASE LookupMiss(t)
  <2>1. /\ pc[t] = "lookup" /\ pc'[t] = "allocate" /\ pending' = pending \cup {key[t]}
        /\ UNCHANGED <<key, ekey, bag>>
    BY <1>3 DEF LookupMiss, Goto, IndInv, TypeOK, slotVars, gcVars
  <2>2. CASE k = key[t]
    BY <2>1, <2>2 DEF OwnedNow, Working
  <2>3. CASE k # key[t]
    <3>1. Owned(t) => OwnedNow(t)
      BY <2>1 DEF Owned, OwnedNow, Working
    <3> QED BY <1>1, <2>1, <2>3, <3>1
  <2> QED BY <2>2, <2>3
<1>4. CASE ConfirmRemove(t)
  <2>1. /\ pc[t] = "confirm" /\ pc'[t] = "take" /\ pending' = pending \cup {key[t]}
        /\ UNCHANGED <<key, ekey, bag>>
    BY <1>4 DEF ConfirmRemove, Goto, IndInv, TypeOK, EntryInv, StillPublished, Unpublish,
                slotVars, gcVars
  <2>2. CASE k = key[t]
    BY <2>1, <2>2 DEF OwnedNow, Working
  <2>3. CASE k # key[t]
    <3>1. Owned(t) => OwnedNow(t)
      BY <2>1 DEF Owned, OwnedNow, Working
    <3> QED BY <1>1, <2>1, <2>3, <3>1
  <2> QED BY <2>2, <2>3
<1>5. CASE Cleanup(t)
  <2>1. /\ pc'[t] = "finish" /\ UNCHANGED <<pending, key, ekey, bag>>
    BY <1>5 DEF Cleanup, Goto, IndInv, TypeOK, stateVars, slotVars, gcVars
  <2>2. Owned(t) => OwnedNow(t)
    BY <2>1 DEF Owned, OwnedNow, Working
  <2> QED BY <1>1, <2>1, <2>2
<1>6. CASE FinishPending(t)
  <2>1. /\ pc[t] = "finish" /\ pending' = pending \ {key[t]} /\ UNCHANGED <<ekey, bag>>
    BY <1>6 DEF FinishPending, slotVars
  <2>2. k # key[t]
    BY <2>1
  <2>3. Owned(t) => OwnedNow(t)
    BY <2>1, <2>2 DEF Owned, OwnedNow
  <2> QED BY <1>1, <2>1, <2>3
<1>7. ASSUME NEW c \in Costs, Allocate(t, c)
      PROVE  \E u \in Thread : OwnedNow(u)
  <2>1. /\ pc'[t] = "publish" /\ UNCHANGED <<pending, key, bag>> /\ NewSlot \in FreeSlots
        /\ ekey' = [ekey EXCEPT ![NewSlot] = key[t]] /\ pc[t] = "allocate"
    BY <1>7, NewSlotIsFree DEF Allocate, Goto, IndInv, TypeOK, stateVars, gcVars
  <2>2. PICK u \in Thread : Owned(u)
    BY <2>1 DEF PendingInv, Owned
  <2>3. \A i \in 1..Len(bag[u]) : bag[u][i] # NewSlot /\ bag[u][i] \in Slot
    <3>1. bag[u] \in Seq(Slot)
      BY DEF IndInv, TypeOK
    <3>2. \A i \in 1..Len(bag[u]) : i \in DOMAIN bag[u] /\ bag[u][i] \in Slot
      BY <3>1
    <3>3. \A i \in DOMAIN bag[u] : bag[u][i] \in Referenced
      BY DEF Referenced, Range
    <3>4. NewSlot \notin Referenced
      BY <2>1 DEF FreeSlots
    <3> QED BY <3>2, <3>3, <3>4
  <2>4. \A i \in 1..Len(bag[u]) : ekey'[bag[u][i]] = ekey[bag[u][i]]
    BY <2>1, <2>3 DEF IndInv, TypeOK
  <2>5. pc[u] \in Working => pc'[u] \in Working
    BY <2>1, <1>o DEF Others, Working
  <2> QED BY <2>1, <2>2, <2>4, <2>5 DEF Owned, OwnedNow
<1>8. CASE Publish(t)
  <2>1. /\ pc[t] = "publish" /\ pending' = pending \ {key[t]} /\ UNCHANGED <<key, ekey, bag>>
    BY <1>8 DEF Publish, slotVars, gcVars
  <2>2. k # key[t]
    BY <2>1
  <2>3. Owned(t) => OwnedNow(t)
    BY <2>1, <2>2 DEF Owned, OwnedNow
  <2> QED BY <1>1, <2>1, <2>3
<1>9. CASE GcTake(t)
  <2>1. PICK q \in Key, s \in Slot : q = lru[idx[t]] /\ s = entries[q]
    BY <1>9, CacheConstants DEF GcTake, GcMore, GcSlot, IndInv, LocalInv, LruInv, TypeOK
  <2>2. /\ pending' = pending \cup {q} /\ bag' = [bag EXCEPT ![t] = Append(@, s)]
        /\ UNCHANGED <<pc, key, ekey>>
    BY <1>9, <2>1 DEF GcTake, GcSlot, Unpublish, slotVars
  <2>3. /\ bag[t] \in Seq(Slot) /\ bag'[t] = Append(bag[t], s)
    BY <2>2 DEF IndInv, TypeOK
  <2>4. /\ Len(bag'[t]) = Len(bag[t]) + 1 /\ bag'[t][Len(bag[t]) + 1] = s
        /\ \A i \in 1..Len(bag[t]) : bag'[t][i] = bag[t][i]
    BY <2>3
  <2>5. CASE k = q
    <3>1. ekey[s] = q
      BY <2>1, CacheConstants DEF IndInv, EntriesInv
    <3>2. Len(bag[t]) + 1 \in 1..Len(bag'[t])
      BY <2>3, <2>4
    <3> QED BY <2>2, <2>4, <2>5, <3>1, <3>2 DEF OwnedNow
  <2>6. CASE k # q
    <3>1. \A i \in 1..Len(bag[t]) : i \in 1..Len(bag'[t])
      BY <2>3, <2>4
    <3>2. Owned(t) => OwnedNow(t)
      BY <2>2, <2>4, <3>1 DEF Owned, OwnedNow
    <3> QED BY <1>1, <2>2, <2>6, <3>2
  <2> QED BY <2>5, <2>6
<1>10. ASSUME NEW p \in BOOLEAN, GcCleanup(t, p)
       PROVE  \E u \in Thread : OwnedNow(u)
  <2>1. /\ pc[t] = "collect" /\ UNCHANGED <<pending, key, ekey, bag>>
    BY <1>10 DEF GcCleanup, stateVars, slotVars, gcVars
  <2>2. Owned(t) => OwnedNow(t)
    BY <2>1 DEF Owned, OwnedNow, Working
  <2> QED BY <1>1, <2>1, <2>2
<1>11. CASE GcFinishPending(t)
  <2>1. /\ pc[t] = "collectFinish" /\ bag[t] # <<>> /\ bag[t] \in Seq(Slot)
        /\ pending' = pending \ {ekey[Head(bag[t])]} /\ bag'[t] = Tail(bag[t])
        /\ UNCHANGED <<key, ekey>>
    BY <1>11 DEF GcFinishPending, IndInv, PassInv, TypeOK, slotVars
  <2>2. /\ Head(bag[t]) = bag[t][1] /\ Len(bag'[t]) = Len(bag[t]) - 1
        /\ \A i \in 1..Len(bag[t]) : i # 1 => i - 1 \in 1..Len(bag'[t])
                                              /\ bag'[t][i - 1] = bag[t][i]
    BY <2>1
  <2>3. k # ekey[bag[t][1]] /\ k \in pending
    BY <2>1, <2>2
  <2>4. Owned(t) => OwnedNow(t)
    BY <2>1, <2>2, <2>3 DEF Owned, OwnedNow, Working
  <2> QED BY <1>1, <2>1, <2>3, <2>4
<1> QED
  BY <1>2, <1>3, <1>4, <1>5, <1>6, <1>7, <1>8, <1>9, <1>10, <1>11
     DEF Step, Call, QuietStep

(* RemoveLruKey leaves every other key in the queue. *)
LEMMA RemoveLruKeyKeeps ==
  ASSUME NEW s \in Seq(Key), NEW k \in Key, NEW i \in 1..Len(s), s[i] # k
  PROVE  \E j \in 1..Len(RemoveLruKey(s, k)) : RemoveLruKey(s, k)[j] = s[i]
<1>1. CASE k \in Range(s)
  <2> DEFINE r == CHOOSE r \in DOMAIN s : s[r] = k
  <2>1. r \in 1..Len(s) /\ s[r] = k
    BY <1>1 DEF Range
  <2>2. RemoveLruKey(s, k) = RemoveAt(s, r)
    BY <1>1 DEF RemoveLruKey
  <2> HIDE DEF r
  <2>3. r # i
    BY <2>1
  <2> QED BY <2>1, <2>2, <2>3, RemoveAtKeeps
<1>2. CASE k \notin Range(s)
  BY <1>2 DEF RemoveLruKey
<1> QED BY <1>1, <1>2

(* The costs of the published entries are naturals. *)
LEMMA CostOfType ==
  ASSUME TypeOK
  PROVE  \A k \in PublishedKeys : CostOf[k] = ecost[entries[k]] /\ CostOf[k] \in Nat
BY CacheConstants DEF TypeOK, PublishedKeys, CostOf

(* A step that publishes and unpublishes nothing. *)
LEMMA AccountUnchanged ==
  ASSUME AccountInv, UNCHANGED <<entries, lru, cost>>,
         \A k \in PublishedKeys : ecost'[entries[k]] = ecost[entries[k]]
  PROVE  AccountInv'
<1>1. PublishedKeys' = PublishedKeys
  BY DEF PublishedKeys
<1>2. CostOf' = CostOf
  BY <1>1 DEF CostOf
<1> QED BY <1>1, <1>2 DEF AccountInv

(* touch_mru reorders the queue only. *)
LEMMA TouchKeepsAccount ==
  ASSUME TypeOK, AccountInv, NEW k \in Key, TouchMru(k), UNCHANGED <<entries, cost, ecost>>,
         LruInv
  PROVE  AccountInv'
<1>1. PublishedKeys' = PublishedKeys /\ CostOf' = CostOf
  BY DEF PublishedKeys, CostOf
<1>2. PICK q \in Seq(Key) : q = RemoveLruKey(lru, k)
  BY RemoveLruKeyFacts DEF TypeOK, LruInv
<1>3. /\ lru' = Append(q, k) /\ Len(lru') = Len(q) + 1 /\ lru'[Len(q) + 1] = k
      /\ \A i \in 1..Len(q) : lru'[i] = q[i]
  BY <1>2 DEF TouchMru
<1>4. ASSUME NEW j \in PublishedKeys PROVE \E i \in 1..Len(lru') : lru'[i] = j
  <2>1. CASE j = k
    <3>1. Len(q) + 1 \in 1..Len(lru')
      BY <1>2, <1>3
    <3> QED BY <1>3, <2>1, <3>1
  <2>2. CASE j # k
    <3>1. PICK i \in 1..Len(lru) : lru[i] = j
      BY DEF AccountInv
    <3>2. PICK m \in 1..Len(q) : q[m] = j
      BY <1>2, <2>2, <3>1, RemoveLruKeyKeeps DEF TypeOK
    <3>3. m \in 1..Len(lru')
      BY <1>2, <1>3
    <3> QED BY <1>3, <3>2, <3>3
  <2> QED BY <2>1, <2>2
<1> QED BY <1>1, <1>4 DEF AccountInv

(* A removal or a collection takes the entry's key and its cost out.         *)
LEMMA UnpublishKeepsAccount ==
  ASSUME TypeOK, LruInv, AccountInv, NEW k \in Key, NEW s \in Slot, entries[k] = s,
         Unpublish(k, s), UNCHANGED ecost
  PROVE  AccountInv'
<1>1. k \in PublishedKeys /\ IsFiniteSet(PublishedKeys)
  BY CacheConstants, QueueIsPublished DEF PublishedKeys
<1>2. PublishedKeys' = PublishedKeys \ {k}
  BY DEF PublishedKeys, Unpublish, TypeOK
<1>3. ASSUME NEW j \in PublishedKeys' PROVE \E i \in 1..Len(lru') : lru'[i] = j
  <2>1. j \in PublishedKeys /\ j # k
    BY <1>2
  <2>2. PICK i \in 1..Len(lru) : lru[i] = j
    BY <2>1 DEF AccountInv
  <2>3. lru' = RemoveLruKey(lru, k)
    BY DEF Unpublish
  <2> QED BY <2>1, <2>2, <2>3, RemoveLruKeyKeeps DEF TypeOK
<1> DEFINE P == PublishedKeys \ {k}
           f == CostOf
           g == CostOf'
<1>4. \A j \in PublishedKeys : f[j] = ecost[entries[j]] /\ f[j] \in Nat
  BY CostOfType
<1>5. \A j \in P : g[j] = f[j]
  BY <1>2, <1>4 DEF CostOf, Unpublish, TypeOK, PublishedKeys
<1> HIDE DEF f, g
<1>6. IsFiniteSet(P)
  BY <1>1, FS_RemoveElement
<1>7. SumFunctionOnSet(f, PublishedKeys) = f[k] + SumFunctionOnSet(f, P)
  BY <1>1, <1>4, SumOverRemove
<1>8. SumFunctionOnSet(g, P) = SumFunctionOnSet(f, P)
  BY <1>5, <1>6, SumOverEqual
<1>9. SumFunctionOnSet(f, P) \in Nat
  BY <1>4, <1>6, SumOverType
<1>10. cost = SumFunctionOnSet(f, PublishedKeys) /\ f[k] = ecost[s] /\ f[k] \in Nat
  BY <1>1, <1>4 DEF AccountInv, f
<1>11. cost' = SumFunctionOnSet(g, P)
  <2> HIDE DEF P
  <2>1. cost' = cost - ecost[s]
    BY <1>7, <1>9, <1>10 DEF Unpublish, CheckedSub
  <2> QED BY <2>1, <1>7, <1>8, <1>9, <1>10
<1> QED BY <1>2, <1>3, <1>11 DEF AccountInv, g

(* Publishing adds both. *)
LEMMA PublishKeepsAccount ==
  ASSUME IndInv, AccountInv, NEW t \in Thread, Publish(t)
  PROVE  AccountInv'
<1>1. PICK k \in Key, s \in Slot : k = key[t] /\ s = slot[t]
  BY DEF Publish, IndInv, TypeOK, LocalInv
<1>2. /\ entries' = [entries EXCEPT ![k] = s] /\ lru' = Append(lru, k)
      /\ cost' = cost + ecost[s] /\ UNCHANGED ecost
  BY <1>1 DEF Publish, slotVars
<1>3. entries[k] = NoSlot /\ lru \in Seq(Key) /\ TypeOK
  BY <1>1 DEF Publish, IndInv, TypeOK, WorkInv, Working, EntriesInv
<1>4. PublishedKeys' = PublishedKeys \cup {k} /\ k \notin PublishedKeys
  BY <1>2, <1>3, CacheConstants DEF PublishedKeys, TypeOK
<1>5. ASSUME NEW j \in PublishedKeys' PROVE \E i \in 1..Len(lru') : lru'[i] = j
  <2>1. /\ Len(lru') = Len(lru) + 1 /\ lru'[Len(lru) + 1] = k /\ Len(lru) \in Nat
        /\ \A i \in 1..Len(lru) : lru'[i] = lru[i]
    BY <1>2, <1>3
  <2>2. Len(lru) + 1 \in 1..Len(lru') /\ \A i \in 1..Len(lru) : i \in 1..Len(lru')
    BY <2>1
  <2> QED BY <1>4, <2>1, <2>2 DEF AccountInv
<1> DEFINE f == CostOf
           g == CostOf'
<1>6. IsFiniteSet(PublishedKeys)
  BY <1>3, QueueIsPublished DEF IndInv
<1>7. \A j \in PublishedKeys : f[j] = ecost[entries[j]] /\ f[j] \in Nat
  BY <1>3, CostOfType
<1>8. \A j \in PublishedKeys : g[j] = f[j]
  BY <1>2, <1>4, <1>7 DEF CostOf, TypeOK, PublishedKeys
<1>9. g[k] = ecost[s] /\ g[k] \in Nat
  BY <1>2, <1>3, <1>4 DEF CostOf, TypeOK
<1> HIDE DEF f, g
<1>10. SumFunctionOnSet(g, PublishedKeys \cup {k}) = g[k] + SumFunctionOnSet(g, PublishedKeys)
  BY <1>4, <1>6, <1>7, <1>8, <1>9, SumOverAdd
<1>11. SumFunctionOnSet(g, PublishedKeys) = SumFunctionOnSet(f, PublishedKeys)
  BY <1>6, <1>8, SumOverEqual
<1>12. cost = SumFunctionOnSet(f, PublishedKeys) /\ cost \in Nat
  BY <1>3 DEF AccountInv, f, TypeOK
<1>13. cost' = SumFunctionOnSet(g, PublishedKeys \cup {k})
  BY <1>2, <1>9, <1>10, <1>11, <1>12
<1> QED BY <1>4, <1>5, <1>13 DEF AccountInv, g

(* Every step keeps the account. *)
LEMMA AccountStep ==
  ASSUME IndInv, AccountInv, NEW t \in Thread, Step(t) \/ Call(t)
  PROVE  AccountInv'
<1>t. TypeOK /\ LruInv
  BY DEF IndInv
<1>1. CASE UNCHANGED <<entries, lru, cost, ecost>>
  BY <1>1, AccountUnchanged
<1>2. ASSUME NEW c \in Costs, Allocate(t, c) PROVE AccountInv'
  <2>1. /\ UNCHANGED <<entries, lru, cost>> /\ ecost' = [ecost EXCEPT ![NewSlot] = c]
        /\ NewSlot \in FreeSlots
    BY <1>2, NewSlotIsFree DEF Allocate, stateVars
  <2>2. \A k \in PublishedKeys : entries[k] # NewSlot /\ entries[k] \in Slot
    BY <1>t, <2>1 DEF PublishedKeys, FreeSlots, Published, TypeOK
  <2> QED BY <1>t, <2>1, <2>2, AccountUnchanged DEF TypeOK
<1>3. CASE ConfirmAcquire(t)
  <2>1. key[t] \in Key /\ TouchMru(key[t]) /\ UNCHANGED <<entries, cost, ecost>>
    BY <1>3 DEF ConfirmAcquire, StillPublished, IndInv, TypeOK, EntryInv, slotVars
  <2> QED BY <1>t, <2>1, TouchKeepsAccount
<1>4. ASSUME NEW k \in Key, NEW m \in Mode, TryAcquire(t, k, m) PROVE AccountInv'
  BY <1>4, <1>t, TouchKeepsAccount DEF TryAcquire, slotVars
<1>5. CASE ConfirmRemove(t)
  <2>1. /\ key[t] \in Key /\ slot[t] \in Slot /\ entries[key[t]] = slot[t]
        /\ Unpublish(key[t], slot[t]) /\ UNCHANGED ecost
    BY <1>5 DEF ConfirmRemove, StillPublished, IndInv, TypeOK, EntryInv, LocalInv, slotVars
  <2> QED BY <1>t, <2>1, UnpublishKeepsAccount
<1>6. CASE GcTake(t)
  <2>1. /\ lru[idx[t]] \in Key /\ GcSlot(t) \in Slot /\ entries[lru[idx[t]]] = GcSlot(t)
        /\ Unpublish(lru[idx[t]], GcSlot(t)) /\ UNCHANGED ecost
    BY <1>6, CacheConstants DEF GcTake, GcMore, GcSlot, IndInv, LocalInv, LruInv, TypeOK,
                                slotVars
  <2> QED BY <1>t, <2>1, UnpublishKeepsAccount
<1>7. CASE Publish(t)
  BY <1>7, PublishKeepsAccount
<1>8. CASE \/ LookupHit(t) \/ LookupPending(t) \/ LookupOver(t) \/ LookupMiss(t)
           \/ RemoveMissing(t) \/ EntryAcquire(t) \/ TakeValue(t) \/ Cleanup(t)
           \/ FinishPending(t) \/ AllocateFails(t) \/ CostOverflow(t) \/ Release(t)
  BY <1>1, <1>8
     DEF stateVars, slotVars, LookupHit, LookupPending, LookupOver, LookupMiss, RemoveMissing,
         EntryAcquire, TakeValue, Cleanup, FinishPending, AllocateFails, CostOverflow, Release
<1>9. CASE \/ GcLock(t) \/ GcSkip(t) \/ GcUnlock(t) \/ GcFinishPending(t) \/ GcReturn(t)
           \/ \E p \in BOOLEAN : GcCleanup(t, p)
           \/ \E k \in Key, m \in Mode : StartAcquire(t, k, m)
           \/ \E k \in Key : StartRemove(t, k)
           \/ \E q \in Quotas : SetCostQuota(t, q)
           \/ \E r \in Ratios : StartGc(t, r)
           \/ Demote(t)
  BY <1>1, <1>9
     DEF stateVars, slotVars, GcLock, GcSkip, GcUnlock, GcCleanup, GcFinishPending, GcReturn,
         StartAcquire, StartRemove, SetCostQuota, StartGc, Demote
<1> QED BY <1>2, <1>3, <1>4, <1>5, <1>6, <1>7, <1>8, <1>9 DEF Step, Call

(* Each live value has one claim: the key map's, a thread's or a bag's.      *)
LEMMA HandsAreApart ==
  ASSUME IndInv, NEW t \in Thread, NEW u \in Thread
  PROVE  /\ /\ pc[t] \in {"publish", "take", "cleanup"} /\ u # t
             /\ pc[u] \in {"publish", "take", "cleanup"}
            => slot[u] # slot[t]
         /\ pc[t] \in {"publish", "take", "cleanup"} =>
              \A i \in 1..Len(bag[u]) : bag[u][i] # slot[t]
         /\ \A i \in 1..Len(bag[t]), j \in 1..Len(bag[u]) :
              bag[t][i] = bag[u][j] => t = u /\ i = j
BY DEF IndInv, OffMapInv, WorkInv, BagInv, Working

(* Every step keeps what threads have in their hands alive. *)
LEMMA HandStep ==
  ASSUME IndInv, HandInv, NEW t \in Thread, Step(t) \/ Call(t)
  PROVE  HandInv'
<1>o. Others(t)
  BY OthersUnchanged DEF IndInv
<1> DEFINE Mine(u) ==
      /\ pc[u] \in {"publish", "take", "cleanup"} => slot[u] \in live
      /\ \A i \in 1..Len(bag[u]) : bag[u][i] \in live \/ (pc[u] = "collectFinish" /\ i = 1)
           MineNow(u) ==
      /\ pc'[u] \in {"publish", "take", "cleanup"} => slot'[u] \in live'
      /\ \A i \in 1..Len(bag'[u]) : bag'[u][i] \in live' \/ (pc'[u] = "collectFinish" /\ i = 1)
<1> SUFFICES \A u \in Thread : MineNow(u)
  BY DEF HandInv
<1>1. \A u \in Thread : Mine(u)
  BY DEF HandInv
<1>2. live \subseteq live' => \A u \in Thread : u # t => MineNow(u)
  BY <1>1, <1>o DEF Others
<1>3. CASE QuietStep(t)
  <2>1. /\ UNCHANGED <<live, bag>>
        /\ pc'[t] \in {"publish", "take", "cleanup"} =>
             pc[t] \in {"publish", "take", "cleanup"} /\ slot'[t] = slot[t]
        /\ pc[t] # "collectFinish"
    BY <1>3, QuietSteps, QuietIsSteady DEF Quiet
  <2> QED BY <1>1, <1>2, <2>1
<1>4. CASE LookupMiss(t)
  BY <1>1, <1>2, <1>4 DEF LookupMiss, Goto, IndInv, TypeOK, gcVars
<1>5. CASE ConfirmRemove(t)
  <2>1. pc'[t] = "take" /\ UNCHANGED <<live, bag, slot>> /\ slot[t] \in live
        /\ pc[t] = "confirm"
    BY <1>5, CacheConstants DEF ConfirmRemove, Goto, IndInv, TypeOK, EntryInv, LocalInv,
       EntriesInv, StillPublished, gcVars
  <2> QED BY <1>1, <1>2, <2>1
<1>6. CASE Cleanup(t)
  <2>1. /\ pc[t] = "cleanup" /\ pc'[t] = "finish" /\ live' = live \ {slot[t]}
        /\ UNCHANGED <<bag, slot>>
    BY <1>6 DEF Cleanup, Goto, IndInv, TypeOK, gcVars
  <2>2. \A u \in Thread : pc'[u] \in {"publish", "take", "cleanup"} =>
          pc[u] \in {"publish", "take", "cleanup"} /\ u # t
    BY <2>1, <1>o DEF Others
  <2>3. \A u \in Thread : pc[u] = "collectFinish" => pc'[u] = "collectFinish"
    BY <2>1, <1>o DEF Others
  <2> QED BY <1>1, <2>1, <2>2, <2>3, HandsAreApart
<1>7. CASE FinishPending(t)
  BY <1>1, <1>2, <1>7, ReturnFacts DEF FinishPending, IndInv
<1>8. ASSUME NEW c \in Costs, Allocate(t, c) PROVE \A u \in Thread : MineNow(u)
  <2>1. /\ pc[t] = "allocate" /\ slot'[t] = NewSlot /\ live' = live \cup {NewSlot}
        /\ UNCHANGED bag
    BY <1>8 DEF Allocate, IndInv, TypeOK, gcVars
  <2> QED BY <1>1, <1>2, <2>1
<1>9. CASE Publish(t)
  BY <1>1, <1>2, <1>9 DEF Publish, Goto, IndInv, TypeOK, gcVars
<1>10. CASE GcTake(t)
  <2>1. PICK q \in Key, s \in Slot : q = lru[idx[t]] /\ s = entries[q]
    BY <1>10, CacheConstants DEF GcTake, GcMore, GcSlot, IndInv, LocalInv, LruInv, TypeOK
  <2>2. /\ bag' = [bag EXCEPT ![t] = Append(@, s)] /\ s \in live
        /\ UNCHANGED <<pc, live, slot>> /\ pc[t] = "scan"
    BY <1>10, <2>1, CacheConstants DEF GcTake, GcSlot, IndInv, EntriesInv
  <2>3. bag[t] \in Seq(Slot) /\ bag'[t] = Append(bag[t], s)
    BY <2>2 DEF IndInv, TypeOK
  <2>4. \A i \in 1..Len(bag'[t]) : bag'[t][i] = s \/ (i \in 1..Len(bag[t]) /\ bag'[t][i] = bag[t][i])
    BY <2>3
  <2> QED BY <1>1, <1>2, <2>2, <2>4
<1>11. ASSUME NEW p \in BOOLEAN, GcCleanup(t, p) PROVE \A u \in Thread : MineNow(u)
  <2>1. /\ pc[t] = "collect" /\ pc'[t] = "collectFinish" /\ bag[t] # <<>>
        /\ live' = live \ {bag[t][1]} /\ UNCHANGED <<bag, slot>> /\ bag[t] \in Seq(Slot)
    BY <1>11 DEF GcCleanup, Goto, IndInv, TypeOK, gcVars
  <2>2. 1 \in 1..Len(bag[t])
    BY <2>1
  <2>3. \A u \in Thread : pc'[u] \in {"publish", "take", "cleanup"} =>
          pc[u] \in {"publish", "take", "cleanup"} /\ u # t
    BY <2>1, <1>o DEF Others
  <2>4. \A u \in Thread : pc[u] = "collectFinish" => pc'[u] = "collectFinish"
    BY <2>1, <1>o DEF Others
  <2> QED BY <1>1, <2>1, <2>2, <2>3, <2>4, HandsAreApart
<1>12. CASE GcFinishPending(t)
  <2>1. /\ pc[t] = "collectFinish" /\ pc'[t] = "collect" /\ bag[t] # <<>>
        /\ bag[t] \in Seq(Slot) /\ bag'[t] = Tail(bag[t]) /\ UNCHANGED <<live, slot>>
    BY <1>12 DEF GcFinishPending, Goto, IndInv, PassInv, TypeOK
  <2>2. \A i \in 1..Len(bag'[t]) : i + 1 \in 1..Len(bag[t]) /\ i + 1 # 1
                                    /\ bag'[t][i] = bag[t][i + 1]
    BY <2>1
  <2>3. MineNow(t)
    BY <1>1, <2>1, <2>2
  <2> QED BY <1>2, <2>1, <2>3
<1> QED
  BY <1>3, <1>4, <1>5, <1>6, <1>7, <1>8, <1>9, <1>10, <1>11, <1>12
     DEF Step, Call, QuietStep

(* The records agree at the start, and after every step. *)
LEMMA StepKeepsBookInv == IndInv /\ BookInv /\ [Next]_vars => BookInv'
<1> SUFFICES ASSUME IndInv, BookInv, [Next]_vars PROVE BookInv'
  OBVIOUS
<1>1. CASE UNCHANGED vars
  <2>1. PendingInv' /\ HandInv'
    BY <1>1 DEF vars, BookInv, PendingInv, HandInv
  <2>2. AccountInv'
    BY <1>1, AccountUnchanged DEF vars, BookInv
  <2> QED BY <2>1, <2>2 DEF BookInv
<1>2. ASSUME NEW t \in Thread, Step(t) \/ Call(t) PROVE BookInv'
  BY <1>2, PendingStep, AccountStep, HandStep DEF BookInv
<1> QED BY <1>1, <1>2 DEF Next

LEMMA InitEstablishesBookInv == Init => BookInv
<1> SUFFICES ASSUME Init PROVE BookInv
  OBVIOUS
<1>1. PublishedKeys = {}
  BY DEF Init, PublishedKeys
<1>2. AccountInv
  BY <1>1, SumOverEmpty DEF Init, AccountInv
<1> QED BY <1>2 DEF Init, BookInv, PendingInv, HandInv

(* Every parked key has exactly one owner. *)
LEMMA BookInvOwns == IndInv /\ BookInv => PendingOwned
<1> SUFFICES ASSUME IndInv, BookInv, NEW k \in Key
             PROVE  Cardinality(Owners(k)) = IF k \in pending THEN 1 ELSE 0
  BY DEF PendingOwned
<1>1. \A t \in Thread :
        t \in Owners(k) <=> \/ pc[t] \in Working /\ key[t] = k
                           \/ \E i \in 1..Len(bag[t]) : ekey[bag[t][i]] = k
  <2>1. \A t \in Thread : bag[t] \in Seq(Slot)
    BY DEF IndInv, TypeOK
  <2>2. \A t \in Thread : (\E s \in Range(bag[t]) : ekey[s] = k)
                            <=> \E i \in 1..Len(bag[t]) : ekey[bag[t][i]] = k
    BY <2>1 DEF Range
  <2> QED BY <2>2 DEF Owners, Working
<1>2. \A t, u \in Owners(k) : t = u
  <2>1. \A t, u \in Thread : t \in Owners(k) /\ u \in Owners(k) => t = u
    BY <1>1 DEF IndInv, WorkInv, BagInv
  <2> QED BY <2>1 DEF Owners
<1>3. k \in pending <=> Owners(k) # {}
  <2>1. k \in pending => \E t \in Thread : t \in Owners(k)
    BY <1>1 DEF BookInv, PendingInv
  <2>2. \A t \in Thread : t \in Owners(k) => k \in pending
    BY <1>1 DEF IndInv, WorkInv, BagInv
  <2>3. Owners(k) \subseteq Thread
    BY DEF Owners
  <2> QED BY <2>1, <2>2, <2>3
<1>4. CASE k \in pending
  <2>1. PICK t : Owners(k) = {t}
    BY <1>2, <1>3, <1>4
  <2> QED BY <2>1, <1>4, FS_Singleton
<1>5. CASE k \notin pending
  BY <1>3, <1>5, FS_EmptySet
<1> QED BY <1>4, <1>5

(* Every live value is published or in some thread's hands, and no other.    *)
LEMMA BookInvLeaksNothing == IndInv /\ BookInv => NoLeak
<1> SUFFICES ASSUME IndInv, BookInv PROVE NoLeak
  OBVIOUS
<1>1. ASSUME NEW t \in Thread, NEW s
      PROVE  s \in InHand(t) <=>
               \/ pc[t] \in {"publish", "take", "cleanup"} /\ slot[t] = s
               \/ \E i \in 1..Len(bag[t]) :
                    bag[t][i] = s /\ ~ (pc[t] = "collectFinish" /\ i = 1)
  <2>1. bag[t] \in Seq(Slot)
    BY DEF IndInv, TypeOK
  <2>2. CASE pc[t] = "collectFinish"
    <3>1. bag[t] # <<>>
      BY <2>2 DEF IndInv, PassInv
    <3>2. /\ Tail(bag[t]) \in Seq(Slot) /\ Len(Tail(bag[t])) = Len(bag[t]) - 1
          /\ \A i \in 1..Len(Tail(bag[t])) : Tail(bag[t])[i] = bag[t][i + 1]
      BY <2>1, <3>1
    <3>3. s \in Range(Tail(bag[t])) <=> \E i \in 1..Len(Tail(bag[t])) : Tail(bag[t])[i] = s
      <4>1. PICK q \in Seq(Slot) : q = Tail(bag[t])
        BY <3>2
      <4>2. s \in Range(q) <=> \E i \in 1..Len(q) : q[i] = s
        BY DEF Range
      <4> QED BY <4>1, <4>2
    <3>4. s \in Range(Tail(bag[t])) <=> \E i \in 1..Len(bag[t]) : bag[t][i] = s /\ i # 1
      <4>1. ASSUME NEW i \in 1..Len(Tail(bag[t])), Tail(bag[t])[i] = s
            PROVE  \E j \in 1..Len(bag[t]) : bag[t][j] = s /\ j # 1
        <5>1. i + 1 \in 1..Len(bag[t]) /\ i + 1 # 1 /\ bag[t][i + 1] = s
          BY <2>1, <3>2, <4>1
        <5> QED BY <5>1
      <4>2. ASSUME NEW j \in 1..Len(bag[t]), bag[t][j] = s, j # 1
            PROVE  \E i \in 1..Len(Tail(bag[t])) : Tail(bag[t])[i] = s
        <5>1. j - 1 \in 1..Len(Tail(bag[t])) /\ Tail(bag[t])[j - 1] = s
          BY <2>1, <3>2, <4>2
        <5> QED BY <5>1
      <4> QED BY <3>3, <4>1, <4>2
    <3> QED BY <2>2, <3>4 DEF InHand
  <2>3. CASE pc[t] # "collectFinish"
    <3>1. s \in Range(bag[t]) <=> \E i \in 1..Len(bag[t]) : bag[t][i] = s
      BY <2>1 DEF Range
    <3> QED BY <2>3, <3>1 DEF InHand
  <2> QED BY <2>2, <2>3
<1>2. ASSUME NEW s \in live
      PROVE  s \in Published \/ \E t \in Thread : s \in InHand(t)
  <2>1. ekey[s] \in Key /\ s # NoSlot
    BY CacheConstants DEF IndInv, TypeOK
  <2>2. CASE entries[ekey[s]] = s
    BY <2>1, <2>2 DEF Published
  <2>3. ASSUME NEW t \in Thread, NEW i \in 1..Len(bag[t]), bag[t][i] = s
        PROVE  s \in InHand(t)
    <3>1. ~ (pc[t] = "collectFinish" /\ i = 1)
      BY <2>3 DEF IndInv, PassInv
    <3> QED BY <1>1, <2>3, <3>1
  <2> QED BY <1>1, <2>2, <2>3 DEF IndInv, LiveInv
<1>3. \A s \in Published : s \in live
  BY DEF Published, IndInv, EntriesInv
<1>4. \A t \in Thread : \A s \in InHand(t) : s \in live
  BY <1>1 DEF BookInv, HandInv
<1> QED BY <1>2, <1>3, <1>4 DEF NoLeak

(* Who finishes a parked key, what the entries cost together and which       *)
(* values are alive agree with the entries at every step: no parked key is   *)
(* stuck without a thread to finish it or finished twice, the account never  *)
(* drifts, and no allocated value is lost.                                   *)
THEOREM BookkeepingIsExact == Spec => []Bookkeeping
<1>1. Init => BookInv
  BY InitEstablishesBookInv
<1>2. IndInv /\ BookInv /\ [Next]_vars => BookInv'
  BY StepKeepsBookInv
<1>3. IndInv /\ BookInv => Accounting
  BY QueueIsPublished DEF IndInv, BookInv, AccountInv, Accounting, PublishedKeys, CostOf
<1>4. IndInv /\ BookInv => Bookkeeping
  BY <1>3, BookInvOwns, BookInvLeaksNothing DEF Bookkeeping
<1> QED BY <1>1, <1>2, <1>4, IndInvHolds, PTL DEF Spec

=============================================================================
