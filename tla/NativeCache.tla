----------------------------- MODULE NativeCache -----------------------------
(***************************************************************************)
(* darktable's concurrent LRU cache (src/src/common/cache.c) and its use   *)
(* by the thumbnail cache (dt_mipmap_cache_get of mipmap_cache.c, the      *)
(* blocking get, which generates a buffer and then demotes its lock).      *)
(*                                                                         *)
(* Lookups, allocation, removal and collection run under the cache's       *)
(* mutex; the read/write lock of an entry is only ever tried under it, and *)
(* a caller that finds it taken starts over (here: its action is not       *)
(* enabled).  A release does not take the mutex, and so falls between two  *)
(* steps of a collection.  Both users of the cache set an allocate         *)
(* callback, whose misses always return a write lock.                      *)
(*                                                                         *)
(* A Slot is the memory of an entry, used again once it was freed.         *)
(***************************************************************************)
EXTENDS Naturals, Sequences, FiniteSets, SequencesExt

CONSTANTS Thread, Key, Slot, None,
          Costs,       \* costs the allocate callback may set
          cost_quota

ASSUME CacheConstants ==
  /\ IsFiniteSet(Slot) /\ IsFiniteSet(Key) /\ Cardinality(Slot) >= Cardinality(Key)
  /\ None \notin Slot \cup Thread /\ Key # {}
  /\ Costs \subseteq Nat /\ cost_quota \in Nat

VARIABLES
  hashtable, lru, cost,          \* dt_cache_t
  lock,                          \* who holds its mutex over several steps
  entryKey, entryCost,           \* dt_cache_entry_t ...
  readers, writer,               \* ... its read/write lock
  demoting,                      \* ... _lock_demoting
  generate,                      \* ... DT_MIPMAP_BUFFER_DSC_FLAG_GENERATE
  user,                          \* whose cache this is: "image" or "mipmap"
  pc, key, mode, slot, again, rest           \* each thread's call

cacheVars == <<hashtable, lru, cost>>
entryVars == <<entryKey, entryCost, readers, writer, demoting, generate>>
callVars  == <<pc, key, mode, slot, again, rest>>
vars == <<cacheVars, lock, entryVars, user, callVars>>

Modes == {"Read", "Write"}
ASSUME NoneIsNoLease == None \notin [key : Key, mode : Modes]

AnyKey == CHOOSE k \in Key : TRUE
Published == {hashtable[k] : k \in Key} \ {None}
NewSlot == CHOOSE s \in Slot : s \notin Published

Init ==
  /\ hashtable = [k \in Key |-> None] /\ lru = <<>> /\ cost = 0
  /\ lock = None
  /\ entryKey = [s \in Slot |-> AnyKey] /\ entryCost = [s \in Slot |-> 0]
  /\ readers = [s \in Slot |-> {}] /\ writer = [s \in Slot |-> None]
  /\ demoting = [s \in Slot |-> FALSE] /\ generate = [s \in Slot |-> FALSE]
  /\ user \in {"image", "mipmap"}
  /\ pc = [t \in Thread |-> "idle"]
  /\ key = [t \in Thread |-> AnyKey] /\ mode = [t \in Thread |-> "Read"]
  /\ slot = [t \in Thread |-> None] /\ again = [t \in Thread |-> FALSE]
  /\ rest = [t \in Thread |-> <<>>]

-----------------------------------------------------------------------------
(* Helpers. *)

Goto(t, p) == pc' = [pc EXCEPT ![t] = p]

(* trywrlock succeeds *)
Unlocked(s) == readers[s] = {} /\ writer[s] = None
(* trywrlock, or tryrdlock, succeeds *)
Lockable(s, m) == IF m = "Write" THEN Unlocked(s) ELSE writer[s] = None

Lock(t, s, m) ==
  IF m = "Write"
    THEN writer' = [writer EXCEPT ![s] = t] /\ UNCHANGED readers
    ELSE readers' = [readers EXCEPT ![s] = @ \cup {t}] /\ UNCHANGED writer

Unlock(t, s) ==
  /\ readers' = [readers EXCEPT ![s] = @ \ {t}]
  /\ writer' = [writer EXCEPT ![s] = IF @ = t THEN None ELSE @]

BubbleUp_StillLinked(s) == lru' = Append(lru, s)   \* mutant
BubbleUp(s) == lru' = Append(RemoveFirst(lru, s), s)

OverFillRatio == cost * 5 > cost_quota * 4
BelowFillRatio == cost * 5 < cost_quota * 4

(* A removal, or a collection, may delete an entry nobody has locked or is *)
(* about to lock again.                                                    *)
Deletable_ReadersIgnored(s) == writer[s] = None /\ ~demoting[s]   \* mutant
Deletable(s) == Unlocked(s) /\ ~demoting[s]

Delete(s) ==
  /\ hashtable' = [hashtable EXCEPT ![entryKey[s]] = None]
  /\ lru' = RemoveFirst(lru, s)
  /\ cost' = cost - entryCost[s]

Insert(t, s, c) ==
  /\ hashtable' = [hashtable EXCEPT ![key[t]] = s]
  /\ lru' = Append(lru, s) /\ cost' = cost + c

(* A thread that has demoted its lease clears the flag of the entry it got. *)
FlagAfter_Kept(t, s) == demoting   \* mutant
FlagAfter(t, s) == [demoting EXCEPT ![s] = @ /\ ~again[t]]

(* dt_cache_get returns: to the thumbnail cache, which looks at what it got *)
(* the first time, or to the image cache.                                  *)
Arrive(t, s) ==
  /\ slot' = [slot EXCEPT ![t] = s]
  /\ again' = [again EXCEPT ![t] = FALSE]
  /\ Goto(t, IF user = "mipmap" /\ ~again[t] THEN "got" ELSE "held")

Return(t) ==
  /\ pc' = [pc EXCEPT ![t] = "idle"]
  /\ key' = [key EXCEPT ![t] = AnyKey] /\ mode' = [mode EXCEPT ![t] = "Read"]
  /\ slot' = [slot EXCEPT ![t] = None]
  /\ UNCHANGED <<user, again, rest>>

-----------------------------------------------------------------------------
(* dt_cache_get, called by the image cache or by the thumbnail cache. *)

StartGet(t, k, m) ==
  /\ pc[t] = "idle"
  /\ Goto(t, "get")
  /\ key' = [key EXCEPT ![t] = k] /\ mode' = [mode EXCEPT ![t] = m]
  /\ UNCHANGED <<cacheVars, lock, entryVars, user, slot, again, rest>>

GetHit(t) ==
  LET s == hashtable[key[t]] IN
  /\ pc[t] = "get" /\ lock = None /\ s # None
  /\ Lockable(s, mode[t])
  /\ Lock(t, s, mode[t])
  /\ BubbleUp(s)
  /\ demoting' = FlagAfter(t, s)
  /\ Arrive(t, s)
  /\ UNCHANGED <<hashtable, cost, lock, entryKey, entryCost, generate, user, key,
                 mode, rest>>

(* A miss collects first when the cache is nearly full, still under the mutex. *)
GetOver(t) ==
  /\ pc[t] = "get" /\ lock = None /\ hashtable[key[t]] = None
  /\ OverFillRatio
  /\ lock' = t
  /\ rest' = [rest EXCEPT ![t] = lru]
  /\ Goto(t, "gc")
  /\ UNCHANGED <<cacheVars, entryVars, user, key, mode, slot, again>>

GcStep(t) ==
  LET s == Head(rest[t]) IN
  /\ pc[t] = "gc" /\ rest[t] # <<>> /\ ~BelowFillRatio
  /\ IF Deletable(s) THEN Delete(s) ELSE UNCHANGED cacheVars
  /\ rest' = [rest EXCEPT ![t] = Tail(@)]
  /\ UNCHANGED <<lock, entryVars, pc, user, key, mode, slot, again>>

GcEnd(t) ==
  /\ pc[t] = "gc" /\ (rest[t] = <<>> \/ BelowFillRatio)
  /\ rest' = [rest EXCEPT ![t] = <<>>]
  /\ Goto(t, "allocate")
  /\ UNCHANGED <<cacheVars, lock, entryVars, user, key, mode, slot, again>>

(* The allocate callback reads the image record, or the thumbnail, from    *)
(* disk, or leaves a thumbnail to be generated; the new entry is write     *)
(* locked whatever the caller asked for.                                   *)
Allocate(t, c, g) ==
  LET s == NewSlot IN
  /\ \/ pc[t] = "get" /\ lock = None /\ hashtable[key[t]] = None /\ ~OverFillRatio
     \/ pc[t] = "allocate"
  /\ entryKey' = [entryKey EXCEPT ![s] = key[t]]
  /\ entryCost' = [entryCost EXCEPT ![s] = c]
  /\ g => user = "mipmap"
  /\ generate' = [generate EXCEPT ![s] = g]
  /\ demoting' = [demoting EXCEPT ![s] = FALSE]
  /\ Insert(t, s, c)
  /\ Lock(t, s, "Write")
  /\ lock' = None
  /\ Arrive(t, s)
  /\ UNCHANGED <<user, key, mode, rest>>

(* dt_cache_testget: NULL (no step here) when the key is missing or locked. *)
TestGet(t, k, m) ==
  LET s == hashtable[k] IN
  /\ pc[t] = "idle" /\ lock = None /\ s # None
  /\ Lockable(s, m)
  /\ Lock(t, s, m)
  /\ BubbleUp(s)
  /\ Goto(t, "held")
  /\ slot' = [slot EXCEPT ![t] = s]
  /\ key' = [key EXCEPT ![t] = k] /\ mode' = [mode EXCEPT ![t] = m]
  /\ UNCHANGED <<hashtable, cost, lock, entryKey, entryCost, demoting, generate,
                 user, again, rest>>

Release(t) ==
  /\ pc[t] = "held"
  /\ Unlock(t, slot[t])
  /\ Return(t)
  /\ UNCHANGED <<cacheVars, lock, entryKey, entryCost, demoting, generate>>

-----------------------------------------------------------------------------
(* dt_mipmap_cache_get, DT_MIPMAP_BLOCKING. *)

Delivered(t) == IF mode[t] = "Read" THEN "demote" ELSE "held"

Got(t) ==
  /\ pc[t] = "got"
  /\ Goto(t, IF generate[slot[t]] THEN "generate" ELSE Delivered(t))
  /\ UNCHANGED <<cacheVars, lock, entryVars, user, key, mode, slot, again, rest>>

Generate(t) ==
  /\ pc[t] = "generate"
  /\ generate' = [generate EXCEPT ![slot[t]] = FALSE]
  /\ Goto(t, Delivered(t))
  /\ UNCHANGED <<cacheVars, lock, entryKey, entryCost, readers, writer, demoting,
                 user, key, mode, slot, again, rest>>

(* "drop the write lock and acquire a read lock immediately after": the    *)
(* flag is set, the lock released, and dt_cache_get called again.          *)
Demote(t) ==
  /\ pc[t] = "demote"
  /\ demoting' = [demoting EXCEPT ![slot[t]] = TRUE]
  /\ Unlock(t, slot[t])
  /\ slot' = [slot EXCEPT ![t] = None]
  /\ again' = [again EXCEPT ![t] = TRUE]
  /\ Goto(t, "get")
  /\ UNCHANGED <<cacheVars, lock, entryKey, entryCost, generate, user, key, mode,
                 rest>>

-----------------------------------------------------------------------------
(* dt_cache_remove: by the image cache, or by an eviction of thumbnails. *)

StartRemove(t, k) ==
  /\ pc[t] = "idle"
  /\ Goto(t, "remove") /\ key' = [key EXCEPT ![t] = k]
  /\ UNCHANGED <<cacheVars, lock, entryVars, user, mode, slot, again, rest>>

RemoveMissing(t) ==
  /\ pc[t] = "remove" /\ lock = None /\ hashtable[key[t]] = None
  /\ Return(t)
  /\ UNCHANGED <<cacheVars, lock, entryVars>>

RemoveEntry(t) ==
  LET s == hashtable[key[t]] IN
  /\ pc[t] = "remove" /\ lock = None /\ s # None
  /\ Deletable(s)
  /\ Delete(s)
  /\ Return(t)
  /\ UNCHANGED <<lock, entryVars>>

-----------------------------------------------------------------------------
Step(t) ==
  \/ GetHit(t) \/ GetOver(t) \/ GcStep(t) \/ GcEnd(t)
  \/ \E c \in Costs, g \in BOOLEAN : Allocate(t, c, g)
  \/ Got(t) \/ Generate(t) \/ Demote(t) \/ Release(t)
  \/ RemoveMissing(t) \/ RemoveEntry(t)

Call(t) ==
  \/ \E k \in Key, m \in Modes : StartGet(t, k, m) \/ TestGet(t, k, m)
  \/ \E k \in Key : StartRemove(t, k)

Next == \E t \in Thread : Step(t) \/ Call(t)

Spec == Init /\ [][Next]_vars

(* Every thread runs when it can: callbacks and the generation of a buffer *)
(* end, and callers release what they hold.                                *)
Fairness == \A t \in Thread : WF_vars(Step(t))
FairSpec == Spec /\ Fairness

-----------------------------------------------------------------------------
TypeOK ==
  /\ hashtable \in [Key -> Slot \cup {None}] /\ lru \in Seq(Slot) /\ cost \in Nat
  /\ lock \in Thread \cup {None}
  /\ entryKey \in [Slot -> Key] /\ entryCost \in [Slot -> Nat]
  /\ readers \in [Slot -> SUBSET Thread] /\ writer \in [Slot -> Thread \cup {None}]
  /\ demoting \in [Slot -> BOOLEAN] /\ generate \in [Slot -> BOOLEAN]
  /\ pc \in [Thread -> {"idle", "get", "gc", "allocate", "got", "generate", "demote",
                        "held", "remove"}]
  /\ user \in {"image", "mipmap"}
  /\ key \in [Thread -> Key] /\ mode \in [Thread -> Modes]
  /\ slot \in [Thread -> Slot \cup {None}] /\ again \in [Thread -> BOOLEAN]
  /\ rest \in [Thread -> Seq(Slot)]

(* The cost is the sum of the costs of the entries in the table, and the   *)
(* LRU list holds each of them once: what is evicted next, and when        *)
(* collection starts, rest on both.                                        *)
Accounting ==
  /\ cost = SumFunctionOnSet(entryCost, Published)
  /\ Range(lru) = Published /\ Len(lru) = Cardinality(Published)
  /\ \A k \in Key : hashtable[k] # None => entryKey[hashtable[k]] = k

(* _lock_demoting is never left behind: the flag of an entry is set only   *)
(* while some thread is about to take its lock again.  dt_cache_remove     *)
(* would spin for ever on an entry whose flag stays set.                   *)
FlagHasOwner ==
  \A s \in Published : demoting[s] =>
    \E t \in Thread : pc[t] \in {"get", "gc", "allocate"} /\ again[t]
                      /\ key[t] = entryKey[s]

(* The table, the list, the cost and the flags agree at every step of the  *)
(* calls, between which the locks come and go.                             *)
WellFormed == TypeOK /\ Accounting /\ FlagHasOwner

(* The detailed cache keeps the promises of LeaseCache; demotion is a      *)
(* release followed by a second get, which may have to allocate.           *)
leased(t) == slot[t] # None
Leases == INSTANCE LeaseCache WITH
  Value <- Slot,
  value <- hashtable,
  lease <- [t \in Thread |->
              IF ~leased(t) THEN None
              ELSE [key |-> key[t],
                    mode |-> IF writer[slot[t]] = t THEN "Write" ELSE "Read"]]
ImplementsLeases == Leases!Spec

(* Once no more calls are made, every call in progress returns: nobody     *)
(* spins for ever on a lock or on a flag.                                  *)
NoMoreCalls == <>[][\E t \in Thread : Step(t)]_vars
Drains == NoMoreCalls => <>[](\A t \in Thread : pc[t] = "idle")

(* "we're write locked here, as requested by the alloc callback": whoever  *)
(* fills a buffer holds its write lock.                                    *)
GeneratesWriteLocked ==
  \A t \in Thread : pc[t] = "generate" => writer[slot[t]] = t

=============================================================================
