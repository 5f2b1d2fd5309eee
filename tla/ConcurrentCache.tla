--------------------------- MODULE ConcurrentCache ---------------------------
(***************************************************************************)
(* The concurrent MRU cache of crates/rusttable-image/src/common/cache.rs. *)
(*                                                                         *)
(* A cache-wide mutex (`state`) guards the key map, the set of pending     *)
(* keys, the MRU queue and the cost account; every published entry carries *)
(* a logical read/write lease of its own.  Allocation and cleanup          *)
(* callbacks run outside the mutex, with the key parked in `pending`.      *)
(*                                                                         *)
(* One step is one critical section of the state mutex or of one entry's   *)
(* lease mutex, or one callback.  Only garbage collection touches entries  *)
(* while it holds the state mutex, so only it keeps `lock` over several    *)
(* steps.  A Slot is an Arc<Entry>: it may be reused once nothing refers   *)
(* to it, which keeps the state finite without bounding the run.           *)
(***************************************************************************)
EXTENDS Naturals, Sequences, FiniteSets, SequencesExt

CONSTANTS Thread, Key, Slot, NoThread, NoSlot,
          Costs,          \* costs an allocation callback may select
          Quotas,         \* values given to set_cost_quota
          Ratios,         \* fill ratios given to gc, in percent
          MaxCost,        \* usize::MAX
          CallbackBacked  \* with_callbacks (TRUE) or new (FALSE)

ASSUME CacheConstants ==
  /\ IsFiniteSet(Thread) /\ NoThread \notin Thread /\ NoSlot \notin Slot
  /\ Costs \subseteq Nat /\ Quotas \subseteq Nat /\ Ratios \subseteq Nat
  /\ Key # {} /\ Quotas # {} /\ MaxCost \in Nat /\ CallbackBacked \in BOOLEAN

VARIABLES
  entries, pending, lru, cost, quota,   \* CacheState
  lock,                                 \* holder of the state mutex across steps
  ekey, ecost, readers, writer, removed, live,   \* Entry and its LeaseState
  pc, op, key, mode, slot, gced, asleep,         \* each thread's call
  idx, ratio, bag, failed                        \* its collection pass

stateVars == <<entries, pending, lru, cost, quota>>
leaseVars == <<readers, writer, removed>>
slotVars  == <<ekey, ecost>>
gcVars    == <<idx, ratio, bag>>
vars == <<entries, pending, lru, cost, quota, lock, ekey, ecost, readers, writer,
          removed, live, pc, op, key, mode, slot, gced, asleep, idx, ratio, bag,
          failed>>

Mode == {"Read", "Write"}
PC == {"idle", "lookup", "entry", "confirm", "allocate", "publish", "held",
       "take", "cleanup", "finish", "gcLock", "scan", "collect", "collectFinish"}

(* Whatever stands for "no entry" is not a lease either. *)
ASSUME NoSlotIsNoLease == NoSlot \notin [key : Key, mode : Mode]

AutomaticGcFillRatio == 80
AnyKey == CHOOSE k \in Key : TRUE

Published == {entries[k] : k \in Key} \ {NoSlot}
Referenced == {slot[t] : t \in Thread} \cup UNION {Range(bag[t]) : t \in Thread}
FreeSlots == {s \in Slot : s \notin Published /\ s \notin Referenced}
NewSlot == CHOOSE s \in FreeSlots : TRUE

Init ==
  /\ entries = [k \in Key |-> NoSlot] /\ pending = {} /\ lru = <<>>
  /\ cost = 0 /\ quota \in Quotas /\ lock = NoThread
  /\ ekey = [s \in Slot |-> AnyKey]
  /\ ecost = [s \in Slot |-> 0]
  /\ readers = [s \in Slot |-> 0]
  /\ writer = [s \in Slot |-> FALSE] /\ removed = [s \in Slot |-> FALSE]
  /\ live = {}
  /\ pc = [t \in Thread |-> "idle"] /\ op = [t \in Thread |-> "gc"]
  /\ key = [t \in Thread |-> AnyKey]
  /\ mode = [t \in Thread |-> "Read"] /\ slot = [t \in Thread |-> NoSlot]
  /\ gced = [t \in Thread |-> FALSE] /\ asleep = {}
  /\ idx = [t \in Thread |-> 0] /\ ratio = [t \in Thread |-> 0]
  /\ bag = [t \in Thread |-> <<>>] /\ failed = [t \in Thread |-> FALSE]

-----------------------------------------------------------------------------
(* Entry: the logical lease. *)

Available_ReadersIgnored(s, m) == ~writer[s]   \* mutant
Available(s, m) ==
  IF m = "Read" THEN ~writer[s] ELSE readers[s] = 0 /\ ~writer[s]

(* LeaseState after a thread takes slot s in mode m. *)
Hold(s, m) ==
  IF m = "Read" THEN /\ readers' = [readers EXCEPT ![s] = @ + 1]
                     /\ UNCHANGED writer
                ELSE /\ writer' = [writer EXCEPT ![s] = TRUE]
                     /\ UNCHANGED readers

(* Entry::release: give the lease up and wake every thread waiting for it. *)
EntryWaiters(s) == {t \in asleep : pc[t] = "entry" /\ slot[t] = s}
ReleaseLease(s, m) ==
  /\ IF m = "Read" THEN /\ readers' = [readers EXCEPT ![s] = IF @ > 0 THEN @ - 1 ELSE 0]
                        /\ UNCHANGED writer
                   ELSE /\ writer' = [writer EXCEPT ![s] = FALSE]
                        /\ UNCHANGED readers
  /\ asleep' = asleep \ EntryWaiters(s)

(* wait()/notify_all() on the cache-wide `changed` condition. *)
ChangedWaiters == {t \in asleep : pc[t] = "lookup"}
NotifyChanged_Forgotten == asleep' = asleep   \* mutant
NotifyChanged == asleep' = asleep \ ChangedWaiters

OverAutomaticGcThreshold == cost * 5 > quota * 4
StrictlyBelowRatio(r) == cost * 100 < quota * r

RemoveLruKey(s, k) ==
  IF k \in Range(s) THEN RemoveAt(s, CHOOSE i \in DOMAIN s : s[i] = k) ELSE s
TouchMru(k) == lru' = Append(RemoveLruKey(lru, k), k)

CheckedSub(a, b) == IF a >= b THEN a - b ELSE 0

(* The record-keeping of a removal: tombstone, key map, MRU queue, cost. *)
Unpublish_NoTombstone(k, s) ==   \* mutant
  /\ pending' = pending
  /\ entries' = [entries EXCEPT ![k] = NoSlot]
  /\ lru' = RemoveLruKey(lru, k)
  /\ cost' = CheckedSub(cost, ecost[s])
Unpublish(k, s) ==
  /\ pending' = pending \cup {k}
  /\ entries' = [entries EXCEPT ![k] = NoSlot]
  /\ lru' = RemoveLruKey(lru, k)
  /\ cost' = CheckedSub(cost, ecost[s])

Goto(t, p) == pc' = [pc EXCEPT ![t] = p]
Forget(t) == slot' = [slot EXCEPT ![t] = NoSlot]

(* The call returns: its locals go out of scope. *)
Return(t) ==
  /\ Goto(t, "idle") /\ Forget(t)
  /\ op' = [op EXCEPT ![t] = "gc"] /\ key' = [key EXCEPT ![t] = AnyKey]
  /\ mode' = [mode EXCEPT ![t] = "Read"] /\ gced' = [gced EXCEPT ![t] = FALSE]
  /\ idx' = [idx EXCEPT ![t] = 0] /\ ratio' = [ratio EXCEPT ![t] = 0]
  /\ failed' = [failed EXCEPT ![t] = FALSE]

-----------------------------------------------------------------------------
(* acquire and remove: find the entry, take its lease, then recheck. *)

StartAcquire(t, k, m) ==
  /\ pc[t] = "idle"
  /\ Goto(t, "lookup") /\ op' = [op EXCEPT ![t] = "acquire"]
  /\ key' = [key EXCEPT ![t] = k] /\ mode' = [mode EXCEPT ![t] = m]
  /\ UNCHANGED <<stateVars, leaseVars, slotVars, gcVars, lock, live, slot, gced,
                 asleep, failed>>

StartRemove(t, k) ==
  /\ pc[t] = "idle"
  /\ Goto(t, "lookup") /\ op' = [op EXCEPT ![t] = "remove"]
  /\ key' = [key EXCEPT ![t] = k] /\ mode' = [mode EXCEPT ![t] = "Write"]
  /\ UNCHANGED <<stateVars, leaseVars, slotVars, gcVars, lock, live, slot, gced,
                 asleep, failed>>

(* Under the state mutex: clone the published entry, then leave the mutex. *)
LookupHit(t) ==
  /\ pc[t] = "lookup" /\ t \notin asleep /\ lock = NoThread
  /\ entries[key[t]] # NoSlot
  /\ slot' = [slot EXCEPT ![t] = entries[key[t]]] /\ Goto(t, "entry")
  /\ UNCHANGED <<stateVars, leaseVars, slotVars, gcVars, lock, live, op, key, mode,
                 gced, asleep, failed>>

(* acquire sleeps while another thread allocates or cleans up the key. *)
LookupPending(t) ==
  /\ pc[t] = "lookup" /\ t \notin asleep /\ lock = NoThread
  /\ op[t] = "acquire" /\ entries[key[t]] = NoSlot /\ key[t] \in pending
  /\ asleep' = asleep \cup {t}
  /\ UNCHANGED <<stateVars, leaseVars, slotVars, gcVars, lock, live, pc, op, key,
                 mode, slot, gced, failed>>

(* An allocating miss collects once before it allocates. *)
LookupOver(t) ==
  /\ pc[t] = "lookup" /\ t \notin asleep /\ lock = NoThread
  /\ op[t] = "acquire" /\ entries[key[t]] = NoSlot /\ key[t] \notin pending
  /\ ~gced[t] /\ OverAutomaticGcThreshold
  /\ Goto(t, "gcLock") /\ ratio' = [ratio EXCEPT ![t] = AutomaticGcFillRatio]
  /\ UNCHANGED <<stateVars, leaseVars, slotVars, idx, bag, lock, live, op, key, mode,
                 slot, gced, asleep, failed>>

LookupMiss(t) ==
  /\ pc[t] = "lookup" /\ t \notin asleep /\ lock = NoThread
  /\ op[t] = "acquire" /\ entries[key[t]] = NoSlot /\ key[t] \notin pending
  /\ gced[t] \/ ~OverAutomaticGcThreshold
  /\ pending' = pending \cup {key[t]} /\ Goto(t, "allocate")
  /\ UNCHANGED <<entries, lru, cost, quota, leaseVars, slotVars, gcVars, lock, live,
                 op, key, mode, slot, gced, asleep, failed>>

RemoveMissing(t) ==
  /\ pc[t] = "lookup" /\ lock = NoThread
  /\ op[t] = "remove" /\ entries[key[t]] = NoSlot
  /\ Return(t)
  /\ UNCHANGED <<stateVars, leaseVars, slotVars, bag, lock, live, asleep>>

(* Entry::acquire: Removed restarts the lookup, otherwise take it or sleep. *)
EntryAcquire(t) ==
  LET s == slot[t] m == mode[t] IN
  /\ pc[t] = "entry" /\ t \notin asleep
  /\ \/ /\ removed[s]
        /\ Goto(t, "lookup") /\ Forget(t) /\ UNCHANGED <<readers, writer, asleep>>
     \/ /\ ~removed[s] /\ Available(s, m)
        /\ Hold(s, m) /\ Goto(t, "confirm") /\ UNCHANGED <<slot, asleep>>
     \/ /\ ~removed[s] /\ ~Available(s, m)
        /\ asleep' = asleep \cup {t} /\ UNCHANGED <<readers, writer, pc, slot>>
  /\ UNCHANGED <<stateVars, removed, slotVars, gcVars, lock, live, op, key, mode,
                 gced, failed>>

(* Back under the state mutex: the lease counts only if the entry it is for  *)
(* is still the one published; otherwise give it back and start over.        *)
StillPublished(t) == entries[key[t]] = slot[t]

ConfirmAcquire(t) ==
  /\ pc[t] = "confirm" /\ op[t] = "acquire" /\ lock = NoThread
  /\ IF StillPublished(t)
       THEN /\ TouchMru(key[t]) /\ Goto(t, "held")
            /\ UNCHANGED <<readers, writer, slot, asleep>>
       ELSE /\ ReleaseLease(slot[t], mode[t]) /\ Goto(t, "lookup") /\ Forget(t)
            /\ UNCHANGED lru
  /\ UNCHANGED <<entries, pending, cost, quota, removed, slotVars, gcVars, lock, live,
                 op, key, mode, gced, failed>>

ConfirmRemove(t) ==
  /\ pc[t] = "confirm" /\ op[t] = "remove" /\ lock = NoThread
  /\ IF StillPublished(t)
       THEN /\ removed' = [removed EXCEPT ![slot[t]] = TRUE]
            /\ asleep' = asleep \ EntryWaiters(slot[t])
            /\ Unpublish(key[t], slot[t]) /\ Goto(t, "take")
            /\ UNCHANGED <<readers, writer, slot>>
       ELSE /\ ReleaseLease(slot[t], mode[t]) /\ Goto(t, "lookup") /\ Forget(t)
            /\ UNCHANGED <<pending, entries, lru, cost, removed>>
  /\ UNCHANGED <<quota, slotVars, gcVars, lock, live, op, key, mode, gced, failed>>

(* The removed value is taken out of the entry, and the lease given up. *)
TakeValue(t) ==
  /\ pc[t] = "take"
  /\ ReleaseLease(slot[t], "Write") /\ Goto(t, "cleanup")
  /\ UNCHANGED <<stateVars, removed, slotVars, gcVars, lock, live, op, key, mode,
                 slot, gced, failed>>

(* The cleanup callback, outside every lock; it may panic, once it has run. *)
Cleanup(t) ==
  /\ pc[t] = "cleanup"
  /\ live' = live \ {slot[t]} /\ Goto(t, "finish")
  /\ UNCHANGED <<stateVars, leaseVars, slotVars, gcVars, lock, op, key, mode, slot,
                 gced, asleep, failed>>

FinishPending(t) ==
  /\ pc[t] = "finish" /\ lock = NoThread
  /\ pending' = pending \ {key[t]} /\ NotifyChanged
  /\ Return(t)
  /\ UNCHANGED <<entries, lru, cost, quota, leaseVars, slotVars, bag, lock, live>>

-----------------------------------------------------------------------------
(* allocate_and_publish *)

(* The callback returns a value of some cost ... *)
Allocate(t, c) ==
  /\ pc[t] = "allocate" /\ FreeSlots # {}
  /\ slot' = [slot EXCEPT ![t] = NewSlot] /\ live' = live \cup {NewSlot}
  /\ ekey' = [ekey EXCEPT ![NewSlot] = key[t]]
  /\ ecost' = [ecost EXCEPT ![NewSlot] = c]
  /\ Goto(t, "publish")
  /\ UNCHANGED <<stateVars, leaseVars, gcVars, lock, op, key, mode, gced, asleep, failed>>

(* ... or reports an error, or panics: nothing is published. *)
AllocateFails_KeyStaysPending(t) ==   \* mutant
  /\ pc[t] = "allocate" /\ Return(t)
  /\ UNCHANGED <<stateVars, leaseVars, slotVars, bag, lock, live, asleep>>
AllocateFails(t) ==
  /\ pc[t] = "allocate" /\ Goto(t, "finish")
  /\ UNCHANGED <<stateVars, leaseVars, slotVars, gcVars, lock, live, op, key, mode,
                 slot, gced, asleep, failed>>

FitsUsize_Unchecked(n) == TRUE   \* mutant
FitsUsize(n) == n =< MaxCost

(* checked_add fails: the value goes to cleanup instead. *)
CostOverflow(t) ==
  /\ pc[t] = "publish" /\ lock = NoThread
  /\ ~FitsUsize(cost + ecost[slot[t]])
  /\ Goto(t, "cleanup")
  /\ UNCHANGED <<stateVars, leaseVars, slotVars, gcVars, lock, live, op, key, mode,
                 slot, gced, asleep, failed>>

(* Entry::new_held, key map, MRU queue and cost in one critical section. *)
Publish(t) ==
  LET s == slot[t]
      held == IF CallbackBacked THEN "Write" ELSE mode[t]
  IN
  /\ pc[t] = "publish" /\ lock = NoThread
  /\ FitsUsize(cost + ecost[s])
  /\ pending' = pending \ {key[t]} /\ NotifyChanged
  /\ entries' = [entries EXCEPT ![key[t]] = s]
  /\ lru' = Append(lru, key[t]) /\ cost' = cost + ecost[s]
  /\ mode' = [mode EXCEPT ![t] = held] /\ Goto(t, "held")
  /\ readers' = [readers EXCEPT ![s] = IF held = "Read" THEN 1 ELSE 0]
  /\ writer' = [writer EXCEPT ![s] = held = "Write"]
  /\ removed' = [removed EXCEPT ![s] = FALSE]
  /\ UNCHANGED <<quota, slotVars, gcVars, lock, live, op, key, slot, gced, failed>>

-----------------------------------------------------------------------------
(* Lease holders, and the calls that never wait. *)

Release(t) ==
  /\ pc[t] = "held"
  /\ ReleaseLease(slot[t], mode[t]) /\ Return(t)
  /\ UNCHANGED <<stateVars, removed, slotVars, bag, lock, live>>

(* CacheWriteLease::demote: one critical section of the entry's lease mutex. *)
DemotedReaders(s) == [readers EXCEPT ![s] = 1]
Demote(t) ==
  LET s == slot[t] IN
  /\ pc[t] = "held" /\ mode[t] = "Write" /\ writer[s] /\ ~removed[s]
  /\ writer' = [writer EXCEPT ![s] = FALSE] /\ readers' = DemotedReaders(s)
  /\ asleep' = asleep \ EntryWaiters(s)
  /\ mode' = [mode EXCEPT ![t] = "Read"]
  /\ UNCHANGED <<stateVars, removed, slotVars, gcVars, lock, live, pc, op, key, slot,
                 gced, failed>>

(* try_acquire: None (no step here) when a lock is busy or the key missing. *)
TryAcquire(t, k, m) ==
  LET s == entries[k] IN
  /\ pc[t] = "idle" /\ lock = NoThread
  /\ s # NoSlot /\ ~removed[s] /\ Available(s, m)
  /\ Hold(s, m) /\ TouchMru(k)
  /\ Goto(t, "held") /\ slot' = [slot EXCEPT ![t] = s]
  /\ op' = [op EXCEPT ![t] = "acquire"]
  /\ key' = [key EXCEPT ![t] = k] /\ mode' = [mode EXCEPT ![t] = m]
  /\ UNCHANGED <<entries, pending, cost, quota, removed, slotVars, gcVars, lock, live,
                 gced, asleep, failed>>

SetCostQuota(t, q) ==
  /\ pc[t] = "idle" /\ lock = NoThread /\ quota' = q
  /\ UNCHANGED <<entries, pending, lru, cost, leaseVars, slotVars, gcVars, lock, live,
                 pc, op, key, mode, slot, gced, asleep, failed>>

-----------------------------------------------------------------------------
(* gc: one pass over the MRU queue, oldest first, under the state mutex. *)

StartGc(t, r) ==
  /\ pc[t] = "idle"
  /\ Goto(t, "gcLock") /\ op' = [op EXCEPT ![t] = "gc"]
  /\ ratio' = [ratio EXCEPT ![t] = r]
  /\ UNCHANGED <<stateVars, leaseVars, slotVars, idx, bag, lock, live, key, mode,
                 slot, gced, asleep, failed>>

GcLock(t) ==
  /\ pc[t] = "gcLock" /\ lock = NoThread
  /\ lock' = t /\ idx' = [idx EXCEPT ![t] = 1] /\ Goto(t, "scan")
  /\ UNCHANGED <<stateVars, leaseVars, slotVars, ratio, bag, live, op, key, mode,
                 slot, gced, asleep, failed>>

GcMore(t) == idx[t] =< Len(lru) /\ ~StrictlyBelowRatio(ratio[t])
GcSlot(t) == entries[lru[idx[t]]]
GcMayTake_LeaseIgnored(s) == ~removed[s]   \* mutant
GcMayTake(s) == ~removed[s] /\ Available(s, "Write")

(* try_acquire(Write) succeeded: tombstone the key and keep the value aside. *)
GcTake(t) ==
  LET s == GcSlot(t) IN
  /\ pc[t] = "scan" /\ GcMore(t) /\ GcMayTake(s)
  /\ removed' = [removed EXCEPT ![s] = TRUE]
  /\ asleep' = asleep \ EntryWaiters(s)
  /\ Unpublish(lru[idx[t]], s)
  /\ bag' = [bag EXCEPT ![t] = Append(@, s)]
  /\ UNCHANGED <<quota, readers, writer, slotVars, idx, ratio, lock, live, pc, op, key,
                 mode, slot, gced, failed>>

(* A leased entry is skipped; so is one whose lease mutex another thread is  *)
(* just then holding.                                                        *)
GcSkip(t) ==
  LET s == GcSlot(t) IN
  /\ pc[t] = "scan" /\ GcMore(t)
  /\ \/ ~GcMayTake(s)
     \/ \E u \in Thread : pc[u] = "entry" /\ slot[u] = s /\ u \notin asleep
  /\ idx' = [idx EXCEPT ![t] = @ + 1]
  /\ UNCHANGED <<stateVars, leaseVars, slotVars, ratio, bag, lock, live, pc, op, key,
                 mode, slot, gced, asleep, failed>>

GcUnlock(t) ==
  /\ pc[t] = "scan" /\ ~GcMore(t)
  /\ lock' = NoThread /\ Goto(t, "collect")
  /\ UNCHANGED <<stateVars, leaseVars, slotVars, gcVars, live, op, key, mode, slot,
                 gced, asleep, failed>>

(* After the mutex: each value is cleaned up, then its key stops pending.  A *)
(* panicking callback is reported once every value has had its turn.         *)
GcCleanup(t, panicked) ==
  /\ pc[t] = "collect" /\ bag[t] # <<>>
  /\ live' = live \ {Head(bag[t])} /\ Goto(t, "collectFinish")
  /\ failed' = [failed EXCEPT ![t] = @ \/ panicked]
  /\ UNCHANGED <<stateVars, leaseVars, slotVars, gcVars, lock, op, key, mode, slot,
                 gced, asleep>>

GcFinishPending(t) ==
  /\ pc[t] = "collectFinish" /\ lock = NoThread
  /\ pending' = pending \ {ekey[Head(bag[t])]} /\ NotifyChanged
  /\ bag' = [bag EXCEPT ![t] = Tail(@)] /\ Goto(t, "collect")
  /\ UNCHANGED <<entries, lru, cost, quota, leaseVars, slotVars, idx, ratio, lock, live,
                 op, key, mode, slot, gced, failed>>

(* An automatic pass resumes the acquire that started it, unless it failed. *)
GcReturn(t) ==
  /\ pc[t] = "collect" /\ bag[t] = <<>>
  /\ IF op[t] = "acquire" /\ ~failed[t]
       THEN /\ Goto(t, "lookup") /\ gced' = [gced EXCEPT ![t] = TRUE]
            /\ UNCHANGED <<op, key, mode, slot, idx, ratio, failed>>
       ELSE Return(t)
  /\ UNCHANGED <<stateVars, leaseVars, slotVars, bag, lock, live, asleep>>

-----------------------------------------------------------------------------
(* A call in progress takes its next step; an idle thread may start a call. *)
Step(t) ==
  \/ LookupHit(t) \/ LookupPending(t) \/ LookupOver(t) \/ LookupMiss(t)
  \/ RemoveMissing(t) \/ EntryAcquire(t) \/ ConfirmAcquire(t) \/ ConfirmRemove(t)
  \/ TakeValue(t) \/ Cleanup(t) \/ FinishPending(t)
  \/ (\E c \in Costs : Allocate(t, c)) \/ AllocateFails(t)
  \/ CostOverflow(t) \/ Publish(t) \/ Release(t)
  \/ GcLock(t) \/ GcTake(t) \/ GcSkip(t) \/ GcUnlock(t)
  \/ (\E p \in BOOLEAN : GcCleanup(t, p)) \/ GcFinishPending(t) \/ GcReturn(t)

Call(t) ==
  \/ \E k \in Key, m \in Mode : StartAcquire(t, k, m) \/ TryAcquire(t, k, m)
  \/ \E k \in Key : StartRemove(t, k)
  \/ \E q \in Quotas : SetCostQuota(t, q)
  \/ \E r \in Ratios : StartGc(t, r)
  \/ Demote(t)

Next == \E t \in Thread : Step(t) \/ Call(t)

Spec == Init /\ [][Next]_vars

(* Callbacks return, lease holders let go, and the operating system runs     *)
(* every thread that can run.                                                *)
Fairness == \A t \in Thread : WF_vars(Step(t))
FairSpec == Spec /\ Fairness

-----------------------------------------------------------------------------
TypeOK ==
  /\ entries \in [Key -> Slot \cup {NoSlot}] /\ pending \subseteq Key
  /\ lru \in Seq(Key) /\ cost \in 0..MaxCost /\ quota \in Quotas
  /\ lock \in Thread \cup {NoThread}
  /\ ekey \in [Slot -> Key] /\ ecost \in [Slot -> Nat]
  /\ readers \in [Slot -> Nat] /\ writer \in [Slot -> BOOLEAN]
  /\ removed \in [Slot -> BOOLEAN] /\ live \subseteq Slot
  /\ pc \in [Thread -> PC] /\ op \in [Thread -> {"acquire", "remove", "gc"}]
  /\ key \in [Thread -> Key] /\ mode \in [Thread -> Mode]
  /\ slot \in [Thread -> Slot \cup {NoSlot}] /\ gced \in [Thread -> BOOLEAN]
  /\ asleep \subseteq Thread /\ idx \in [Thread -> Nat] /\ ratio \in [Thread -> Nat]
  /\ bag \in [Thread -> Seq(Slot)] /\ failed \in [Thread -> BOOLEAN]

Holds(t, s, m) == pc[t] \in {"confirm", "held", "take"} /\ slot[t] = s /\ mode[t] = m

(* A write lease excludes every other lease on the same entry for its whole  *)
(* lifetime, demotion, removal and automatic collection included ("The       *)
(* logical state excludes writers for the whole lease").                     *)
LeaseExclusion ==
  \A t, u \in Thread : \A s \in Slot : \A m \in Mode :
    t # u /\ Holds(t, s, "Write") => ~Holds(u, s, m)

(* A lease keeps its entry: while a thread holds one, the entry stays the    *)
(* one published under its key, is not marked removed, and its value has not *)
(* been given to cleanup.                                                    *)
HeldStaysPublished ==
  \A t \in Thread : pc[t] \in {"confirm", "held"} =>
    /\ entries[key[t]] = slot[t] /\ ~removed[slot[t]] /\ slot[t] \in live

(* "allocate is single-flight for each key": at any moment a key has at most *)
(* one allocation, counting a running callback, a published entry and a      *)
(* removed value whose cleanup has not run yet.                              *)
SingleFlight ==
  /\ \A r, s \in live : ekey[r] = ekey[s] => r = s
  /\ \A t \in Thread : pc[t] = "allocate" =>
       /\ \A s \in live : ekey[s] # key[t]
       /\ \A u \in Thread : pc[u] = "allocate" /\ key[u] = key[t] => u = t

(* Every pending key has exactly one thread that will finish it, and a       *)
(* thread responsible for a key has it parked: no key is stuck for good.     *)
Owners(k) ==
  {t \in Thread : \/ pc[t] \in {"allocate", "publish", "take", "cleanup", "finish"}
                     /\ key[t] = k
                  \/ \E s \in Range(bag[t]) : ekey[s] = k}
PendingOwned ==
  \A k \in Key : Cardinality(Owners(k)) = IF k \in pending THEN 1 ELSE 0

(* The cost account is the sum of the published entries' costs, and the MRU  *)
(* queue lists each published key once.                                      *)
Accounting ==
  LET keys == {k \in Key : entries[k] # NoSlot} IN
  /\ cost = SumFunctionOnSet([k \in keys |-> ecost[entries[k]]], keys)
  /\ Range(lru) = keys /\ Len(lru) = Cardinality(keys)

(* An allocation is never lost: until cleanup receives it, it is published   *)
(* or in the hands of a thread that will publish it or clean it up.          *)
InHand(t) ==
  (IF pc[t] \in {"publish", "take", "cleanup"} THEN {slot[t]} ELSE {})
    \cup (IF pc[t] = "collectFinish" THEN Range(Tail(bag[t])) ELSE Range(bag[t]))
NoLeak == live = Published \cup UNION {InHand(t) : t \in Thread}

(* What the cache keeps beside the entries agrees with them at every step of *)
(* every call: who finishes a pending key, the costs, the values alive.      *)
Bookkeeping == PendingOwned /\ Accounting /\ NoLeak

(* The detailed cache keeps the promises of LeaseCache: what callers hold    *)
(* excludes and pins as if every call were one step.                         *)
Leases == INSTANCE LeaseCache WITH
  Value <- Slot, None <- NoSlot,
  value <- entries,
  lease <- [t \in Thread |-> IF pc[t] = "held" THEN [key |-> key[t], mode |-> mode[t]]
                                               ELSE NoSlot]
ImplementsLeases == Leases!Spec

(* Once threads stop making calls, every call in progress returns: no        *)
(* wake-up on a pending key or an entry lease is lost, and no thread waits   *)
(* for another that waits for it.  A thread is never assumed to win a race   *)
(* for a mutex, only to run when it can.                                     *)
NoMoreCalls == <>[][\E t \in Thread : Step(t)]_vars
Drains == NoMoreCalls => <>[](\A t \in Thread : pc[t] = "idle")

=============================================================================
