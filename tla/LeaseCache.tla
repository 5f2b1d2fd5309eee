----------------------------- MODULE LeaseCache ------------------------------
(***************************************************************************)
(* What a cache of leased entries promises its callers, whatever its locks *)
(* and its bookkeeping: at most one value a key, leases on it that exclude *)
(* each other like the holds of a read/write lock, and no eviction of a    *)
(* value that is leased.                                                   *)
(*                                                                         *)
(* It is the common abstraction of darktable's cache (src/src/common/      *)
(* cache.c, module NativeCache) and of its port (crates/rusttable-image,   *)
(* module ConcurrentCache).                                                *)
(***************************************************************************)
CONSTANTS Thread, Key, Value, None

VARIABLES
  value,   \* the value published under each key, or None
  lease    \* the lease each thread holds, or None

vars == <<value, lease>>

Leases == [key : Key, mode : {"Read", "Write"}]

Init == /\ value = [k \in Key |-> None]
        /\ lease = [t \in Thread |-> None]

Holders(k) == {t \in Thread : lease[t] # None /\ lease[t].key = k}

Compatible(k, m) ==
  \A t \in Holders(k) : m = "Read" /\ lease[t].mode = "Read"

Acquire(t, k, m) ==
  /\ lease[t] = None /\ value[k] # None
  /\ Compatible(k, m)
  /\ lease' = [lease EXCEPT ![t] = [key |-> k, mode |-> m]]
  /\ UNCHANGED value

(* A miss publishes a value and leases it to the caller. *)
Allocate(t, k, m) ==
  /\ lease[t] = None /\ value[k] = None
  /\ \E v \in Value : value' = [value EXCEPT ![k] = v]
  /\ lease' = [lease EXCEPT ![t] = [key |-> k, mode |-> m]]

Release(t) ==
  /\ lease[t] # None
  /\ lease' = [lease EXCEPT ![t] = None]
  /\ UNCHANGED value

Demote(t) ==
  /\ lease[t] # None /\ lease[t].mode = "Write"
  /\ lease' = [lease EXCEPT ![t].mode = "Read"]
  /\ UNCHANGED value

(* By a removal or by a collection. *)
Evict(k) ==
  /\ value[k] # None /\ Holders(k) = {}
  /\ value' = [value EXCEPT ![k] = None]
  /\ UNCHANGED lease

Next ==
  \/ \E t \in Thread :
       \/ \E k \in Key, m \in {"Read", "Write"} : Acquire(t, k, m) \/ Allocate(t, k, m)
       \/ Release(t) \/ Demote(t)
  \/ \E k \in Key : Evict(k)

Spec == Init /\ [][Next]_vars

=============================================================================
