------------------------------ MODULE PixelCache ------------------------------
(***************************************************************************)
(* The pixelpipe cache of crates/rusttable-pixelpipe/src/cache: callers of *)
(* get_or_build share one build ("flight") a key, each under a             *)
(* cancellation token of its own, while the cache is invalidated, resized  *)
(* and shut down.                                                          *)
(*                                                                         *)
(* A step is one critical section, or one call of the resident cache below *)
(* it (ConcurrentCache), which is atomic here: a hit takes a read lease, a *)
(* miss allocates what `pending` offers under the key, a removal waits for *)
(* the leases.  A Flight stands for an Arc<InFlight> and for the value its *)
(* builder makes; it is used again once nothing refers to it.              *)
(***************************************************************************)
EXTENDS Naturals, FiniteSets

CONSTANTS Thread, Key, Flight, NoThread, NoFlight,
          Oversized,         \* what set_budget may make `oversize`
          MaxInvalidations   \* bound of the model, see InvalidateMark

ASSUME PixelCacheConstants ==
  /\ IsFiniteSet(Thread) /\ IsFiniteSet(Key) /\ NoThread \notin Thread
  /\ NoFlight \notin Flight /\ Key # {} /\ Oversized \subseteq BOOLEAN
  /\ MaxInvalidations \in Nat

VARIABLES
  entries, oversize,                  \* the resident cache; is its quota too small?
  pending, invalidating,              \* ResidentState
  inFlight, failures, sequence, shutdown,   \* Inner
  publication,                        \* the thread that holds this mutex
  flight,                             \* InFlight, and the value it built
  pc, stage, key, mine, lease, direct, err, todo, scope, cancelled,   \* each thread's call
  floor, settled                      \* history, see NothingStale

innerVars == <<inFlight, failures, sequence, shutdown>>
residentVars == <<entries, oversize, pending, invalidating>>
callVars == <<todo, scope, cancelled, floor, settled>>
vars == <<entries, oversize, pending, invalidating, inFlight, failures, sequence, shutdown,
          publication, flight, pc, stage, key, mine, lease, direct, err, todo, scope,
          cancelled, floor, settled>>

PC == {"idle", "probe", "acquire", "recheck", "join", "register", "build", "publish",
       "allocate", "complete", "leave", "wait", "held", "failed",
       "invalidate", "unmark", "shutdown", "release"}
Stage == {"first", "owner", "published", "waiter"}   \* where lookup is called from
Errors == {"none", "Cancelled", "Cancellation", "Shutdown", "SuppressedFailure", "BuildFailed",
           "NotCacheable", "StalePublication", "BuildNotPublished", "Poisoned"}

AnyKey == CHOOSE k \in Key : TRUE
NewFlightRecord ==
  [consumers |-> {}, cancelled |-> FALSE, stale |-> FALSE, completed |-> FALSE,
   error |-> "none", success |-> NoFlight, birth |-> 0, pins |-> 0]

Init ==
  /\ entries = [k \in Key |-> NoFlight] /\ oversize = FALSE
  /\ pending = [k \in Key |-> NoFlight] /\ invalidating = {}
  /\ inFlight = [k \in Key |-> NoFlight] /\ failures = {} /\ sequence = 0 /\ shutdown = FALSE
  /\ publication = NoThread /\ flight = [f \in Flight |-> NewFlightRecord]
  /\ pc = [t \in Thread |-> "idle"] /\ stage = [t \in Thread |-> "first"]
  /\ key = [t \in Thread |-> AnyKey] /\ mine = [t \in Thread |-> NoFlight]
  /\ lease = [t \in Thread |-> NoFlight] /\ direct = [t \in Thread |-> NoFlight]
  /\ err = [t \in Thread |-> "none"] /\ todo = [t \in Thread |-> {}]
  /\ cancelled = [t \in Thread |-> FALSE] /\ floor = [t \in Thread |-> 0]
  /\ scope = [t \in Thread |-> {}] /\ settled = [k \in Key |-> 0]

-----------------------------------------------------------------------------
(* Flights and the values they built. *)

Named(f) ==
  \/ \E k \in Key : f \in {entries[k], pending[k], inFlight[k]}
  \/ \E t \in Thread : f \in {mine[t], lease[t], direct[t]}
Referenced(f) == Named(f) \/ \E g \in Flight : Named(g) /\ flight[g].success = f

NewFlight == CHOOSE f \in Flight : ~Referenced(f)

(* The next flight records are F, but for the flights dropped in this step.  *)
(* (Every conjunct that moves a reference comes before this one.)            *)
Flights(F) ==
  LET named == {f \in Flight : Named(f)'} IN
  flight' = [f \in Flight |-> IF f \in named \/ \E g \in named : F[g].success = f
                              THEN F[f] ELSE NewFlightRecord]

Pin_Forgotten(F, v) == F   \* mutant
Pin(F, v) == [F EXCEPT ![v].pins = @ + 1]
Unpin(F, v) == IF v = NoFlight THEN F ELSE [F EXCEPT ![v].pins = @ - 1]

(* release_consumer: the last consumer to go cancels the build.              *)
Release_CancelsAlways(F, f, t) ==   \* mutant
  [F EXCEPT ![f].consumers = @ \ {t}, ![f].cancelled = TRUE]
Release(F, f, t) ==
  [F EXCEPT ![f].consumers = @ \ {t}, ![f].cancelled = @ \/ F[f].consumers = {t}]

Set(f, t, x) == [f EXCEPT ![t] = x]
Goto(t, p) == pc' = Set(pc, t, p)

Unleased(k) == \A t \in Thread : lease[t] # entries[k]

-----------------------------------------------------------------------------
(* get_or_build: the checks before anything is looked up.                    *)

Start(t, k) ==
  /\ pc[t] = "idle" /\ key' = Set(key, t, k) /\ floor' = Set(floor, t, settled[k])
  /\ \/ shutdown /\ Goto(t, "failed") /\ err' = Set(err, t, "Shutdown")
     \/ /\ ~shutdown /\ k \in failures
        /\ Goto(t, "failed") /\ err' = Set(err, t, "SuppressedFailure")
     \/ ~shutdown /\ k \notin failures /\ Goto(t, "probe") /\ UNCHANGED err
  /\ UNCHANGED <<residentVars, innerVars, publication, flight, stage, mine, lease, direct,
                 todo, scope, cancelled, settled>>

(* The caller's token is cancelled, or its deadline expires.                 *)
CancelToken(t) ==
  /\ pc[t] \notin {"idle", "held", "failed", "invalidate", "unmark", "shutdown", "release"}
  /\ ~cancelled[t] /\ cancelled' = Set(cancelled, t, TRUE)
  /\ UNCHANGED <<residentVars, innerVars, publication, flight, pc, stage, key, mine, lease,
                 direct, err, todo, scope, floor, settled>>

(* The token's cleanup hook, or the deadline worker, releases the consumer.  *)
HookFires(t) ==
  /\ cancelled[t] /\ mine[t] # NoFlight /\ pc[t] # "register"
  /\ t \in flight[mine[t]].consumers /\ flight' = Release(flight, mine[t], t)
  /\ UNCHANGED <<residentVars, innerVars, publication, pc, stage, key, mine, lease, direct,
                 err, callVars>>

-----------------------------------------------------------------------------
(* lookup, and where the caller goes on with its three outcomes.             *)

(* A waiter leaves its flight, an owner carries its result to completion; a  *)
(* lookup inside publish gives the publication mutex up.                     *)
Ends(t, F, d) ==
  /\ publication' = (IF stage[t] = "published" THEN NoThread ELSE publication)
  /\ direct' = Set(direct, t, d)
  /\ IF stage[t] = "waiter"
     THEN mine' = Set(mine, t, NoFlight) /\ Flights(Release(F, mine[t], t))
     ELSE UNCHANGED mine /\ Flights(F)

Hit(t) ==
  /\ Goto(t, IF stage[t] \in {"first", "waiter"} THEN "held" ELSE "complete")
  /\ UNCHANGED <<lease, err>>
  /\ Ends(t, Unpin(Pin(flight, lease[t]), direct[t]), NoFlight)

Miss(t) ==
  /\ lease' = Set(lease, t, NoFlight)
  /\ Goto(t, CASE stage[t] = "first" -> "join" [] stage[t] = "owner" -> "build"
               [] stage[t] = "waiter" -> "held" [] OTHER -> "complete")
  /\ err' = Set(err, t, IF stage[t] = "published" THEN "BuildNotPublished" ELSE "none")
  /\ Ends(t, flight, direct[t])

LookupFails(t) ==
  /\ Goto(t, IF stage[t] \in {"first", "waiter"} THEN "failed" ELSE "complete")
  /\ err' = Set(err, t, "Poisoned") /\ UNCHANGED lease
  /\ Ends(t, Unpin(flight, direct[t]), NoFlight)

Probe(t) ==
  /\ pc[t] = "probe"
  /\ UNCHANGED <<residentVars, innerVars, stage, key, callVars>>
  /\ \/ /\ key[t] \in invalidating \/ entries[key[t]] = NoFlight
        /\ Miss(t)
     \/ /\ key[t] \notin invalidating /\ entries[key[t]] # NoFlight
        /\ Goto(t, "acquire") /\ UNCHANGED <<publication, flight, mine, lease, direct, err>>

(* The entry may be gone since it was probed.  The acquire then allocates,    *)
(* and may publish what an owner left in `pending`, under a write lease.     *)
Acquire(t) ==
  LET k == key[t] IN
  /\ pc[t] = "acquire"
  /\ UNCHANGED <<oversize, invalidating, innerVars, stage, key, callVars>>
  /\ \/ /\ entries[k] # NoFlight /\ lease' = Set(lease, t, entries[k]) /\ Goto(t, "recheck")
        /\ UNCHANGED <<entries, pending, publication, flight, mine, direct, err>>
     \/ /\ entries[k] = NoFlight /\ pending[k] = NoFlight
        /\ UNCHANGED <<entries, pending>> /\ Miss(t)
     \/ /\ entries[k] = NoFlight /\ pending[k] # NoFlight
        /\ entries' = Set(entries, k, pending[k]) /\ pending' = Set(pending, k, NoFlight)
        /\ LookupFails(t)

Recheck(t) ==
  /\ pc[t] = "recheck"
  /\ UNCHANGED <<residentVars, innerVars, stage, key, callVars>>
  /\ IF key[t] \in invalidating THEN Miss(t) ELSE Hit(t)

-----------------------------------------------------------------------------
(* get_or_build: join the key's flight, or own a new one.                    *)

JoinFlight_Alone(k) == NoFlight   \* mutant
JoinFlight(k) == inFlight[k]

Join(t) ==
  LET k == key[t] IN
  /\ pc[t] = "join"
  /\ \/ /\ shutdown \/ k \in failures
        /\ Goto(t, "failed")
        /\ err' = Set(err, t, IF shutdown THEN "Shutdown" ELSE "SuppressedFailure")
        /\ UNCHANGED <<inFlight, flight, mine, stage>>
     \/ /\ ~shutdown /\ k \notin failures /\ JoinFlight(k) # NoFlight
        /\ Goto(t, "register") /\ mine' = Set(mine, t, inFlight[k])
        /\ stage' = Set(stage, t, "waiter") /\ UNCHANGED <<err, inFlight, flight>>
     \/ /\ ~shutdown /\ k \notin failures /\ JoinFlight(k) = NoFlight
        /\ (\E f \in Flight : ~Referenced(f)) /\ Goto(t, "register") /\ mine' = Set(mine, t, NewFlight)
        /\ stage' = Set(stage, t, "owner") /\ inFlight' = Set(inFlight, k, NewFlight)
        /\ flight' = [flight EXCEPT ![NewFlight] = [NewFlightRecord EXCEPT !.consumers = {t}]]
        /\ UNCHANGED err
  /\ UNCHANGED <<residentVars, failures, sequence, shutdown, publication, key, lease, direct,
                 callVars>>

Register(t) ==
  LET f == mine[t] IN
  /\ pc[t] = "register" /\ flight' = [flight EXCEPT ![f].consumers = @ \cup {t}]
  /\ Goto(t, IF stage[t] = "owner" THEN "probe" ELSE "wait")
  /\ UNCHANGED <<residentVars, innerVars, publication, stage, key, mine, lease, direct, err,
                 callVars>>

-----------------------------------------------------------------------------
(* build_owner_flight: after a second lookup that misses.                    *)

Fails(t, e) == Goto(t, "complete") /\ err' = Set(err, t, e)

StartBuild(t) ==
  /\ pc[t] = "build" /\ flight[mine[t]].birth = 0
  /\ \/ flight[mine[t]].cancelled /\ Fails(t, "Cancellation") /\ UNCHANGED flight
     \/ /\ ~flight[mine[t]].cancelled /\ UNCHANGED <<pc, err>>
        /\ flight' = [flight EXCEPT ![mine[t]].birth = sequence + 1]
  /\ UNCHANGED <<residentVars, innerVars, publication, stage, key, mine, lease, direct,
                 callVars>>

(* The builder fails or panics, finds its token cancelled, or makes a value, *)
(* which is not published when the token is cancelled by then.               *)
BuilderReturns(t) ==
  /\ pc[t] = "build" /\ flight[mine[t]].birth > 0
  /\ \/ \E e \in {"BuildFailed", "NotCacheable"} : Fails(t, e)
     \/ flight[mine[t]].cancelled /\ Fails(t, "Cancellation")
     \/ ~flight[mine[t]].cancelled /\ Goto(t, "publish") /\ UNCHANGED err
  /\ UNCHANGED <<residentVars, innerVars, publication, flight, stage, key, mine, lease,
                 direct, callVars>>

MayPublish(t) == key[t] \notin invalidating /\ ~flight[mine[t]].stale
IsClosed == shutdown

(* A value larger than the quota goes to its callers without an entry.       *)
Publish(t) ==
  LET k == key[t] f == mine[t] IN
  /\ pc[t] = "publish" /\ publication = NoThread
  /\ \/ /\ IsClosed \/ ~MayPublish(t)
        /\ Fails(t, IF IsClosed THEN "Shutdown" ELSE "StalePublication")
        /\ UNCHANGED <<pending, failures, publication, flight, direct>>
     \/ /\ ~IsClosed /\ MayPublish(t) /\ failures' = failures \ {k} /\ UNCHANGED err
        /\ flight' = Pin(flight, f)
        /\ \/ /\ oversize /\ direct' = Set(direct, t, f) /\ Goto(t, "complete")
              /\ UNCHANGED <<pending, publication>>
           \/ /\ ~oversize /\ pending' = Set(pending, k, f) /\ publication' = t
              /\ Goto(t, "allocate") /\ UNCHANGED direct
  /\ UNCHANGED <<entries, oversize, invalidating, inFlight, sequence, shutdown, stage, key,
                 mine, lease, callVars>>

Evict(S) == [k \in Key |-> IF k \in S THEN NoFlight ELSE entries[k]]
Evictable == {k \in Key : entries[k] # NoFlight /\ Unleased(k)}

(* The allocation of a new entry may collect others; an entry already there  *)
(* is looked up instead.  When a lookup took what was pending (see Acquire)   *)
(* and its entry is gone again, there is nothing left to allocate.           *)
Allocate(t) ==
  LET k == key[t] f == mine[t] IN
  /\ pc[t] = "allocate" /\ pending' = Set(pending, k, NoFlight)
  /\ UNCHANGED <<oversize, invalidating, innerVars, key, mine, direct, callVars>>
  /\ \/ /\ entries[k] = NoFlight /\ pending[k] # NoFlight /\ lease' = Set(lease, t, f)
        /\ publication' = NoThread /\ Goto(t, "complete") /\ UNCHANGED <<stage, err>>
        /\ \E S \in SUBSET Evictable : entries' = [Evict(S) EXCEPT ![k] = f]
        /\ Flights(flight)
     \/ /\ entries[k] = NoFlight /\ pending[k] = NoFlight
        /\ publication' = NoThread /\ Fails(t, "BuildNotPublished")
        /\ UNCHANGED <<entries, stage, lease, flight>>
     \/ /\ entries[k] # NoFlight /\ stage' = Set(stage, t, "published") /\ Goto(t, "probe")
        /\ UNCHANGED <<entries, publication, lease, err, flight>>

Result(t) == IF lease[t] # NoFlight THEN lease[t] ELSE direct[t]
Suppressing == {"BuildFailed"}   \* BuildFailed, BuilderPanicked, InvalidValue

BecameStale_Unchecked(t) == FALSE   \* mutant
BecameStale(t) == err[t] = "none" /\ flight[mine[t]].stale

CompleteFlight_OnSuccess(F, f, e, v) ==   \* mutant
  [F EXCEPT ![f].completed = e = "none", ![f].error = e, ![f].success = v]
CompleteFlight(F, f, e, v) ==
  [F EXCEPT ![f].completed = TRUE, ![f].error = e, ![f].success = v]

Complete(t) ==
  LET k == key[t] f == mine[t]
      e == IF BecameStale(t) THEN "StalePublication" ELSE err[t]
      F == IF BecameStale(t) THEN Unpin(flight, Result(t)) ELSE flight
  IN
  /\ pc[t] = "complete" /\ publication = NoThread
  /\ UNCHANGED <<residentVars, sequence, shutdown, publication, stage, key, mine, callVars>>
  /\ err' = Set(err, t, e) /\ Goto(t, "leave")
  /\ failures' = (IF e \in Suppressing THEN failures \cup {k} ELSE failures)
  /\ inFlight' = (IF inFlight[k] = f THEN Set(inFlight, k, NoFlight) ELSE inFlight)
  /\ IF e = "none" THEN UNCHANGED <<lease, direct>>
                   ELSE lease' = Set(lease, t, NoFlight) /\ direct' = Set(direct, t, NoFlight)
  /\ Flights(CompleteFlight(F, f, e, IF e = "none" THEN Result(t) ELSE NoFlight))

(* The owner leaves its flight, and only then looks at its own token.        *)
Leave(t) ==
  LET ok == err[t] = "none" /\ ~cancelled[t]
      F == Release(flight, mine[t], t) IN
  /\ pc[t] = "leave" /\ mine' = Set(mine, t, NoFlight)
  /\ UNCHANGED <<residentVars, innerVars, publication, stage, key, callVars>>
  /\ \/ ok /\ Goto(t, "held") /\ UNCHANGED <<lease, direct, err>> /\ Flights(F)
     \/ /\ ~ok /\ Goto(t, "failed")
        /\ err' = (IF cancelled[t] THEN Set(err, t, "Cancelled") ELSE err)
        /\ lease' = Set(lease, t, NoFlight) /\ direct' = Set(direct, t, NoFlight)
        /\ Flights(Unpin(F, Result(t)))

-----------------------------------------------------------------------------
(* wait_for_flight: it polls, so no wake-up can be missed.                   *)

StopWaiting(t, e) ==
  /\ Goto(t, "failed") /\ err' = Set(err, t, e) /\ mine' = Set(mine, t, NoFlight)
  /\ UNCHANGED direct /\ Flights(Release(flight, mine[t], t))

Wait(t) ==
  LET f == mine[t] v == flight[f].success IN
  /\ pc[t] = "wait"
  /\ UNCHANGED <<residentVars, innerVars, publication, stage, key, lease, callVars>>
  /\ \/ cancelled[t] /\ StopWaiting(t, "Cancelled")
     \/ /\ flight[f].completed /\ flight[f].error # "none"
        /\ StopWaiting(t, flight[f].error)
     \/ /\ flight[f].completed /\ flight[f].error = "none"
        /\ Goto(t, "probe") /\ direct' = Set(direct, t, v) /\ flight' = Pin(flight, v)
        /\ UNCHANGED <<err, mine>>

-----------------------------------------------------------------------------
(* The caller drops its lease, or takes note of the error.                   *)

Finish(t) ==
  /\ pc[t] \in {"held", "failed"} /\ Goto(t, "idle")
  /\ UNCHANGED <<residentVars, innerVars, publication, mine, todo, scope, settled>>
  /\ stage' = Set(stage, t, "first") /\ key' = Set(key, t, AnyKey)
  /\ lease' = Set(lease, t, NoFlight) /\ direct' = Set(direct, t, NoFlight)
  /\ err' = Set(err, t, "none") /\ cancelled' = Set(cancelled, t, FALSE)
  /\ floor' = Set(floor, t, 0)
  /\ Flights(Unpin(flight, Result(t)))

(* The failure window passes. *)
FailureExpires(k) ==
  /\ k \in failures /\ failures' = failures \ {k}
  /\ UNCHANGED <<residentVars, inFlight, sequence, shutdown, publication, flight, pc, stage,
                 key, mine, lease, direct, err, callVars>>

-----------------------------------------------------------------------------
(* invalidate, set_budget, shutdown *)

MarkStale(S) ==
  [f \in Flight |-> IF \E k \in S : inFlight[k] = f THEN [flight[f] EXCEPT !.stale = TRUE]
                                                    ELSE flight[f]]
Resident(S) == {k \in S : entries[k] # NoFlight}

(* floor doubles as the sequence number of an invalidation in progress.      *)
InvalidateMark(t, S) ==
  /\ pc[t] = "idle" /\ publication = NoThread /\ sequence < MaxInvalidations
  /\ sequence' = sequence + 1 /\ floor' = Set(floor, t, sequence + 1)
  /\ flight' = MarkStale(S) /\ todo' = Set(todo, t, Resident(S))
  /\ invalidating' = invalidating \cup Resident(S) /\ Goto(t, "invalidate")
  /\ scope' = Set(scope, t, S)
  /\ UNCHANGED <<entries, oversize, pending, inFlight, failures, shutdown, publication, stage,
                 key, mine, lease, direct, err, cancelled, settled>>

(* resident.remove: it waits for the leases on the entry. *)
Remove(t, k) ==
  /\ entries[k] # NoFlight => Unleased(k)
  /\ entries' = Set(entries, k, NoFlight) /\ Flights(flight)

InvalidateRemove(t, k) ==
  /\ pc[t] = "invalidate" /\ k \in todo[t] /\ Goto(t, "unmark") /\ key' = Set(key, t, k)
  /\ UNCHANGED <<oversize, pending, invalidating, innerVars, publication, stage, mine, lease,
                 direct, err, callVars>>
  /\ Remove(t, k)

InvalidateUnmark(t) ==
  /\ pc[t] = "unmark" /\ Goto(t, "invalidate") /\ key' = Set(key, t, AnyKey)
  /\ invalidating' = invalidating \ {key[t]} /\ todo' = Set(todo, t, todo[t] \ {key[t]})
  /\ UNCHANGED <<entries, oversize, pending, innerVars, publication, flight, stage, mine,
                 lease, direct, err, scope, cancelled, floor, settled>>

InvalidateReturn(t) ==
  /\ pc[t] = "invalidate" /\ todo[t] = {} /\ Goto(t, "idle") /\ floor' = Set(floor, t, 0)
  /\ scope' = Set(scope, t, {})
  /\ settled' = [k \in Key |-> IF k \in scope[t] /\ floor[t] > settled[k]
                               THEN floor[t] ELSE settled[k]]
  /\ UNCHANGED <<residentVars, innerVars, publication, flight, stage, key, mine, lease,
                 direct, err, todo, cancelled>>

(* Which unleased entries the collection takes is ConcurrentCache's matter.  *)
SetBudget ==
  /\ publication = NoThread /\ oversize' \in Oversized
  /\ \E S \in SUBSET Evictable : entries' = Evict(S)
  /\ UNCHANGED <<pending, invalidating, innerVars, publication, pc, stage, key, mine, lease,
                 direct, err, callVars>>
  /\ Flights(flight)

ShutdownMark(t) ==
  /\ pc[t] = "idle" /\ publication = NoThread /\ ~shutdown /\ shutdown' = TRUE
  /\ todo' = Set(todo, t, Resident(Key)) /\ Goto(t, "shutdown")
  /\ UNCHANGED <<residentVars, inFlight, failures, sequence, publication, flight, stage, key,
                 mine, lease, direct, err, scope, cancelled, floor, settled>>

(* A pinned entry stays; one that is not is removed in a second call.        *)
ShutdownCheck(t, k) ==
  /\ pc[t] = "shutdown" /\ k \in todo[t] /\ todo' = Set(todo, t, todo[t] \ {k})
  /\ \/ /\ entries[k] # NoFlight /\ flight[entries[k]].pins = 0
        /\ Goto(t, "release") /\ key' = Set(key, t, k)
     \/ /\ entries[k] # NoFlight => flight[entries[k]].pins > 0
        /\ UNCHANGED <<pc, key>>
  /\ UNCHANGED <<residentVars, innerVars, publication, flight, stage, mine, lease, direct, err,
                 scope, cancelled, floor, settled>>

ShutdownRelease(t) ==
  /\ pc[t] = "release" /\ Goto(t, "shutdown") /\ key' = Set(key, t, AnyKey)
  /\ UNCHANGED <<oversize, pending, invalidating, innerVars, publication, stage, mine, lease,
                 direct, err, callVars>>
  /\ Remove(t, key[t])

ShutdownReturn(t) ==
  /\ pc[t] = "shutdown" /\ todo[t] = {} /\ Goto(t, "idle")
  /\ UNCHANGED <<residentVars, innerVars, publication, flight, stage, key, mine, lease,
                 direct, err, callVars>>

Step(t) ==
  \/ Probe(t) \/ Acquire(t) \/ Recheck(t) \/ Join(t) \/ Register(t) \/ StartBuild(t)
  \/ BuilderReturns(t) \/ Publish(t) \/ Allocate(t) \/ Complete(t) \/ Leave(t) \/ Wait(t)
  \/ Finish(t) \/ InvalidateUnmark(t) \/ InvalidateReturn(t) \/ ShutdownRelease(t)
  \/ ShutdownReturn(t)
  \/ \E k \in Key : InvalidateRemove(t, k) \/ ShutdownCheck(t, k)

Call(t) ==
  \/ ShutdownMark(t) \/ (\E k \in Key : Start(t, k))
  \/ \E S \in SUBSET Key \ {{}} : InvalidateMark(t, S)

Next ==
  \/ \E t \in Thread : Step(t) \/ Call(t) \/ CancelToken(t) \/ HookFires(t)
  \/ SetBudget \/ \E k \in Key : FailureExpires(k)

Spec == Init /\ [][Next]_vars
FairSpec == Spec /\ \A t \in Thread : WF_vars(Step(t))

-----------------------------------------------------------------------------
FlightRecord ==
  [consumers : SUBSET Thread, cancelled : BOOLEAN, stale : BOOLEAN, completed : BOOLEAN,
   error : Errors, success : Flight \cup {NoFlight}, birth : 0..(MaxInvalidations + 1),
   pins : Nat]

TypeOK ==
  LET Slots == Flight \cup {NoFlight} IN
  /\ entries \in [Key -> Slots] /\ pending \in [Key -> Slots] /\ inFlight \in [Key -> Slots]
  /\ invalidating \subseteq Key /\ failures \subseteq Key /\ sequence \in 0..MaxInvalidations
  /\ {oversize, shutdown} \subseteq BOOLEAN /\ publication \in Thread \cup {NoThread}
  /\ flight \in [Flight -> FlightRecord]
  /\ pc \in [Thread -> PC] /\ stage \in [Thread -> Stage] /\ key \in [Thread -> Key]
  /\ mine \in [Thread -> Slots] /\ lease \in [Thread -> Slots] /\ direct \in [Thread -> Slots]
  /\ err \in [Thread -> Errors] /\ cancelled \in [Thread -> BOOLEAN]
  /\ todo \in [Thread -> SUBSET Key] /\ scope \in [Thread -> SUBSET Key]
  /\ floor \in [Thread -> 0..MaxInvalidations] /\ settled \in [Key -> 0..MaxInvalidations]

Building(t) == pc[t] = "build" /\ flight[mine[t]].birth > 0

(* An invalidation in progress has still to remove the key's entry.          *)
HasToRemove(u, k) ==
  /\ k \in todo[u]
  /\ \/ pc[u] = "invalidate"
     \/ pc[u] = "unmark" /\ key[u] # k
Doomed(k) == \E u \in Thread : HasToRemove(u, k)

(* "Builds one exact key at most once at a time": no two builders run for a  *)
(* key, and none runs while a value is there to stay.                        *)
OneBuildAKey ==
  \A t \in Thread : Building(t) =>
    /\ \A u \in Thread : Building(u) /\ key[u] = key[t] => u = t
    /\ entries[key[t]] # NoFlight => Doomed(key[t])

(* What was built before an invalidation is gone when it returns: no entry   *)
(* holds it, and no call made since then gets it, from the cache or from a   *)
(* flight it joined.                                                         *)
NothingStale ==
  /\ \A k \in Key : entries[k] # NoFlight => flight[entries[k]].birth > settled[k]
  /\ \A t \in Thread : pc[t] = "held" => flight[Result(t)].birth > floor[t]

(* A build is cancelled only when every call that shares it, and has         *)
(* registered with it, is cancelled.                                         *)
BuildServesConsumers ==
  [][\A f \in Flight : ~flight[f].cancelled /\ flight'[f].cancelled /\ ~flight[f].completed =>
       \A t \in Thread : mine[t] = f /\ (pc[t] = "register" => stage[t] = "owner")
                           => cancelled[t]]_vars

(* A lookup fails when "locking, allocation, or type validation fails", and  *)
(* none of these happens in the model: no call ends with a poisoned cache.   *)
NeverPoisoned == \A t \in Thread : pc[t] = "failed" => err[t] # "Poisoned"

(* "Waiters can cancel their own wait without cancelling the shared build":  *)
(* a waiter that leaves does not cancel a build another live call has joined.*)
WaitersLeaveAlone ==
  [][\A t, u \in Thread :
       LET f == mine[t] IN
       /\ f # NoFlight /\ stage[t] = "waiter" /\ t \in flight[f].consumers
       /\ ~flight[f].completed /\ t \notin flight'[f].consumers
       /\ mine[u] = f /\ mine'[u] = f /\ u # t /\ ~cancelled[u]
       => ~(~flight[f].cancelled /\ flight'[f].cancelled)]_vars

(* Once threads stop making calls, every call in progress returns: builders  *)
(* and their waiters, and the invalidations and shutdowns that wait for      *)
(* leases.                                                                   *)
NoMoreCalls == <>[][\E t \in Thread : Step(t)]_vars
Drains == NoMoreCalls => <>[](\A t \in Thread : pc[t] = "idle")

=============================================================================
