-------------------------- MODULE PixelCacheProofs --------------------------
(***************************************************************************)
(* Proofs about PixelCache.  The inductive invariant says where in a call  *)
(* a thread may be and what it then holds; that every flight in progress   *)
(* has one owner; what an invalidation has still to remove; how old the    *)
(* values are that entries, flights and calls hold; and that every value   *)
(* is pinned as often as calls hold it.                                    *)
(***************************************************************************)
EXTENDS PixelCache, Integers, FiniteSetTheorems, TLAPS

Slots == Flight \cup {NoFlight}

(* TypeOK, but for the lower bound of the pins. *)
LooseRecord ==
  [consumers : SUBSET Thread, cancelled : BOOLEAN, stale : BOOLEAN, completed : BOOLEAN,
   error : Errors, success : Slots, birth : 0..(MaxInvalidations + 1), pins : Int]

CallTypes ==
  /\ pc \in [Thread -> PC] /\ stage \in [Thread -> Stage] /\ key \in [Thread -> Key]
  /\ mine \in [Thread -> Slots] /\ lease \in [Thread -> Slots] /\ direct \in [Thread -> Slots]
  /\ err \in [Thread -> Errors] /\ cancelled \in [Thread -> BOOLEAN]
  /\ todo \in [Thread -> SUBSET Key] /\ scope \in [Thread -> SUBSET Key]
  /\ floor \in [Thread -> 0..MaxInvalidations] /\ publication \in Thread \cup {NoThread}
CacheTypes ==
  /\ entries \in [Key -> Slots] /\ pending \in [Key -> Slots] /\ inFlight \in [Key -> Slots]
  /\ invalidating \subseteq Key /\ failures \subseteq Key /\ sequence \in 0..MaxInvalidations
  /\ oversize \in BOOLEAN /\ shutdown \in BOOLEAN /\ settled \in [Key -> 0..MaxInvalidations]
FlightTypes == flight \in [Flight -> LooseRecord]
IsTyped == CallTypes /\ CacheTypes /\ FlightTypes

LookingUp(t) == pc[t] \in {"probe", "acquire", "recheck"}
Invalidates(u) == pc[u] \in {"invalidate", "unmark"}
Calls(t) ==
  pc[t] \in {"probe", "acquire", "recheck", "join", "register", "build", "publish",
             "allocate", "complete", "leave", "wait", "held"}

(* The thread is responsible for the completion of the flight it holds. *)
Owns(t) ==
  \/ /\ stage[t] = "owner"
     /\ pc[t] \in {"register", "probe", "acquire", "recheck", "build", "publish", "allocate",
                   "complete"}
  \/ stage[t] = "published" /\ pc[t] \in {"probe", "acquire", "recheck", "complete"}

(* What a thread holds at each point of its call. *)
Bare(t) == mine[t] = NoFlight /\ lease[t] = NoFlight /\ direct[t] = NoFlight

Place(t) ==
  /\ pc[t] \in {"idle", "failed", "join", "invalidate", "unmark", "shutdown", "release"} =>
       Bare(t)
  /\ pc[t] \in {"idle", "join", "invalidate", "unmark", "shutdown", "release"} =>
       stage[t] = "first"
  /\ pc[t] = "held" => mine[t] = NoFlight /\ Result(t) # NoFlight
  /\ pc[t] \in {"probe", "acquire", "register", "build", "publish", "allocate", "wait"} =>
       lease[t] = NoFlight
  /\ pc[t] = "recheck" => lease[t] # NoFlight
  /\ pc[t] \in {"register", "build", "publish", "allocate", "wait"} =>
       direct[t] = NoFlight /\ mine[t] # NoFlight
  /\ LookingUp(t) =>
       /\ stage[t] = "first" => mine[t] = NoFlight /\ direct[t] = NoFlight
       /\ stage[t] = "waiter" => mine[t] # NoFlight /\ direct[t] # NoFlight
       /\ stage[t] \in {"owner", "published"} => mine[t] # NoFlight /\ direct[t] = NoFlight
  /\ pc[t] = "register" => stage[t] \in {"owner", "waiter"}
  /\ pc[t] \in {"build", "publish", "allocate"} => stage[t] = "owner"
  /\ pc[t] = "wait" => stage[t] = "waiter"
  /\ pc[t] \in {"complete", "leave"} =>
       /\ stage[t] \in {"owner", "published"} /\ mine[t] # NoFlight
       /\ direct[t] # NoFlight => direct[t] = mine[t] /\ lease[t] = NoFlight
       /\ err[t] = "none" <=> Result(t) # NoFlight
  /\ pc[t] \notin {"complete", "leave", "failed"} => err[t] = "none"
  /\ pc[t] = "unmark" => key[t] \in todo[t]
  /\ pc[t] \notin {"invalidate", "unmark", "shutdown", "release"} => todo[t] = {}
  /\ publication = t <=> \/ pc[t] = "allocate"
                         \/ stage[t] = "published" /\ LookingUp(t)
PlaceInv == \A t \in Thread : Place(t)

(* Every flight in progress has an owner, and one only. *)
OwnerInv ==
  /\ \A t \in Thread : Owns(t) => inFlight[key[t]] = mine[t]
  /\ \A t, u \in Thread : Owns(t) /\ Owns(u) /\ mine[t] = mine[u] => t = u
  /\ \A k \in Key : inFlight[k] # NoFlight => \E t \in Thread : Owns(t) /\ key[t] = k
  /\ \A k \in Key, t \in Thread : inFlight[k] # NoFlight /\ mine[t] = inFlight[k] => key[t] = k

(* Nothing invalidates the value that is being published. *)
PendingInv ==
  /\ \A t \in Thread : pc[t] = "allocate" =>
       key[t] \notin invalidating /\ ~flight[mine[t]].stale
  /\ \A k \in Key : pending[k] # NoFlight =>
       \E t \in Thread : pc[t] = "allocate" /\ key[t] = k /\ pending[k] = mine[t]

DoomInv ==
  /\ \A k \in Key : k \in invalidating /\ entries[k] # NoFlight => Doomed(k)
  /\ \A t \in Thread :
       pc[t] \in {"build", "publish"} /\ entries[key[t]] # NoFlight => Doomed(key[t])

(* Built after every invalidation of the key that has returned or begun. *)
Fresh(k, b) ==
  /\ b > settled[k]
  /\ \A u \in Thread : Invalidates(u) /\ k \in scope[u] => b > floor[u]

ClockInv ==
  /\ \A k \in Key : settled[k] =< sequence
  /\ \A t \in Thread : floor[t] =< sequence
  /\ \A f \in Flight : flight[f].birth =< sequence + 1
  /\ \A t \in Thread : Calls(t) => floor[t] =< settled[key[t]]

EntryInv ==
  /\ \A k \in Key : entries[k] # NoFlight =>
       /\ flight[entries[k]].birth > settled[k]
       /\ \A u \in Thread : Invalidates(u) /\ k \in scope[u] =>
            flight[entries[k]].birth > floor[u] \/ HasToRemove(u, k)
  /\ \A t \in Thread : lease[t] # NoFlight => entries[key[t]] = lease[t]

(* A flight that waiters may still join is stale or fresh, and what it hands  *)
(* to those that wait is fresh enough for each.                               *)
FlightInv ==
  /\ \A k \in Key : inFlight[k] # NoFlight =>
       /\ ~flight[inFlight[k]].completed
       /\ flight[inFlight[k]].birth > 0 =>
            flight[inFlight[k]].stale \/ Fresh(k, flight[inFlight[k]].birth)
  /\ \A t \in Thread : direct[t] # NoFlight => flight[direct[t]].birth > floor[t]
  /\ \A t \in Thread : pc[t] \in {"publish", "allocate"} => flight[mine[t]].birth > 0
  /\ \A t \in Thread : pc[t] = "leave" \/ (LookingUp(t) /\ stage[t] = "waiter") =>
       flight[mine[t]].completed
  /\ \A t \in Thread :
       /\ stage[t] = "waiter" /\ mine[t] # NoFlight
       /\ flight[mine[t]].completed /\ flight[mine[t]].error = "none"
       => /\ flight[mine[t]].success # NoFlight
          /\ flight[flight[mine[t]].success].birth > floor[t]

(* The value a call has pinned. *)
Pinned(t) ==
  CASE pc[t] \in {"complete", "leave", "held"} -> Result(t)
    [] pc[t] = "allocate" -> mine[t]
    [] OTHER -> direct[t]
PinsInv ==
  \A f \in Flight : flight[f].pins >= Cardinality({t \in Thread : Pinned(t) = f})

(* A live call that has registered with an unfinished flight is a consumer.  *)
ConsumersInv ==
  \A t \in Thread :
    /\ mine[t] # NoFlight /\ (pc[t] = "register" => stage[t] = "owner")
    /\ ~cancelled[t] /\ ~flight[mine[t]].completed
    => t \in flight[mine[t]].consumers

CacheInv ==
  IsTyped /\ PlaceInv /\ OwnerInv /\ PendingInv /\ DoomInv /\ ClockInv /\ EntryInv /\ FlightInv
  /\ PinsInv /\ ConsumersInv
-----------------------------------------------------------------------------
(* Flight records. *)

Records == [Flight -> LooseRecord]

LEMMA NewRecordIsTyped ==
  /\ NewFlightRecord \in LooseRecord
  /\ \A t \in Thread : [NewFlightRecord EXCEPT !.consumers = {t}] \in LooseRecord
<1>1. 0 \in 0..(MaxInvalidations + 1) /\ NoFlight \in Slots /\ "none" \in Errors
  BY PixelCacheConstants DEF Slots, Errors
<1>2. NewFlightRecord \in LooseRecord
  BY <1>1 DEF NewFlightRecord, LooseRecord
<1> QED BY <1>2 DEF LooseRecord

LEMMA AnyKeyInKey == AnyKey \in Key
BY PixelCacheConstants DEF AnyKey

(* What the helpers do to the records. *)
SameButPins(r, q) ==
  /\ r.consumers = q.consumers /\ r.cancelled = q.cancelled /\ r.stale = q.stale
  /\ r.completed = q.completed /\ r.error = q.error /\ r.success = q.success
  /\ r.birth = q.birth

LEMMA PinFacts ==
  ASSUME NEW F \in Records, NEW v \in Slots
  PROVE  /\ Pin(F, v) \in Records /\ Unpin(F, v) \in Records
         /\ \A f \in Flight :
              /\ SameButPins(Pin(F, v)[f], F[f]) /\ SameButPins(Unpin(F, v)[f], F[f])
              /\ Pin(F, v)[f].pins = IF f = v THEN F[f].pins + 1 ELSE F[f].pins
              /\ Unpin(F, v)[f].pins = IF f = v THEN F[f].pins - 1 ELSE F[f].pins
<1>1. \A f \in Flight : F[f] \in LooseRecord /\ f # NoFlight
  BY PixelCacheConstants DEF Records
<1>2. /\ Pin(F, v) = [F EXCEPT ![v] = [F[v] EXCEPT !.pins = F[v].pins + 1]]
      /\ Unpin(F, v) = IF v = NoFlight THEN F
                       ELSE [F EXCEPT ![v] = [F[v] EXCEPT !.pins = F[v].pins - 1]]
  BY DEF Pin, Unpin
<1>3. \A f \in Flight : /\ [F[f] EXCEPT !.pins = F[f].pins + 1] \in LooseRecord
                        /\ [F[f] EXCEPT !.pins = F[f].pins - 1] \in LooseRecord
  BY <1>1 DEF LooseRecord
<1>4. Pin(F, v) \in Records /\ Unpin(F, v) \in Records
  <2>1. CASE v \in Flight
    BY <1>1, <1>2, <1>3, <2>1 DEF Records
  <2>2. CASE v \notin Flight
    BY <1>1, <1>2, <2>2 DEF Records
  <2> QED BY <2>1, <2>2
<1>5. ASSUME NEW f \in Flight
      PROVE  /\ Pin(F, v)[f] = IF f = v THEN [F[f] EXCEPT !.pins = F[f].pins + 1] ELSE F[f]
             /\ Unpin(F, v)[f] = IF f = v THEN [F[f] EXCEPT !.pins = F[f].pins - 1] ELSE F[f]
  BY <1>1, <1>2 DEF Records
<1> QED BY <1>1, <1>4, <1>5 DEF LooseRecord, SameButPins

SameButConsumers(r, q) ==
  /\ r.stale = q.stale /\ r.completed = q.completed /\ r.error = q.error
  /\ r.success = q.success /\ r.birth = q.birth /\ r.pins = q.pins

LEMMA ReleaseFacts ==
  ASSUME NEW F \in Records, NEW g \in Flight, NEW t \in Thread
  PROVE  /\ Release(F, g, t) \in Records
         /\ \A f \in Flight : SameButConsumers(Release(F, g, t)[f], F[f])
         /\ \A f \in Flight \ {g} : Release(F, g, t)[f] = F[f]
         /\ Release(F, g, t)[g].consumers = F[g].consumers \ {t}
         /\ Release(F, g, t)[g].cancelled = (F[g].cancelled \/ F[g].consumers = {t})
<1> DEFINE r == [F[g] EXCEPT !.consumers = @ \ {t},
                             !.cancelled = @ \/ F[g].consumers = {t}]
<1>1. F[g] \in LooseRecord /\ r \in LooseRecord
  BY DEF Records, LooseRecord
<1>2. Release(F, g, t) = [F EXCEPT ![g] = r]
  BY DEF Release, Records
<1>3. SameButConsumers(r, F[g]) /\ r.consumers = F[g].consumers \ {t}
      /\ r.cancelled = (F[g].cancelled \/ F[g].consumers = {t})
  BY <1>1 DEF SameButConsumers, LooseRecord
<1>4. /\ \A f \in Flight \ {g} : Release(F, g, t)[f] = F[f]
      /\ Release(F, g, t)[g] = r /\ Release(F, g, t) \in Records
  BY <1>1, <1>2 DEF Records
<1>5. \A f \in Flight : SameButConsumers(F[f], F[f])
  BY DEF SameButConsumers
<1> QED BY <1>3, <1>4, <1>5

(* A flight is as F says, or dropped and new. *)
LEMMA FlightsKeep ==
  ASSUME NEW F \in Records, Flights(F)
  PROVE  /\ flight' \in Records
         /\ \A f \in Flight :
              \/ flight'[f] = F[f]
              \/ /\ flight'[f] = NewFlightRecord /\ ~Named(f)'
                 /\ \A g \in Flight : Named(g)' => F[g].success # f
<1> DEFINE named == {f \in Flight : Named(f)'}
<1>1. flight' = [f \in Flight |-> IF f \in named \/ \E g \in named : F[g].success = f
                                  THEN F[f] ELSE NewFlightRecord]
  BY DEF Flights
<1>2. flight' \in Records
  BY <1>1, NewRecordIsTyped DEF Records
<1>3. \A g \in Flight : g \in named <=> Named(g)'
  OBVIOUS
<1> HIDE DEF named
<1> QED BY <1>1, <1>2, <1>3

(* The part of a record that only the owner and the invalidations change.    *)
SameCore(r, q) ==
  /\ r.stale = q.stale /\ r.completed = q.completed /\ r.error = q.error
  /\ r.success = q.success /\ r.birth = q.birth
Keeps ==
  \A f \in Flight :
    \/ SameCore(flight'[f], flight[f])
    \/ /\ flight'[f] = NewFlightRecord /\ ~Named(f)'
       /\ \A g \in Flight : Named(g)' => flight[g].success # f

CoreRecords == {F \in Records : \A f \in Flight : SameCore(F[f], flight[f])}

LEMMA CoreRecordsFacts ==
  ASSUME FlightTypes
  PROVE  /\ flight \in CoreRecords
         /\ \A F \in CoreRecords, v \in Slots : Pin(F, v) \in CoreRecords /\ Unpin(F, v) \in CoreRecords
         /\ \A F \in CoreRecords, g \in Flight, t \in Thread : Release(F, g, t) \in CoreRecords
<1>1. flight \in CoreRecords
  BY DEF CoreRecords, FlightTypes, Records, SameCore
<1>2. ASSUME NEW F \in CoreRecords, NEW v \in Slots
      PROVE  Pin(F, v) \in CoreRecords /\ Unpin(F, v) \in CoreRecords
  <2>1. F \in Records /\ \A f \in Flight : SameCore(F[f], flight[f])
    BY DEF CoreRecords
  <2>2. /\ Pin(F, v) \in Records /\ Unpin(F, v) \in Records
        /\ \A f \in Flight : /\ SameButPins(Pin(F, v)[f], F[f])
                             /\ SameButPins(Unpin(F, v)[f], F[f])
    BY <2>1, PinFacts
  <2> QED BY <2>1, <2>2 DEF CoreRecords, SameCore, SameButPins
<1>3. ASSUME NEW F \in CoreRecords, NEW g \in Flight, NEW t \in Thread
      PROVE  Release(F, g, t) \in CoreRecords
  <2>1. F \in Records /\ \A f \in Flight : SameCore(F[f], flight[f])
    BY DEF CoreRecords
  <2>2. /\ Release(F, g, t) \in Records
        /\ \A f \in Flight : SameButConsumers(Release(F, g, t)[f], F[f])
    BY <2>1, ReleaseFacts
  <2> QED BY <2>1, <2>2 DEF CoreRecords, SameCore, SameButConsumers
<1> QED BY <1>1, <1>2, <1>3

LEMMA CoreKeeps ==
  ASSUME FlightTypes, NEW F \in CoreRecords, flight' = F \/ Flights(F)
  PROVE  flight' \in Records /\ Keeps
<1>1. F \in Records /\ \A f \in Flight : SameCore(F[f], flight[f])
  BY DEF CoreRecords
<1>2. CASE flight' = F
  BY <1>1, <1>2 DEF Keeps
<1>3. CASE Flights(F)
  <2>1. /\ flight' \in Records
        /\ \A f \in Flight :
             \/ flight'[f] = F[f]
             \/ /\ flight'[f] = NewFlightRecord /\ ~Named(f)'
                /\ \A g \in Flight : Named(g)' => F[g].success # f
    BY <1>1, <1>3, FlightsKeep
  <2>2. \A g \in Flight : F[g].success = flight[g].success
    BY <1>1 DEF SameCore
  <2> QED BY <1>1, <2>1, <2>2 DEF Keeps
<1> QED BY <1>2, <1>3

LEMMA EndsKeep ==
  ASSUME IsTyped, NEW t \in Thread, NEW F \in CoreRecords, NEW d, Ends(t, F, d),
         stage[t] = "waiter" => mine[t] # NoFlight
  PROVE  flight' \in Records /\ Keeps
<1>1. CASE stage[t] = "waiter"
  <2>1. mine[t] \in Flight
    BY <1>1 DEF IsTyped, CallTypes, Slots
  <2>2. Release(F, mine[t], t) \in CoreRecords
    BY <2>1, CoreRecordsFacts DEF IsTyped
  <2> QED BY <1>1, <2>2, CoreKeeps DEF Ends, IsTyped
<1>2. CASE stage[t] # "waiter"
  BY <1>2, CoreKeeps DEF Ends, IsTyped
<1> QED BY <1>1, <1>2

(* Every step but the four that found, start, complete or mark a flight.     *)
QuietStep(t) ==
  \/ Probe(t) \/ Acquire(t) \/ Recheck(t) \/ Register(t) \/ BuilderReturns(t) \/ Publish(t)
  \/ Allocate(t) \/ Leave(t) \/ Wait(t) \/ Finish(t) \/ InvalidateUnmark(t)
  \/ InvalidateReturn(t) \/ ShutdownRelease(t) \/ ShutdownReturn(t) \/ ShutdownMark(t)
  \/ CancelToken(t) \/ HookFires(t)
  \/ \E k \in Key : InvalidateRemove(t, k) \/ ShutdownCheck(t, k) \/ Start(t, k)
Quiet == SetBudget \/ (\E k \in Key : FailureExpires(k)) \/ \E t \in Thread : QuietStep(t)

LEMMA QuietKeeps ==
  ASSUME IsTyped, PlaceInv, Quiet
  PROVE  flight' \in Records /\ Keeps
<1> USE DEF IsTyped
<1>1. CASE SetBudget \/ \E k \in Key : FailureExpires(k)
  BY <1>1, CoreRecordsFacts, CoreKeeps DEF SetBudget, FailureExpires
<1>2. ASSUME NEW t \in Thread, QuietStep(t) PROVE flight' \in Records /\ Keeps
  <2>1. /\ mine[t] \in Slots /\ lease[t] \in Slots /\ direct[t] \in Slots /\ Result(t) \in Slots
        /\ mine[t] # NoFlight => mine[t] \in Flight
    BY DEF CallTypes, Slots, Result
  <2>2. Place(t)
    BY DEF PlaceInv
  <2>3. LookingUp(t) /\ stage[t] = "waiter" => mine[t] # NoFlight
    BY <2>2 DEF Place
  <2>4. CASE Miss(t) /\ LookingUp(t)
    BY <2>3, <2>4, EndsKeep, CoreRecordsFacts DEF Miss
  <2>5. CASE LookupFails(t) /\ LookingUp(t)
    BY <2>1, <2>3, <2>5, EndsKeep, CoreRecordsFacts DEF LookupFails
  <2>6. CASE Hit(t) /\ LookingUp(t)
    <3>1. Unpin(Pin(flight, lease[t]), direct[t]) \in CoreRecords
      BY <2>1, CoreRecordsFacts
    <3> QED BY <2>3, <2>6, <3>1, EndsKeep DEF Hit
  <2>7. CASE \/ UNCHANGED flight \/ Flights(flight)
    BY <2>7, CoreRecordsFacts, CoreKeeps
  <2>8. CASE Probe(t) \/ Acquire(t) \/ Recheck(t)
    BY <2>4, <2>5, <2>6, <2>7, <2>8 DEF Probe, Acquire, Recheck, LookingUp
  <2>9. CASE Register(t)
    <3>1. mine[t] \in Flight
      BY <2>1, <2>2, <2>9 DEF Register, Place
    <3>2. flight[mine[t]] \in LooseRecord
      BY <3>1 DEF FlightTypes
    <3> DEFINE r == [flight[mine[t]] EXCEPT !.consumers = @ \cup {t}]
    <3>3. r \in LooseRecord /\ SameCore(r, flight[mine[t]])
      BY <3>2 DEF LooseRecord, SameCore
    <3>4. flight' = [flight EXCEPT ![mine[t]] = r]
      BY <2>9 DEF Register
    <3>5. flight' \in Records
      BY <3>1, <3>3, <3>4 DEF FlightTypes, Records
    <3>6. \A f \in Flight : SameCore(flight'[f], flight[f])
      BY <3>1, <3>3, <3>4 DEF FlightTypes, SameCore
    <3> QED BY <3>5, <3>6 DEF Keeps
  <2>10. CASE Publish(t)
    BY <2>1, <2>7, <2>10, CoreRecordsFacts, CoreKeeps DEF Publish
  <2>11. CASE Leave(t)
    <3>1. mine[t] \in Flight
      BY <2>1, <2>2, <2>11 DEF Leave, Place
    <3>2. Release(flight, mine[t], t) \in CoreRecords
      BY <3>1, CoreRecordsFacts
    <3>3. Unpin(Release(flight, mine[t], t), Result(t)) \in CoreRecords
      BY <2>1, <3>2, CoreRecordsFacts
    <3> QED BY <2>11, <3>2, <3>3, CoreKeeps DEF Leave
  <2>12. CASE Wait(t)
    <3>1. mine[t] \in Flight
      BY <2>1, <2>2, <2>12 DEF Wait, Place
    <3>2. Release(flight, mine[t], t) \in CoreRecords
      BY <3>1, CoreRecordsFacts
    <3>3. flight[mine[t]].success \in Slots
      BY <3>1 DEF FlightTypes, LooseRecord
    <3>4. Pin(flight, flight[mine[t]].success) \in CoreRecords
      BY <3>3, CoreRecordsFacts
    <3> QED BY <2>12, <3>2, <3>4, CoreKeeps DEF Wait, StopWaiting
  <2>13. CASE Finish(t)
    BY <2>1, <2>13, CoreRecordsFacts, CoreKeeps DEF Finish
  <2>14. CASE HookFires(t)
    BY <2>1, <2>14, CoreRecordsFacts, CoreKeeps DEF HookFires
  <2>15. CASE \/ ShutdownRelease(t) \/ Allocate(t) \/ \E k \in Key : InvalidateRemove(t, k)
    BY <2>7, <2>15 DEF Allocate, ShutdownRelease, InvalidateRemove, Remove
  <2>16. CASE \/ BuilderReturns(t) \/ InvalidateUnmark(t) \/ InvalidateReturn(t)
              \/ ShutdownReturn(t) \/ ShutdownMark(t) \/ CancelToken(t)
              \/ \E k \in Key : ShutdownCheck(t, k) \/ Start(t, k)
    BY <2>7, <2>16 DEF BuilderReturns, InvalidateUnmark, InvalidateReturn, ShutdownReturn,
       ShutdownMark, CancelToken, ShutdownCheck, Start, callVars
  <2> QED BY <1>2, <2>8, <2>9, <2>10, <2>11, <2>12, <2>13, <2>14, <2>15, <2>16 DEF QuietStep
<1> QED BY <1>1, <1>2 DEF Quiet

(* The four steps that are not quiet. *)

RefusedByJoin(t) ==
  /\ pc' = [pc EXCEPT ![t] = "failed"] /\ \E e \in {"Shutdown", "SuppressedFailure"} : err' = [err EXCEPT ![t] = e]
  /\ UNCHANGED <<inFlight, flight, mine, stage>>
JoinsFlight(t) ==
  /\ inFlight[key[t]] # NoFlight
  /\ pc' = [pc EXCEPT ![t] = "register"] /\ stage' = [stage EXCEPT ![t] = "waiter"]
  /\ mine' = [mine EXCEPT ![t] = inFlight[key[t]]] /\ UNCHANGED <<err, inFlight, flight>>
FoundsFlight(t) ==
  /\ inFlight[key[t]] = NoFlight /\ NewFlight \in Flight /\ ~Referenced(NewFlight)
  /\ pc' = [pc EXCEPT ![t] = "register"] /\ stage' = [stage EXCEPT ![t] = "owner"]
  /\ mine' = [mine EXCEPT ![t] = NewFlight]
  /\ inFlight' = [inFlight EXCEPT ![key[t]] = NewFlight] /\ UNCHANGED err
  /\ flight'[NewFlight] = [NewFlightRecord EXCEPT !.consumers = {t}]
  /\ \A f \in Flight \ {NewFlight} : flight'[f] = flight[f]

LEMMA JoinFacts ==
  ASSUME IsTyped, NEW t \in Thread, Join(t)
  PROVE  /\ flight' \in Records /\ pc[t] = "join"
         /\ UNCHANGED <<residentVars, failures, sequence, shutdown, publication, key, lease,
                        direct, callVars>>
         /\ RefusedByJoin(t) \/ JoinsFlight(t) \/ FoundsFlight(t)
<1>1. flight \in Records
  BY DEF IsTyped, FlightTypes, Records
<1>2. CASE shutdown \/ key[t] \in failures
  BY <1>1, <1>2 DEF Join, RefusedByJoin, Set, Goto
<1>3. CASE ~shutdown /\ key[t] \notin failures /\ inFlight[key[t]] # NoFlight
  BY <1>1, <1>3 DEF Join, JoinsFlight, JoinFlight, Set, Goto
<1>4. CASE ~shutdown /\ key[t] \notin failures /\ inFlight[key[t]] = NoFlight
  <2>1. NewFlight \in Flight /\ ~Referenced(NewFlight)
    BY <1>4 DEF Join, JoinFlight, NewFlight
  <2> DEFINE r == [NewFlightRecord EXCEPT !.consumers = {t}]
  <2>2. r \in LooseRecord
    BY NewRecordIsTyped
  <2>3. flight' = [flight EXCEPT ![NewFlight] = r]
    BY <1>4 DEF Join, JoinFlight
  <2> HIDE DEF r
  <2>4. /\ flight' \in Records /\ flight'[NewFlight] = r
        /\ \A f \in Flight \ {NewFlight} : flight'[f] = flight[f]
    BY <1>1, <2>1, <2>2, <2>3 DEF Records
  <2> QED BY <1>4, <2>1, <2>4 DEF r, Join, FoundsFlight, Set, Goto, JoinFlight
<1> QED BY <1>2, <1>3, <1>4

LEMMA BuildFlights ==
  ASSUME IsTyped, PlaceInv, NEW t \in Thread, StartBuild(t)
  PROVE  /\ flight' \in Records /\ mine[t] \in Flight
         /\ \A f \in Flight \ {mine[t]} : flight'[f] = flight[f]
         /\ \/ UNCHANGED flight
            \/ /\ flight[mine[t]].birth = 0 /\ ~flight[mine[t]].cancelled
               /\ flight'[mine[t]] = [flight[mine[t]] EXCEPT !.birth = sequence + 1]
<1>1. mine[t] \in Flight
  BY DEF IsTyped, CallTypes, PlaceInv, Place, StartBuild, Slots
<1>2. CASE UNCHANGED flight
  BY <1>1, <1>2 DEF IsTyped, FlightTypes, Records
<1>3. CASE ~flight[mine[t]].cancelled /\ flight' = [flight EXCEPT ![mine[t]].birth = sequence + 1]
  <2>1. flight[mine[t]] \in LooseRecord
    BY <1>1 DEF IsTyped, FlightTypes
  <2>2. sequence + 1 \in 0..(MaxInvalidations + 1)
    BY PixelCacheConstants DEF IsTyped, CacheTypes
  <2> DEFINE r == [flight[mine[t]] EXCEPT !.birth = sequence + 1]
  <2>3. r \in LooseRecord
    BY <2>1, <2>2 DEF LooseRecord
  <2>4. flight' = [flight EXCEPT ![mine[t]] = r]
    BY <1>3
  <2> HIDE DEF r
  <2>5. /\ flight' \in Records /\ flight'[mine[t]] = r
        /\ \A f \in Flight \ {mine[t]} : flight'[f] = flight[f]
    BY <1>1, <2>3, <2>4 DEF IsTyped, FlightTypes, Records
  <2> QED BY <1>1, <1>3, <2>5 DEF r, StartBuild
<1> QED BY <1>2, <1>3 DEF StartBuild

LEMMA MarkFlights ==
  ASSUME IsTyped, NEW t \in Thread, NEW S \in SUBSET Key, InvalidateMark(t, S)
  PROVE  /\ flight' \in Records
         /\ \A f \in Flight :
              /\ flight'[f].consumers = flight[f].consumers
              /\ flight'[f].cancelled = flight[f].cancelled
              /\ flight'[f].completed = flight[f].completed
              /\ flight'[f].error = flight[f].error /\ flight'[f].success = flight[f].success
              /\ flight'[f].birth = flight[f].birth /\ flight'[f].pins = flight[f].pins
         /\ \A f \in Flight :
              flight'[f].stale <=> flight[f].stale \/ \E k \in S : inFlight[k] = f
<1>1. flight' = MarkStale(S)
  BY DEF InvalidateMark
<1>2. \A f \in Flight : flight[f] \in LooseRecord
  BY DEF IsTyped, FlightTypes
<1>3. ASSUME NEW f \in Flight
      PROVE  /\ flight'[f] \in LooseRecord
             /\ flight'[f].consumers = flight[f].consumers
             /\ flight'[f].cancelled = flight[f].cancelled
             /\ flight'[f].completed = flight[f].completed
             /\ flight'[f].error = flight[f].error /\ flight'[f].success = flight[f].success
             /\ flight'[f].birth = flight[f].birth /\ flight'[f].pins = flight[f].pins
             /\ flight'[f].stale <=> flight[f].stale \/ \E k \in S : inFlight[k] = f
  BY <1>1, <1>2 DEF MarkStale, LooseRecord
<1>4. flight' \in Records
  BY <1>1, <1>3 DEF MarkStale, Records
<1> QED BY <1>3, <1>4

(* The error an owner completes with, and the flight it completes.           *)
Outcome(t) == IF BecameStale(t) THEN "StalePublication" ELSE err[t]

LEMMA CompleteFlights ==
  ASSUME IsTyped, PlaceInv, NEW t \in Thread, Complete(t)
  PROVE  \E F \in Records :
           /\ Flights(F) /\ mine[t] \in Flight
           /\ \A f \in Flight :
                /\ F[f].consumers = flight[f].consumers /\ F[f].cancelled = flight[f].cancelled
                /\ F[f].stale = flight[f].stale /\ F[f].birth = flight[f].birth
                /\ F[f].pins = IF BecameStale(t) /\ f = Result(t) THEN flight[f].pins - 1
                                                                  ELSE flight[f].pins
                /\ f # mine[t] => /\ F[f].completed = flight[f].completed
                                  /\ F[f].error = flight[f].error
                                  /\ F[f].success = flight[f].success
           /\ F[mine[t]].completed /\ F[mine[t]].error = Outcome(t)
           /\ F[mine[t]].success = IF Outcome(t) = "none" THEN Result(t) ELSE NoFlight
<1> DEFINE G == IF BecameStale(t) THEN Unpin(flight, Result(t)) ELSE flight
           v == IF Outcome(t) = "none" THEN Result(t) ELSE NoFlight
           F == CompleteFlight(G, mine[t], Outcome(t), v)
           r == [G[mine[t]] EXCEPT !.completed = TRUE, !.error = Outcome(t), !.success = v]
<1>1. mine[t] \in Flight /\ Result(t) \in Slots /\ v \in Slots /\ NoFlight \notin Flight
  BY PixelCacheConstants DEF IsTyped, CallTypes, PlaceInv, Place, Complete, Slots, Result
<1>2. Outcome(t) \in Errors
  BY DEF IsTyped, CallTypes, Outcome, Errors
<1>3. /\ G \in Records
      /\ \A f \in Flight :
           /\ SameButPins(G[f], flight[f])
           /\ G[f].pins = IF BecameStale(t) /\ f = Result(t) THEN flight[f].pins - 1
                                                             ELSE flight[f].pins
  <2>1. flight \in Records
    BY DEF IsTyped, FlightTypes, Records
  <2>2. \A f \in Flight : SameButPins(flight[f], flight[f])
    BY DEF SameButPins
  <2>3. CASE BecameStale(t)
    BY <1>1, <2>1, <2>3, PinFacts
  <2>4. CASE ~BecameStale(t)
    BY <2>1, <2>2, <2>4
  <2> QED BY <2>3, <2>4
<1>4. Flights(F)
  BY DEF Complete, Outcome
<1> HIDE DEF G, v
<1>5. G[mine[t]] \in LooseRecord
  BY <1>1, <1>3 DEF Records
<1>6. r \in LooseRecord
  BY <1>1, <1>2, <1>5 DEF LooseRecord
<1>7. F = [G EXCEPT ![mine[t]] = r]
  BY DEF CompleteFlight
<1>8. /\ r.consumers = G[mine[t]].consumers /\ r.cancelled = G[mine[t]].cancelled
      /\ r.stale = G[mine[t]].stale /\ r.birth = G[mine[t]].birth /\ r.pins = G[mine[t]].pins
      /\ r.completed /\ r.error = Outcome(t) /\ r.success = v
  BY <1>5 DEF LooseRecord
<1> HIDE DEF F, r
<1>9. /\ F \in Records /\ F[mine[t]] = r
      /\ \A f \in Flight \ {mine[t]} : F[f] = G[f]
  BY <1>1, <1>3, <1>6, <1>7 DEF Records
<1>10. ASSUME NEW f \in Flight
       PROVE  /\ F[f].consumers = flight[f].consumers /\ F[f].cancelled = flight[f].cancelled
              /\ F[f].stale = flight[f].stale /\ F[f].birth = flight[f].birth
              /\ F[f].pins = IF BecameStale(t) /\ f = Result(t) THEN flight[f].pins - 1
                                                                ELSE flight[f].pins
              /\ f # mine[t] => /\ F[f].completed = flight[f].completed
                                /\ F[f].error = flight[f].error
                                /\ F[f].success = flight[f].success
  <2>1. SameButPins(G[f], flight[f])
    BY <1>3
  <2>2. CASE f = mine[t]
    BY <1>3, <1>8, <1>9, <2>1, <2>2 DEF SameButPins
  <2>3. CASE f # mine[t]
    BY <1>3, <1>9, <2>1, <2>3 DEF SameButPins
  <2> QED BY <2>2, <2>3
<1> QED BY <1>1, <1>4, <1>8, <1>9, <1>10 DEF v

-----------------------------------------------------------------------------
(* Types, and what a step leaves alone. *)

StepOf(t) == Step(t) \/ Call(t) \/ CancelToken(t) \/ HookFires(t)

LEMMA NextIsAStep ==
  ASSUME Next
  PROVE  \/ Quiet
         \/ \E t \in Thread : \/ Join(t) \/ StartBuild(t) \/ Complete(t)
                              \/ \E S \in SUBSET Key : InvalidateMark(t, S)
<1>1. CASE SetBudget \/ \E k \in Key : FailureExpires(k)
  BY <1>1 DEF Quiet
<1>2. ASSUME NEW t \in Thread, StepOf(t)
      PROVE  \/ QuietStep(t) \/ Join(t) \/ StartBuild(t) \/ Complete(t)
             \/ \E S \in SUBSET Key : InvalidateMark(t, S)
  BY <1>2 DEF StepOf, Step, Call, QuietStep
<1> QED BY <1>1, <1>2 DEF Next, Quiet, StepOf

(* The steps of a thread leave the calls of the others alone. *)
CallOf(t) ==
  <<pc[t], stage[t], key[t], mine[t], lease[t], direct[t], err[t], todo[t], scope[t], floor[t]>>
Others(t) ==
  \A u \in Thread \ {t} :
    /\ pc'[u] = pc[u] /\ stage'[u] = stage[u] /\ key'[u] = key[u] /\ mine'[u] = mine[u]
    /\ lease'[u] = lease[u] /\ direct'[u] = direct[u] /\ err'[u] = err[u]
    /\ todo'[u] = todo[u] /\ scope'[u] = scope[u] /\ floor'[u] = floor[u]
    /\ cancelled'[u] = cancelled[u]

LEMMA CallsAreTyped ==
  ASSUME IsTyped, PlaceInv, NEW t \in Thread, StepOf(t)
  PROVE  Others(t) /\ CallTypes'
<1> USE DEF IsTyped, CallTypes, Set, Goto
<1>1. AnyKey \in Key /\ NoFlight \in Slots
  BY AnyKeyInKey DEF Slots
<1> USE DEF Others, PC, Stage, Errors
<1>2. CASE /\ Miss(t) \/ Hit(t) \/ LookupFails(t)
           /\ UNCHANGED <<stage, key, todo, scope, floor, cancelled>>
  BY <1>1, <1>2 DEF Miss, Hit, LookupFails, Ends
<1>3. CASE Probe(t) \/ Acquire(t) \/ Recheck(t)
  <2>1. UNCHANGED <<stage, key, todo, scope, floor, cancelled>>
    BY <1>3 DEF Probe, Acquire, Recheck, callVars
  <2>2. CASE Miss(t) \/ Hit(t) \/ LookupFails(t)
    BY <1>2, <2>1, <2>2
  <2>3. CASE /\ Goto(t, "acquire") \/ Goto(t, "recheck")
             /\ lease' = lease \/ lease' = Set(lease, t, entries[key[t]])
             /\ UNCHANGED <<publication, mine, direct, err>>
    BY <1>1, <2>1, <2>3 DEF CacheTypes
  <2> QED BY <1>3, <2>2, <2>3 DEF Probe, Acquire, Recheck
<1>4. CASE \E k \in Key : Start(t, k)
  BY <1>1, <1>4 DEF Start, CacheTypes
<1>5. CASE Join(t)
  <2>1. mine' \in [Thread -> Slots] /\ \A u \in Thread \ {t} : mine'[u] = mine[u]
    <3>1. inFlight[key[t]] \in Slots
      BY DEF CacheTypes
    <3>2. RefusedByJoin(t) \/ JoinsFlight(t) \/ FoundsFlight(t)
      BY <1>5, JoinFacts
    <3>3. CASE RefusedByJoin(t)
      BY <3>3 DEF RefusedByJoin
    <3>4. CASE JoinsFlight(t)
      BY <3>1, <3>4 DEF JoinsFlight
    <3>5. CASE FoundsFlight(t)
      BY <3>5 DEF FoundsFlight, Slots
    <3> QED BY <3>2, <3>3, <3>4, <3>5
  <2> QED BY <1>1, <1>5, <2>1 DEF Join, callVars
<1>6. CASE Register(t) \/ StartBuild(t) \/ BuilderReturns(t)
  BY <1>1, <1>6 DEF Register, StartBuild, BuilderReturns, Fails, callVars
<1>7. CASE Publish(t) \/ Allocate(t)
  BY <1>1, <1>7 DEF Publish, Allocate, Fails, callVars
<1>8. CASE Complete(t)
  BY <1>1, <1>8 DEF Complete, callVars
<1>9. CASE Leave(t) \/ Wait(t)
  <2>1. mine[t] \in Flight => flight[mine[t]].success \in Slots
                              /\ flight[mine[t]].error \in Errors
    BY DEF FlightTypes, LooseRecord
  <2>2. mine[t] \in Flight
    BY <1>9 DEF Leave, Wait, PlaceInv, Place, Slots
  <2> QED BY <1>1, <1>9, <2>1, <2>2 DEF Leave, Wait, StopWaiting, callVars
<1>10. CASE Finish(t)
  BY <1>1, <1>10, PixelCacheConstants DEF Finish
<1>11. CASE \E S \in SUBSET Key \ {{}} : InvalidateMark(t, S)
  <2>1. PICK S \in SUBSET Key : InvalidateMark(t, S)
    BY <1>11
  <2>2. sequence + 1 \in 0..MaxInvalidations /\ Resident(S) \in SUBSET Key
    BY <2>1, PixelCacheConstants DEF InvalidateMark, CacheTypes, Resident
  <2> QED BY <1>1, <2>1, <2>2 DEF InvalidateMark
<1>12. CASE \/ InvalidateUnmark(t) \/ InvalidateReturn(t) \/ ShutdownRelease(t)
            \/ ShutdownReturn(t) \/ CancelToken(t) \/ HookFires(t)
  <2>1. CASE InvalidateUnmark(t) \/ ShutdownRelease(t)
    BY <1>1, <2>1 DEF InvalidateUnmark, ShutdownRelease, callVars
  <2>2. CASE InvalidateReturn(t)
    BY <1>1, <2>2, PixelCacheConstants DEF InvalidateReturn
  <2>3. CASE ShutdownReturn(t) \/ CancelToken(t) \/ HookFires(t)
    BY <1>1, <2>3 DEF ShutdownReturn, CancelToken, HookFires, callVars
  <2> QED BY <1>12, <2>1, <2>2, <2>3
<1>13. CASE ShutdownMark(t) \/ \E k \in Key : InvalidateRemove(t, k) \/ ShutdownCheck(t, k)
  <2>1. Resident(Key) \in SUBSET Key
    BY DEF Resident
  <2> QED BY <1>1, <1>13, <2>1 DEF ShutdownMark, InvalidateRemove, ShutdownCheck, callVars
<1> QED BY <1>3, <1>4, <1>5, <1>6, <1>7, <1>8, <1>9, <1>10, <1>11, <1>12, <1>13
        DEF StepOf, Step, Call

LEMMA CacheIsTyped ==
  ASSUME IsTyped, PlaceInv, NEW t \in Thread, StepOf(t)
  PROVE  CacheTypes'
<1> USE DEF IsTyped, CacheTypes, Set
<1>1. /\ NoFlight \in Slots /\ \A S \in SUBSET Key : Evict(S) \in [Key -> Slots]
      /\ mine[t] \in Slots /\ key[t] \in Key /\ floor[t] \in 0..MaxInvalidations
  BY DEF Slots, Evict, CallTypes
<1>2. CASE Probe(t) \/ Acquire(t) \/ Recheck(t)
  BY <1>1, <1>2 DEF Probe, Acquire, Recheck, residentVars, innerVars, callVars
<1>3. CASE (\E k \in Key : Start(t, k)) \/ CancelToken(t) \/ HookFires(t) \/ Finish(t)
  BY <1>3 DEF Start, CancelToken, HookFires, Finish, residentVars, innerVars, callVars
<1>4. CASE Join(t)
  <2>1. UNCHANGED <<residentVars, failures, sequence, shutdown, callVars>>
    BY <1>4, JoinFacts
  <2>2. inFlight' \in [Key -> Slots]
    <3>1. CASE UNCHANGED inFlight
      BY <3>1
    <3>2. CASE FoundsFlight(t)
      BY <1>1, <3>2 DEF FoundsFlight, Slots
    <3> QED BY <1>4, <3>1, <3>2, JoinFacts DEF RefusedByJoin, JoinsFlight
  <2> QED BY <2>1, <2>2 DEF residentVars, callVars
<1>5. CASE Register(t) \/ StartBuild(t) \/ BuilderReturns(t) \/ Leave(t) \/ Wait(t)
  BY <1>5 DEF Register, StartBuild, BuilderReturns, Leave, Wait, residentVars, innerVars, callVars
<1>6. CASE Publish(t)
  <2>1. CASE UNCHANGED <<pending, failures>>
    BY <1>6, <2>1 DEF Publish, callVars
  <2>2. CASE /\ failures' = failures \ {key[t]}
             /\ pending' = pending \/ pending' = Set(pending, key[t], mine[t])
    BY <1>1, <1>6, <2>2 DEF Publish, callVars
  <2> QED BY <1>6, <2>1, <2>2 DEF Publish
<1>7. CASE Allocate(t)
  <2>1. pending' \in [Key -> Slots]
    BY <1>1, <1>7 DEF Allocate
  <2>2. entries' \in [Key -> Slots]
    <3>1. CASE UNCHANGED entries
      BY <3>1
    <3>2. CASE \E S \in SUBSET Evictable : entries' = [Evict(S) EXCEPT ![key[t]] = mine[t]]
      <4>1. PICK S \in SUBSET Key : entries' = [Evict(S) EXCEPT ![key[t]] = mine[t]]
        BY <3>2 DEF Evictable
      <4> QED BY <1>1, <4>1
    <3> QED BY <1>7, <3>1, <3>2 DEF Allocate
  <2> QED BY <1>7, <2>1, <2>2 DEF Allocate, innerVars, callVars
<1>8. CASE Complete(t)
  BY <1>1, <1>8 DEF Complete, residentVars, callVars
<1>9. CASE \E S \in SUBSET Key \ {{}} : InvalidateMark(t, S)
  <2>1. PICK S \in SUBSET Key : InvalidateMark(t, S)
    BY <1>9
  <2>2. sequence + 1 \in 0..MaxInvalidations /\ Resident(S) \in SUBSET Key
    BY <2>1, PixelCacheConstants DEF InvalidateMark, Resident
  <2> QED BY <2>1, <2>2 DEF InvalidateMark
<1>10. CASE \/ InvalidateUnmark(t) \/ ShutdownRelease(t) \/ ShutdownReturn(t) \/ ShutdownMark(t)
            \/ \E k \in Key : InvalidateRemove(t, k) \/ ShutdownCheck(t, k)
  <2>1. CASE InvalidateUnmark(t) \/ ShutdownReturn(t) \/ ShutdownMark(t)
    BY <2>1 DEF InvalidateUnmark, ShutdownReturn, ShutdownMark, innerVars, residentVars, callVars
  <2>2. CASE ShutdownRelease(t)
    BY <1>1, <2>2 DEF ShutdownRelease, Remove, innerVars, callVars
  <2>3. CASE \E k \in Key : InvalidateRemove(t, k)
    BY <1>1, <2>3 DEF InvalidateRemove, Remove, innerVars, callVars
  <2>4. CASE \E k \in Key : ShutdownCheck(t, k)
    BY <2>4 DEF ShutdownCheck, innerVars, residentVars
  <2> QED BY <1>10, <2>1, <2>2, <2>3, <2>4
<1>11. CASE InvalidateReturn(t)
  BY <1>1, <1>11 DEF InvalidateReturn, innerVars, residentVars
<1> QED BY <1>2, <1>3, <1>4, <1>5, <1>6, <1>7, <1>8, <1>9, <1>10, <1>11 DEF StepOf, Step, Call

LEMMA TypesPreserved ==
  ASSUME IsTyped, PlaceInv, Next
  PROVE  IsTyped'
<1>1. CASE SetBudget \/ \E k \in Key : FailureExpires(k)
  <2>1. Oversized \in SUBSET BOOLEAN
    BY PixelCacheConstants
  <2>2. \A S \in SUBSET Key : Evict(S) \in [Key -> Slots]
    BY DEF Evict, IsTyped, CacheTypes, Slots
  <2>3. CallTypes' /\ CacheTypes'
    <3>1. CASE SetBudget
      BY <2>1, <2>2, <3>1 DEF SetBudget, IsTyped, CallTypes, CacheTypes, Evictable, innerVars, callVars
    <3>2. CASE \E k \in Key : FailureExpires(k)
      BY <3>2 DEF FailureExpires, IsTyped, CallTypes, CacheTypes, residentVars, callVars
    <3> QED BY <1>1, <3>1, <3>2
  <2>4. flight' \in Records
    BY <1>1, QuietKeeps DEF Quiet
  <2> QED BY <2>3, <2>4 DEF IsTyped, FlightTypes, Records
<1>2. ASSUME NEW t \in Thread, StepOf(t) PROVE IsTyped'
  <2>1. CallTypes' /\ CacheTypes'
    BY <1>2, CallsAreTyped, CacheIsTyped
  <2>2. flight' \in Records
    <3>1. CASE Complete(t)
      BY <3>1, CompleteFlights, FlightsKeep
    <3>2. CASE \E S \in SUBSET Key : InvalidateMark(t, S)
      BY <3>2, MarkFlights
    <3>3. CASE Join(t) \/ StartBuild(t)
      BY <3>3, JoinFacts, BuildFlights
    <3>4. CASE QuietStep(t)
      BY <3>4, QuietKeeps DEF Quiet
    <3> QED BY <1>2, <3>1, <3>2, <3>3, <3>4 DEF StepOf, Step, Call, QuietStep
  <2> QED BY <2>1, <2>2 DEF IsTyped, FlightTypes, Records
<1> QED BY <1>1, <1>2 DEF Next, StepOf

-----------------------------------------------------------------------------
(* The place of each thread in its call. *)

LEMMA PublicationMoves ==
  ASSUME IsTyped, PlaceInv, NEW t \in Thread, StepOf(t)
  PROVE  /\ \A u \in Thread \ {t} : publication' = u <=> publication = u
         /\ publication' # publication => publication' \in {t, NoThread}
<1>1. NoThread \notin Thread /\ Place(t)
  BY PixelCacheConstants DEF PlaceInv
<1>2. CASE UNCHANGED publication
  BY <1>2
<1>3. CASE (Miss(t) \/ Hit(t) \/ LookupFails(t)) /\ LookingUp(t)
  BY <1>1, <1>3 DEF Miss, Hit, LookupFails, Ends, Place
<1>4. CASE Probe(t) \/ Acquire(t) \/ Recheck(t)
  BY <1>2, <1>3, <1>4 DEF Probe, Acquire, Recheck, LookingUp
<1>5. CASE Publish(t)
  BY <1>1, <1>2, <1>5 DEF Publish
<1>6. CASE Allocate(t)
  BY <1>1, <1>2, <1>6 DEF Allocate, Place
<1>7. CASE ~(Probe(t) \/ Acquire(t) \/ Recheck(t) \/ Publish(t) \/ Allocate(t))
  <2>1. CASE \/ Join(t) \/ Register(t) \/ StartBuild(t) \/ BuilderReturns(t) \/ Complete(t)
             \/ Leave(t) \/ Wait(t) \/ Finish(t) \/ CancelToken(t) \/ HookFires(t)
             \/ \E k \in Key : Start(t, k)
    BY <1>2, <2>1 DEF Join, Register, StartBuild, BuilderReturns, Complete, Leave, Wait, Finish,
       CancelToken, HookFires, Start
  <2>2. CASE \/ InvalidateUnmark(t) \/ InvalidateReturn(t) \/ ShutdownRelease(t)
             \/ ShutdownReturn(t) \/ ShutdownMark(t)
             \/ \E k \in Key : InvalidateRemove(t, k) \/ ShutdownCheck(t, k)
             \/ \E S \in SUBSET Key : InvalidateMark(t, S)
    BY <1>2, <2>2 DEF InvalidateUnmark, InvalidateReturn, ShutdownRelease, ShutdownReturn,
       ShutdownMark, InvalidateRemove, ShutdownCheck, InvalidateMark
  <2> QED BY <1>7, <2>1, <2>2 DEF StepOf, Step, Call
<1> QED BY <1>4, <1>5, <1>6, <1>7

LEMMA OthersKeepPlace ==
  ASSUME IsTyped, PlaceInv, NEW t \in Thread, StepOf(t), NEW u \in Thread \ {t}
  PROVE  Place(u)'
<1>1. Place(u) /\ (publication' = u <=> publication = u)
  BY PublicationMoves DEF PlaceInv
<1>2. /\ pc'[u] = pc[u] /\ stage'[u] = stage[u] /\ key'[u] = key[u] /\ mine'[u] = mine[u]
      /\ lease'[u] = lease[u] /\ direct'[u] = direct[u] /\ err'[u] = err[u] /\ todo'[u] = todo[u]
  BY CallsAreTyped DEF Others
<1> QED BY <1>1, <1>2 DEF Place, Bare, LookingUp, Result

LEMMA LookupKeepsPlace ==
  ASSUME IsTyped, PlaceInv, NEW t \in Thread, Probe(t) \/ Acquire(t) \/ Recheck(t)
  PROVE  Place(t)'
<1> USE DEF IsTyped, CallTypes, Set, Goto, Place, Bare, Result
<1>1. NoThread \notin Thread /\ Place(t) /\ LookingUp(t) /\ stage[t] \in Stage
  BY PixelCacheConstants DEF PlaceInv, Probe, Acquire, Recheck, LookingUp
<1>2. /\ stage'[t] = stage[t] /\ key'[t] = key[t] /\ todo'[t] = todo[t]
  BY DEF Probe, Acquire, Recheck, callVars
<1>3. CASE Miss(t)
  BY <1>1, <1>2, <1>3 DEF Miss, Ends, LookingUp, Stage
<1>4. CASE Hit(t) /\ pc[t] = "recheck"
  BY <1>1, <1>2, <1>4 DEF Hit, Ends, LookingUp, Stage
<1>5. CASE LookupFails(t) /\ pc[t] = "acquire"
  BY <1>1, <1>2, <1>5 DEF LookupFails, Ends, LookingUp, Stage
<1>6. CASE /\ pc[t] = "probe" /\ Goto(t, "acquire")
           /\ UNCHANGED <<publication, mine, lease, direct, err>>
  BY <1>1, <1>2, <1>6 DEF LookingUp
<1>7. CASE /\ pc[t] = "acquire" /\ entries[key[t]] # NoFlight
           /\ lease' = Set(lease, t, entries[key[t]]) /\ Goto(t, "recheck")
           /\ UNCHANGED <<publication, mine, direct, err>>
  BY <1>1, <1>2, <1>7 DEF LookingUp
<1> QED BY <1>3, <1>4, <1>5, <1>6, <1>7 DEF Probe, Acquire, Recheck

LEMMA CallKeepsPlace ==
  ASSUME IsTyped, PlaceInv, NEW t \in Thread,
         \/ Join(t) \/ Register(t) \/ StartBuild(t) \/ BuilderReturns(t) \/ Publish(t)
         \/ Allocate(t) \/ CancelToken(t) \/ HookFires(t) \/ \E k \in Key : Start(t, k)
  PROVE  Place(t)'
<1> USE DEF IsTyped, CallTypes, Set, Goto, Place, Bare, Result
<1>1. NoThread \notin Thread /\ Place(t)
  BY PixelCacheConstants DEF PlaceInv
<1>2. CASE Join(t)
  <2>1. /\ pc[t] = "join" /\ key'[t] = key[t] /\ todo'[t] = todo[t] /\ lease'[t] = lease[t]
        /\ direct'[t] = direct[t] /\ publication' = publication
    BY <1>2 DEF Join, callVars
  <2>2. NewFlight \in Flight => NewFlight # NoFlight
    BY PixelCacheConstants
  <2>3. CASE RefusedByJoin(t)
    BY <1>1, <2>1, <2>3 DEF RefusedByJoin, LookingUp
  <2>4. CASE JoinsFlight(t)
    BY <1>1, <2>1, <2>4 DEF JoinsFlight, LookingUp
  <2>5. CASE FoundsFlight(t)
    BY <1>1, <2>1, <2>2, <2>5 DEF FoundsFlight, LookingUp
  <2> QED BY <1>2, <2>3, <2>4, <2>5, JoinFacts
<1>3. CASE Register(t)
  BY <1>1, <1>3 DEF Register, LookingUp, callVars
<1>4. CASE StartBuild(t) \/ BuilderReturns(t)
  BY <1>1, <1>4 DEF StartBuild, BuilderReturns, Fails, LookingUp, callVars
<1>5. CASE Publish(t)
  BY <1>1, <1>5 DEF Publish, Fails, LookingUp, callVars
<1>6. CASE Allocate(t)
  BY <1>1, <1>6 DEF Allocate, Fails, LookingUp, callVars
<1>7. CASE CancelToken(t) \/ HookFires(t)
  BY <1>1, <1>7 DEF CancelToken, HookFires, LookingUp, callVars
<1>8. CASE \E k \in Key : Start(t, k)
  BY <1>1, <1>8 DEF Start, LookingUp
<1> QED BY <1>2, <1>3, <1>4, <1>5, <1>6, <1>7, <1>8

LEMMA ReturnKeepsPlace ==
  ASSUME IsTyped, PlaceInv, FlightInv, NEW t \in Thread,
         Complete(t) \/ Leave(t) \/ Wait(t) \/ Finish(t)
  PROVE  Place(t)'
<1> USE DEF IsTyped, CallTypes, Set, Goto, Place, Bare, Result
<1>1. NoThread \notin Thread /\ Place(t) /\ stage[t] \in Stage
  BY PixelCacheConstants DEF PlaceInv
<1>2. CASE Complete(t)
  BY <1>1, <1>2 DEF Complete, BecameStale, LookingUp, callVars
<1>3. CASE Leave(t)
  BY <1>1, <1>3 DEF Leave, LookingUp, callVars
<1>4. CASE Wait(t)
  <2>1. /\ flight[mine[t]].completed /\ flight[mine[t]].error = "none"
        => flight[mine[t]].success # NoFlight
    BY <1>1, <1>4 DEF Wait, FlightInv
  <2> QED BY <1>1, <1>4, <2>1 DEF Wait, StopWaiting, LookingUp, callVars
<1>5. CASE Finish(t)
  BY <1>1, <1>5 DEF Finish, LookingUp
<1> QED BY <1>2, <1>3, <1>4, <1>5

LEMMA AdminKeepsPlace ==
  ASSUME IsTyped, PlaceInv, NEW t \in Thread,
         \/ InvalidateUnmark(t) \/ InvalidateReturn(t) \/ ShutdownRelease(t)
         \/ ShutdownReturn(t) \/ ShutdownMark(t)
         \/ \E k \in Key : InvalidateRemove(t, k) \/ ShutdownCheck(t, k)
         \/ \E S \in SUBSET Key : InvalidateMark(t, S)
  PROVE  Place(t)'
<1> USE DEF IsTyped, CallTypes, Set, Goto, Place, Bare
<1>1. Place(t) /\ stage[t] \in Stage
  BY DEF PlaceInv
<1>2. CASE InvalidateUnmark(t) \/ InvalidateReturn(t)
  BY <1>1, <1>2 DEF InvalidateUnmark, InvalidateReturn, LookingUp
<1>3. CASE ShutdownRelease(t) \/ ShutdownReturn(t) \/ ShutdownMark(t)
  BY <1>1, <1>3 DEF ShutdownRelease, ShutdownReturn, ShutdownMark, LookingUp, callVars
<1>4. CASE \E k \in Key : InvalidateRemove(t, k) \/ ShutdownCheck(t, k)
  BY <1>1, <1>4 DEF InvalidateRemove, ShutdownCheck, LookingUp, callVars
<1>5. CASE \E S \in SUBSET Key : InvalidateMark(t, S)
  BY <1>1, <1>5 DEF InvalidateMark, LookingUp
<1> QED BY <1>2, <1>3, <1>4, <1>5

LEMMA PlacePreserved ==
  ASSUME IsTyped, PlaceInv, FlightInv, Next
  PROVE  PlaceInv'
<1>1. CASE SetBudget \/ \E k \in Key : FailureExpires(k)
  <2>1. UNCHANGED <<publication, pc, stage, key, mine, lease, direct, err, todo>>
    BY <1>1 DEF SetBudget, FailureExpires, callVars
  <2> QED BY <2>1 DEF PlaceInv, Place, Bare, LookingUp, Result
<1>2. ASSUME NEW t \in Thread, StepOf(t) PROVE PlaceInv'
  <2>1. Place(t)'
    BY <1>2, LookupKeepsPlace, CallKeepsPlace, ReturnKeepsPlace, AdminKeepsPlace
       DEF StepOf, Step, Call
  <2>2. \A u \in Thread \ {t} : Place(u)'
    BY <1>2, OthersKeepPlace
  <2> QED BY <2>1, <2>2 DEF PlaceInv
<1> QED BY <1>1, <1>2 DEF Next, StepOf

-----------------------------------------------------------------------------
(* Owners: only the steps that join a flight or complete one matter.         *)

LEMMA OwnershipRests ==
  ASSUME IsTyped, PlaceInv, NEW t \in Thread, StepOf(t), ~Join(t), ~Complete(t)
  PROVE  /\ UNCHANGED inFlight /\ (Owns(t)' <=> Owns(t))
         /\ mine'[t] = mine[t] \/ (mine'[t] = NoFlight /\ ~Owns(t))
         /\ key'[t] = key[t] \/ mine'[t] = NoFlight
<1> USE DEF IsTyped, CallTypes, Set, Goto, Owns
<1>1. Place(t) /\ stage[t] \in Stage
  BY DEF PlaceInv
<1>2. CASE Probe(t) \/ Acquire(t) \/ Recheck(t)
  <2>1. UNCHANGED <<inFlight, stage, key>>
    BY <1>2 DEF Probe, Acquire, Recheck, innerVars
  <2>2. CASE Miss(t) \/ Hit(t) \/ LookupFails(t)
    BY <1>1, <1>2, <2>1, <2>2
       DEF Miss, Hit, LookupFails, Ends, Probe, Acquire, Recheck, Place, LookingUp, Stage
  <2>3. CASE (Goto(t, "acquire") \/ Goto(t, "recheck")) /\ UNCHANGED mine
    BY <1>1, <1>2, <2>1, <2>3 DEF Probe, Acquire, Recheck
  <2> QED BY <1>2, <2>2, <2>3 DEF Probe, Acquire, Recheck
<1>3. CASE Register(t) \/ StartBuild(t) \/ BuilderReturns(t) \/ Publish(t) \/ Allocate(t)
  BY <1>1, <1>3 DEF Register, StartBuild, BuilderReturns, Publish, Allocate, Fails, Place, innerVars
<1>4. CASE Leave(t) \/ Wait(t) \/ Finish(t) \/ \E k \in Key : Start(t, k)
  BY <1>1, <1>4 DEF Leave, Wait, StopWaiting, Finish, Start, Place, Bare, innerVars
<1>5. CASE CancelToken(t) \/ HookFires(t)
  BY <1>5 DEF CancelToken, HookFires, innerVars
<1>6. CASE \/ InvalidateUnmark(t) \/ InvalidateReturn(t) \/ ShutdownRelease(t)
           \/ ShutdownReturn(t) \/ ShutdownMark(t)
           \/ \E k \in Key : InvalidateRemove(t, k) \/ ShutdownCheck(t, k)
           \/ \E S \in SUBSET Key : InvalidateMark(t, S)
  BY <1>1, <1>6 DEF InvalidateUnmark, InvalidateReturn, ShutdownRelease, ShutdownReturn,
     ShutdownMark, InvalidateRemove, ShutdownCheck, InvalidateMark, Place, Bare, innerVars
<1> QED BY <1>2, <1>3, <1>4, <1>5, <1>6 DEF StepOf, Step, Call

LEMMA OwnersPreserved ==
  ASSUME IsTyped, PlaceInv, OwnerInv, Next
  PROVE  OwnerInv'
<1> USE DEF IsTyped, CallTypes, CacheTypes
<1>1. CASE SetBudget \/ \E k \in Key : FailureExpires(k)
  <2>1. UNCHANGED <<pc, stage, key, mine, inFlight>>
    BY <1>1 DEF SetBudget, FailureExpires, innerVars
  <2> QED BY <2>1 DEF OwnerInv, Owns
<1>2. ASSUME NEW t \in Thread, StepOf(t), ~Join(t), ~Complete(t) PROVE OwnerInv'
  <2>1. \A u \in Thread : Owns(u)' <=> Owns(u)
    BY <1>2, CallsAreTyped, OwnershipRests DEF Others, Owns
  <2>2. \A u \in Thread : /\ mine'[u] = mine[u] \/ (mine'[u] = NoFlight /\ ~Owns(u))
                          /\ key'[u] = key[u] \/ mine'[u] = NoFlight
    BY <1>2, CallsAreTyped, OwnershipRests DEF Others
  <2>3. \A u \in Thread : Owns(u) => mine[u] # NoFlight
    BY DEF PlaceInv, Place, Owns, LookingUp
  <2>4. inFlight' = inFlight
    BY <1>2, OwnershipRests
  <2> QED BY <2>1, <2>2, <2>3, <2>4 DEF OwnerInv
<1>3. ASSUME NEW t \in Thread, Join(t) PROVE OwnerInv'
  <2>1. Others(t) /\ UNCHANGED key /\ Place(t) /\ pc[t] = "join" /\ ~Owns(t)
    BY <1>3, CallsAreTyped, JoinFacts DEF PlaceInv, StepOf, Step, Owns
  <2>2. \A u \in Thread \ {t} : mine'[u] = mine[u] /\ (Owns(u)' <=> Owns(u))
    BY <2>1 DEF Others, Owns
  <2>3. CASE RefusedByJoin(t)
    <3>1. ~Owns(t)' /\ mine' = mine /\ inFlight' = inFlight
      BY <2>3 DEF RefusedByJoin, Owns
    <3> QED BY <2>1, <2>2, <3>1 DEF OwnerInv
  <2>4. CASE JoinsFlight(t)
    <3>1. ~Owns(t)' /\ mine'[t] = inFlight[key[t]] /\ inFlight' = inFlight
      BY <2>4 DEF JoinsFlight, Owns
    <3>2. ASSUME NEW k \in Key, inFlight[k] # NoFlight, inFlight[key[t]] = inFlight[k]
          PROVE  key[t] = k
      BY <3>2 DEF OwnerInv
    <3> QED BY <2>1, <2>2, <3>1, <3>2 DEF OwnerInv
  <2>5. CASE FoundsFlight(t)
    <3> DEFINE f == NewFlight
    <3>1. /\ f \in Flight /\ f # NoFlight /\ \A k \in Key : inFlight[k] # f
          /\ \A u \in Thread : mine[u] # f
      BY <2>5, PixelCacheConstants DEF FoundsFlight, Referenced, Named
    <3> HIDE DEF f
    <3>2. /\ Owns(t)' /\ mine'[t] = f /\ inFlight' = [inFlight EXCEPT ![key[t]] = f]
          /\ inFlight[key[t]] = NoFlight
      BY <2>5 DEF FoundsFlight, Owns, f
    <3>3. \A u \in Thread : Owns(u) => mine[u] # NoFlight
      BY DEF PlaceInv, Place, Owns, LookingUp
    <3> QED BY <2>1, <2>2, <3>1, <3>2, <3>3 DEF OwnerInv
  <2> QED BY <1>3, <2>3, <2>4, <2>5, JoinFacts
<1>4. ASSUME NEW t \in Thread, Complete(t) PROVE OwnerInv'
  <2>1. /\ Others(t) /\ UNCHANGED <<key, mine, stage>> /\ Owns(t) /\ ~Owns(t)'
    BY <1>4, CallsAreTyped DEF PlaceInv, Place, Complete, StepOf, Step, Owns, Set, Goto
  <2>2. inFlight' = [inFlight EXCEPT ![key[t]] = NoFlight]
    BY <1>4, <2>1 DEF Complete, OwnerInv, Set
  <2>3. \A u \in Thread \ {t} : mine'[u] = mine[u] /\ (Owns(u)' <=> Owns(u))
    BY <2>1 DEF Others, Owns
  <2>4. \A u \in Thread : Owns(u) => mine[u] # NoFlight
    BY DEF PlaceInv, Place, Owns, LookingUp
  <2> QED BY <2>1, <2>2, <2>3, <2>4 DEF OwnerInv
<1> QED BY <1>1, <1>2, <1>3, <1>4 DEF Next, StepOf

-----------------------------------------------------------------------------
(* What becomes of the record of a flight that is still referred to.         *)

StartsBuild(t, f) ==
  /\ StartBuild(t) /\ mine[t] = f /\ flight[f].birth = 0 /\ flight'[f].birth = sequence + 1
Marks(t, f) ==
  \E S \in SUBSET Key : InvalidateMark(t, S) /\ \E k \in S : inFlight[k] = f
Completes(t, f) ==
  /\ Complete(t) /\ mine[t] = f /\ flight'[f].completed /\ flight'[f].error = Outcome(t)
  /\ flight'[f].success = IF Outcome(t) = "none" THEN Result(t) ELSE NoFlight

RecordMove(f) ==
  /\ \/ flight'[f].birth = flight[f].birth
     \/ \E t \in Thread : StartsBuild(t, f)
  /\ \/ flight'[f].stale = flight[f].stale
     \/ \E t \in Thread : Marks(t, f)
  /\ \/ /\ flight'[f].completed = flight[f].completed /\ flight'[f].error = flight[f].error
        /\ flight'[f].success = flight[f].success
     \/ \E t \in Thread : Completes(t, f)

LEMMA ReferencedIsKept ==
  ASSUME NEW F \in Records, Flights(F), NEW f \in Flight, Referenced(f)'
  PROVE  flight'[f] = F[f]
<1>1. \A g \in Flight :
        \/ flight'[g] = F[g]
        \/ ~Named(g)' /\ \A h \in Flight : Named(h)' => F[h].success # g
  BY FlightsKeep
<1>2. CASE Named(f)'
  BY <1>1, <1>2
<1>3. CASE \E g \in Flight : Named(g)' /\ flight'[g].success = f
  BY <1>1, <1>3
<1> QED BY <1>2, <1>3 DEF Referenced

LEMMA ReferencedIsSame ==
  ASSUME Keeps, NEW f \in Flight, Referenced(f)'
  PROVE  SameCore(flight'[f], flight[f])
<1>1. CASE Named(f)'
  BY <1>1 DEF Keeps
<1>2. CASE \E g \in Flight : Named(g)' /\ flight'[g].success = f
  <2>1. PICK g \in Flight : Named(g)' /\ flight'[g].success = f
    BY <1>2
  <2>2. flight[g].success = f
    BY <2>1 DEF Keeps, SameCore
  <2> QED BY <2>1, <2>2 DEF Keeps
<1> QED BY <1>1, <1>2 DEF Referenced

LEMMA RecordMoves ==
  ASSUME IsTyped, PlaceInv, Next, NEW f \in Flight, Referenced(f), Referenced(f)'
  PROVE  RecordMove(f)
<1>1. CASE Quiet
  BY <1>1, QuietKeeps, ReferencedIsSame DEF RecordMove, SameCore
<1>2. ASSUME NEW t \in Thread, Join(t) PROVE RecordMove(f)
  BY <1>2, JoinFacts DEF RefusedByJoin, JoinsFlight, FoundsFlight, RecordMove
<1>3. ASSUME NEW t \in Thread, StartBuild(t) PROVE RecordMove(f)
  <2>1. CASE flight'[f] = flight[f]
    BY <2>1 DEF RecordMove
  <2>2. CASE /\ f = mine[t] /\ flight[f].birth = 0
             /\ flight'[f] = [flight[f] EXCEPT !.birth = sequence + 1]
    <3>1. flight[f] \in LooseRecord
      BY DEF IsTyped, FlightTypes
    <3>2. /\ flight'[f].stale = flight[f].stale /\ flight'[f].completed = flight[f].completed
          /\ flight'[f].error = flight[f].error /\ flight'[f].success = flight[f].success
          /\ flight'[f].birth = sequence + 1
      BY <2>2, <3>1 DEF LooseRecord
    <3> QED BY <1>3, <2>2, <3>2 DEF RecordMove, StartsBuild
  <2> QED BY <1>3, <2>1, <2>2, BuildFlights
<1>4. ASSUME NEW t \in Thread, NEW S \in SUBSET Key, InvalidateMark(t, S) PROVE RecordMove(f)
  <2>1. /\ flight'[f].completed = flight[f].completed /\ flight'[f].birth = flight[f].birth
        /\ flight'[f].error = flight[f].error /\ flight'[f].success = flight[f].success
    BY <1>4, MarkFlights
  <2>2. flight'[f].stale = flight[f].stale \/ \E k \in S : inFlight[k] = f
    <3>1. flight'[f].stale <=> flight[f].stale \/ \E k \in S : inFlight[k] = f
      BY <1>4, MarkFlights
    <3>2. flight[f].stale \in BOOLEAN /\ flight' \in Records
      BY <1>4, MarkFlights DEF IsTyped, FlightTypes, LooseRecord
    <3>3. flight'[f].stale \in BOOLEAN
      BY <3>2 DEF Records, LooseRecord
    <3> QED BY <3>1, <3>2, <3>3
  <2> QED BY <1>4, <2>1, <2>2 DEF RecordMove, Marks
<1>5. ASSUME NEW t \in Thread, Complete(t) PROVE RecordMove(f)
  <2>1. PICK F \in Records :
          /\ Flights(F) /\ mine[t] \in Flight
          /\ \A g \in Flight :
               /\ F[g].stale = flight[g].stale /\ F[g].birth = flight[g].birth
               /\ g # mine[t] => /\ F[g].completed = flight[g].completed
                                 /\ F[g].error = flight[g].error
                                 /\ F[g].success = flight[g].success
          /\ F[mine[t]].completed /\ F[mine[t]].error = Outcome(t)
          /\ F[mine[t]].success = IF Outcome(t) = "none" THEN Result(t) ELSE NoFlight
    BY <1>5, CompleteFlights
  <2>2. flight'[f] = F[f]
    BY <2>1, ReferencedIsKept
  <2> QED BY <1>5, <2>1, <2>2 DEF RecordMove, Completes
<1> QED BY <1>1, <1>2, <1>3, <1>4, <1>5, NextIsAStep

-----------------------------------------------------------------------------
(* Publication: what is being published is not invalidated meanwhile.        *)

LEMMA OneAllocates ==
  ASSUME PlaceInv, NEW t \in Thread, pc[t] = "allocate"
  PROVE  publication = t /\ mine[t] # NoFlight /\ Owns(t)
BY DEF PlaceInv, Place, Owns

(* Only an allocation or a lookup that finds a pending value adds an entry.  *)
Adds(p, k) ==
  /\ entries[k] = NoFlight /\ entries'[k] # NoFlight
  /\ pc[p] = "allocate" /\ key[p] = k /\ mine[p] = entries'[k]

LEMMA EntryMoves ==
  ASSUME IsTyped, PlaceInv, PendingInv, Next, NEW k \in Key
  PROVE  entries'[k] = NoFlight \/ entries'[k] = entries[k] \/ \E p \in Thread : Adds(p, k)
<1> USE DEF Set
<1>1. \A S \in SUBSET Key : Evict(S)[k] = NoFlight \/ Evict(S)[k] = entries[k]
  BY DEF Evict
<1>2. CASE UNCHANGED entries
  BY <1>2
<1>3. ASSUME NEW j \in Key, entries' = Set(entries, j, NoFlight)
      PROVE  entries'[k] = NoFlight \/ entries'[k] = entries[k]
  BY <1>3 DEF IsTyped, CacheTypes
<1>4. CASE SetBudget \/ \E j \in Key : FailureExpires(j)
  BY <1>1, <1>2, <1>4 DEF SetBudget, FailureExpires, residentVars, Evictable
<1>5. ASSUME NEW t \in Thread, StepOf(t)
      PROVE  entries'[k] = NoFlight \/ entries'[k] = entries[k] \/ \E p \in Thread : Adds(p, k)
  <2>1. CASE Acquire(t)
    <3>1. CASE /\ entries[key[t]] = NoFlight /\ pending[key[t]] # NoFlight
               /\ entries' = Set(entries, key[t], pending[key[t]])
      <4>1. PICK p \in Thread : pc[p] = "allocate" /\ key[p] = key[t] /\ pending[key[t]] = mine[p]
        BY <3>1 DEF PendingInv, IsTyped, CallTypes
      <4> QED BY <3>1, <4>1 DEF Adds, IsTyped, CacheTypes
    <3> QED BY <1>2, <2>1, <3>1 DEF Acquire
  <2>2. CASE Allocate(t)
    <3>1. CASE \E S \in SUBSET Evictable : entries' = [Evict(S) EXCEPT ![key[t]] = mine[t]]
      <4>1. PICK S \in SUBSET Key : entries' = [Evict(S) EXCEPT ![key[t]] = mine[t]]
        BY <3>1 DEF Evictable
      <4>2. CASE k = key[t]
        BY <2>2, <4>1, <4>2, OneAllocates DEF Allocate, Evict, Adds
      <4>3. CASE k # key[t]
        BY <1>1, <4>1, <4>3 DEF Evict
      <4> QED BY <4>2, <4>3
    <3> QED BY <1>2, <2>2, <3>1 DEF Allocate
  <2>3. CASE ShutdownRelease(t) \/ \E j \in Key : InvalidateRemove(t, j)
    BY <1>3, <2>3 DEF ShutdownRelease, InvalidateRemove, Remove, IsTyped, CallTypes
  <2>4. CASE ~(\/ Acquire(t) \/ Allocate(t) \/ ShutdownRelease(t)
               \/ \E j \in Key : InvalidateRemove(t, j))
    <3>1. CASE \/ Probe(t) \/ Recheck(t) \/ Join(t) \/ Register(t) \/ StartBuild(t)
               \/ BuilderReturns(t) \/ Publish(t) \/ Complete(t)
               \/ Leave(t) \/ Wait(t) \/ Finish(t) \/ CancelToken(t) \/ HookFires(t)
               \/ \E j \in Key : Start(t, j)
      BY <1>2, <3>1 DEF Probe, Recheck, Join, Register, StartBuild, BuilderReturns, Publish,
         Complete, Leave, Wait, Finish, CancelToken, HookFires, Start, residentVars
    <3>2. CASE \/ InvalidateUnmark(t) \/ InvalidateReturn(t) \/ ShutdownReturn(t)
               \/ ShutdownMark(t) \/ (\E j \in Key : ShutdownCheck(t, j))
               \/ \E S \in SUBSET Key : InvalidateMark(t, S)
      BY <1>2, <3>2 DEF InvalidateUnmark, InvalidateReturn, ShutdownReturn,
         ShutdownMark, ShutdownCheck, InvalidateMark, residentVars
    <3> QED BY <1>5, <2>4, <3>1, <3>2 DEF StepOf, Step, Call
  <2> QED BY <2>1, <2>2, <2>3, <2>4
<1> QED BY <1>4, <1>5 DEF Next, StepOf

(* The steps of a call, by where they may leave it.                          *)
LEMMA AllocatePhase ==
  ASSUME IsTyped, PlaceInv, Next, NEW u \in Thread
  PROVE  /\ pc'[u] = "allocate" =>
              /\ key'[u] = key[u] /\ mine'[u] = mine[u]
              /\ pc[u] = "allocate" \/ (Publish(u) /\ MayPublish(u) /\ UNCHANGED <<invalidating>>)
         /\ pc[u] = "allocate" /\ pc'[u] # "allocate" => Allocate(u)
<1> USE DEF IsTyped, CallTypes, Set, Goto
<1>1. CASE UNCHANGED <<pc, key, mine>>
  BY <1>1
<1>2. CASE SetBudget \/ \E k \in Key : FailureExpires(k)
  BY <1>1, <1>2 DEF SetBudget, FailureExpires
<1>3. ASSUME NEW t \in Thread, StepOf(t), u # t
      PROVE  pc'[u] = pc[u] /\ key'[u] = key[u] /\ mine'[u] = mine[u]
  BY <1>3, CallsAreTyped DEF Others
<1>4. CASE Probe(u) \/ Acquire(u) \/ Recheck(u)
  <2>1. pc[u] \in {"probe", "acquire", "recheck"} /\ stage[u] \in Stage
    BY <1>4 DEF Probe, Acquire, Recheck
  <2>2. CASE Miss(u) \/ Hit(u) \/ LookupFails(u)
    BY <2>1, <2>2 DEF Miss, Hit, LookupFails
  <2>3. CASE Goto(u, "acquire") \/ Goto(u, "recheck")
    BY <2>1, <2>3
  <2> QED BY <1>4, <2>2, <2>3 DEF Probe, Acquire, Recheck
<1>5. CASE Join(u) \/ Register(u) \/ StartBuild(u) \/ BuilderReturns(u)
  BY <1>5 DEF Join, Register, StartBuild, BuilderReturns, Fails
<1>6. CASE Publish(u)
  <2>1. pc[u] = "publish" /\ UNCHANGED <<key, mine, invalidating>>
    BY <1>6 DEF Publish
  <2>2. ~MayPublish(u) => pc'[u] # "allocate"
    BY <1>6 DEF Publish, Fails
  <2> QED BY <1>6, <2>1, <2>2
<1>7. CASE Complete(u) \/ Leave(u) \/ Wait(u) \/ Finish(u) \/ \E k \in Key : Start(u, k)
  BY <1>7 DEF Complete, Leave, Wait, StopWaiting, Finish, Start
<1>8. CASE Allocate(u)
  BY <1>8 DEF Allocate
<1>9. CASE CancelToken(u) \/ HookFires(u)
  BY <1>1, <1>9 DEF CancelToken, HookFires
<1>10. CASE \/ InvalidateUnmark(u) \/ InvalidateReturn(u) \/ ShutdownRelease(u)
            \/ ShutdownReturn(u) \/ ShutdownMark(u)
            \/ \E k \in Key : InvalidateRemove(u, k) \/ ShutdownCheck(u, k)
            \/ \E S \in SUBSET Key : InvalidateMark(u, S)
  BY <1>10 DEF InvalidateUnmark, InvalidateReturn, ShutdownRelease, ShutdownReturn,
     ShutdownMark, InvalidateRemove, ShutdownCheck, InvalidateMark
<1>11. CASE StepOf(u)
  BY <1>4, <1>5, <1>6, <1>7, <1>8, <1>9, <1>10, <1>11 DEF StepOf, Step, Call
<1>12. CASE \E t \in Thread \ {u} : StepOf(t)
  BY <1>3, <1>12
<1> QED BY <1>2, <1>11, <1>12 DEF Next, StepOf

LEMMA PendingMoves ==
  ASSUME IsTyped, Next, NEW k \in Key
  PROVE  \/ pending'[k] = NoFlight
         \/ pending'[k] = pending[k] /\ \A t \in Thread : Allocate(t) => key[t] # k
         \/ \E t \in Thread : /\ Publish(t) /\ key[t] = k /\ pending'[k] = mine[t]
                              /\ pc'[t] = "allocate"
<1> USE DEF IsTyped, CallTypes, CacheTypes, Set, Goto
<1>1. ASSUME NEW t \in Thread, Allocate(t), key[t] = k PROVE pending'[k] = NoFlight
  BY <1>1 DEF Allocate
<1>2. CASE UNCHANGED pending
  BY <1>1, <1>2
<1>3. ASSUME NEW t \in Thread, Allocate(t), key[t] # k PROVE pending'[k] = pending[k]
  BY <1>3 DEF Allocate
<1>4. ASSUME NEW t \in Thread, Acquire(t)
      PROVE  pending'[k] = NoFlight \/ pending'[k] = pending[k]
  BY <1>4 DEF Acquire
<1>5. ASSUME NEW t \in Thread, Publish(t)
      PROVE  pending'[k] = pending[k] \/ (/\ Publish(t) /\ key[t] = k /\ pending'[k] = mine[t]
                                           /\ pc'[t] = "allocate")
  BY <1>5 DEF Publish
<1>6. CASE SetBudget \/ \E j \in Key : FailureExpires(j)
  BY <1>2, <1>6 DEF SetBudget, FailureExpires, residentVars
<1>7. ASSUME NEW t \in Thread, StepOf(t), ~(Acquire(t) \/ Allocate(t) \/ Publish(t))
      PROVE  UNCHANGED pending
  <2>1. CASE \/ Probe(t) \/ Recheck(t) \/ Join(t) \/ Register(t) \/ StartBuild(t)
             \/ BuilderReturns(t) \/ Complete(t)
             \/ Leave(t) \/ Wait(t) \/ Finish(t) \/ CancelToken(t) \/ HookFires(t)
             \/ \E j \in Key : Start(t, j)
    BY <2>1 DEF Probe, Recheck, Join, Register, StartBuild, BuilderReturns,
       Complete, Leave, Wait, Finish, CancelToken, HookFires, Start, residentVars
  <2>2. CASE \/ InvalidateUnmark(t) \/ InvalidateReturn(t) \/ ShutdownReturn(t)
             \/ ShutdownMark(t) \/ ShutdownRelease(t)
             \/ (\E j \in Key : ShutdownCheck(t, j) \/ InvalidateRemove(t, j))
             \/ \E S \in SUBSET Key : InvalidateMark(t, S)
    BY <2>2 DEF InvalidateUnmark, InvalidateReturn, ShutdownReturn, InvalidateRemove,
       ShutdownMark, ShutdownRelease, ShutdownCheck, InvalidateMark, residentVars
  <2> QED BY <1>7, <2>1, <2>2 DEF StepOf, Step, Call
<1>8. ASSUME NEW t \in Thread, StepOf(t)
      PROVE  \/ pending'[k] = NoFlight \/ pending'[k] = pending[k]
             \/ /\ Publish(t) /\ key[t] = k /\ pending'[k] = mine[t]
                /\ pc'[t] = "allocate"
  BY <1>1, <1>3, <1>4, <1>5, <1>7, <1>8
<1> QED BY <1>1, <1>2, <1>6, <1>8 DEF Next, StepOf

LEMMA MarksGrow ==
  ASSUME Next
  PROVE  \/ invalidating' \subseteq invalidating
         \/ \E t \in Thread, S \in SUBSET Key : InvalidateMark(t, S)
<1>1. CASE SetBudget \/ \E j \in Key : FailureExpires(j)
  BY <1>1 DEF SetBudget, FailureExpires, residentVars
<1>2. ASSUME NEW t \in Thread, StepOf(t), \A S \in SUBSET Key : ~InvalidateMark(t, S)
      PROVE  invalidating' \subseteq invalidating
  <2>1. CASE \/ Probe(t) \/ Recheck(t) \/ Join(t) \/ Register(t) \/ StartBuild(t)
             \/ BuilderReturns(t) \/ Complete(t) \/ Acquire(t) \/ Publish(t) \/ Allocate(t)
             \/ Leave(t) \/ Wait(t) \/ Finish(t) \/ CancelToken(t) \/ HookFires(t)
             \/ \E j \in Key : Start(t, j)
    BY <2>1 DEF Probe, Recheck, Join, Register, StartBuild, BuilderReturns, Acquire, Publish,
       Allocate, Complete, Leave, Wait, Finish, CancelToken, HookFires, Start, residentVars
  <2>2. CASE \/ InvalidateUnmark(t) \/ InvalidateReturn(t) \/ ShutdownReturn(t)
             \/ ShutdownMark(t) \/ ShutdownRelease(t)
             \/ \E j \in Key : ShutdownCheck(t, j) \/ InvalidateRemove(t, j)
    BY <2>2 DEF InvalidateUnmark, InvalidateReturn, ShutdownReturn, InvalidateRemove,
       ShutdownMark, ShutdownRelease, ShutdownCheck, residentVars
  <2> QED BY <1>2, <2>1, <2>2 DEF StepOf, Step, Call
<1> QED BY <1>1, <1>2 DEF Next, StepOf

LEMMA PendingPreserved ==
  ASSUME IsTyped, PlaceInv, PendingInv, Next, IsTyped', PlaceInv'
  PROVE  PendingInv'
<1>1. ASSUME NEW u \in Thread, pc'[u] = "allocate"
      PROVE  key'[u] \notin invalidating' /\ ~flight'[mine'[u]].stale
  <2>1. /\ key'[u] = key[u] /\ mine'[u] = mine[u] /\ mine'[u] # NoFlight
        /\ pc[u] = "allocate" \/ (Publish(u) /\ MayPublish(u) /\ UNCHANGED invalidating)
    BY <1>1, AllocatePhase DEF PlaceInv, Place
  <2>2. PICK f \in Flight : f = mine[u] /\ f = mine'[u] /\ Referenced(f) /\ Referenced(f)'
    BY <2>1 DEF IsTyped, CallTypes, Slots, Referenced, Named
  <2>3. ASSUME NEW t \in Thread, NEW S \in SUBSET Key, InvalidateMark(t, S) PROVE FALSE
    <3>1. publication = NoThread /\ UNCHANGED publication /\ NoThread \notin Thread
      BY <2>3, PixelCacheConstants DEF InvalidateMark
    <3>2. publication' = u
      BY <1>1 DEF PlaceInv, Place
    <3> QED BY <3>1, <3>2
  <2>4. flight'[f].stale = flight[f].stale
    BY <2>2, <2>3, RecordMoves DEF RecordMove, Marks
  <2>5. key[u] \notin invalidating /\ ~flight[mine[u]].stale
    BY <2>1 DEF PendingInv, MayPublish
  <2>6. invalidating' \subseteq invalidating
    BY <2>3, MarksGrow
  <2> QED BY <2>1, <2>2, <2>4, <2>5, <2>6
<1>2. ASSUME NEW k \in Key, pending'[k] # NoFlight
      PROVE  \E t \in Thread : pc'[t] = "allocate" /\ key'[t] = k /\ pending'[k] = mine'[t]
  <2>1. CASE pending'[k] = pending[k] /\ \A t \in Thread : Allocate(t) => key[t] # k
    <3>1. PICK t \in Thread : pc[t] = "allocate" /\ key[t] = k /\ pending[k] = mine[t]
      BY <1>2, <2>1 DEF PendingInv
    <3>2. pc'[t] = "allocate"
      BY <2>1, <3>1, AllocatePhase
    <3> QED BY <2>1, <3>1, <3>2, AllocatePhase
  <2>2. CASE \E t \in Thread : /\ Publish(t) /\ key[t] = k /\ pending'[k] = mine[t]
                               /\ pc'[t] = "allocate"
    BY <2>2, AllocatePhase
  <2> QED BY <1>2, <2>1, <2>2, PendingMoves
<1> QED BY <1>1, <1>2 DEF PendingInv

-----------------------------------------------------------------------------
(* What the invalidations in progress have still to remove.                  *)

LEMMA RemovalsRest ==
  ASSUME IsTyped, PlaceInv, Next, NEW u \in Thread, NEW k \in Key, HasToRemove(u, k),
         entries'[k] # NoFlight
  PROVE  HasToRemove(u, k)'
<1> USE DEF IsTyped, CallTypes, CacheTypes, Set, Goto, HasToRemove
<1>1. CASE UNCHANGED <<pc, key, todo>>
  BY <1>1
<1>2. CASE SetBudget \/ \E j \in Key : FailureExpires(j)
  BY <1>1, <1>2 DEF SetBudget, FailureExpires, callVars
<1>3. ASSUME NEW t \in Thread \ {u}, StepOf(t) PROVE HasToRemove(u, k)'
  BY <1>3, CallsAreTyped DEF Others
<1>4. CASE StepOf(u)
  <2>1. pc[u] \in {"invalidate", "unmark"} /\ mine[u] = NoFlight
    BY DEF PlaceInv, Place, Bare
  <2>2. CASE \E j \in Key : InvalidateRemove(u, j)
    BY <2>2 DEF InvalidateRemove, Remove, callVars
  <2>3. CASE InvalidateUnmark(u)
    BY <2>3 DEF InvalidateUnmark
  <2>4. CASE InvalidateReturn(u)
    BY <2>4 DEF InvalidateReturn
  <2>5. CASE CancelToken(u) \/ HookFires(u)
    BY <2>1, <2>5 DEF CancelToken, HookFires
  <2>6. ~(\/ Probe(u) \/ Recheck(u) \/ Join(u) \/ Register(u) \/ StartBuild(u)
          \/ BuilderReturns(u) \/ Complete(u) \/ Acquire(u) \/ Publish(u) \/ Allocate(u)
          \/ Leave(u) \/ Wait(u) \/ Finish(u) \/ \E j \in Key : Start(u, j))
    BY <2>1 DEF Probe, Recheck, Join, Register, StartBuild, BuilderReturns, Acquire, Publish,
       Allocate, Complete, Leave, Wait, Finish, Start
  <2>7. ~(\/ ShutdownReturn(u) \/ ShutdownMark(u) \/ ShutdownRelease(u)
          \/ (\E j \in Key : ShutdownCheck(u, j)) \/ \E S \in SUBSET Key : InvalidateMark(u, S))
    BY <2>1 DEF ShutdownReturn, ShutdownMark, ShutdownRelease, ShutdownCheck, InvalidateMark
  <2> QED BY <1>4, <2>2, <2>3, <2>4, <2>5, <2>6, <2>7 DEF StepOf, Step, Call
<1> QED BY <1>2, <1>3, <1>4 DEF Next, StepOf

LEMMA DoomRests ==
  ASSUME IsTyped, PlaceInv, Next, NEW k \in Key, Doomed(k), entries'[k] # NoFlight
  PROVE  Doomed(k)'
<1>1. PICK u \in Thread : HasToRemove(u, k)
  BY DEF Doomed
<1> QED BY <1>1, RemovalsRest DEF Doomed

LEMMA BuildPhase ==
  ASSUME IsTyped, PlaceInv, Next, NEW u \in Thread, pc'[u] \in {"build", "publish"}
  PROVE  /\ key'[u] = key[u] /\ mine'[u] = mine[u] /\ Owns(u)
         /\ \/ pc[u] \in {"build", "publish"}
            \/ /\ entries' = entries
               /\ key[u] \in invalidating \/ entries[key[u]] = NoFlight
<1> USE DEF IsTyped, CallTypes, Set, Goto
<1>0. Place(u) /\ stage[u] \in Stage
  BY DEF PlaceInv
<1>1. CASE UNCHANGED <<pc, key, mine>>
  BY <1>0, <1>1 DEF Owns, Place
<1>2. CASE SetBudget \/ \E j \in Key : FailureExpires(j)
  BY <1>1, <1>2 DEF SetBudget, FailureExpires
<1>3. ASSUME NEW t \in Thread \ {u}, StepOf(t)
      PROVE  pc'[u] = pc[u] /\ key'[u] = key[u] /\ mine'[u] = mine[u]
  BY <1>3, CallsAreTyped DEF Others
<1>4. CASE Probe(u) \/ Acquire(u) \/ Recheck(u)
  <2>1. LookingUp(u) /\ UNCHANGED key
    BY <1>4 DEF Probe, Acquire, Recheck, LookingUp
  <2>2. CASE Hit(u) \/ LookupFails(u) \/ Goto(u, "acquire") \/ Goto(u, "recheck")
    BY <2>1, <2>2 DEF Hit, LookupFails
  <2>3. CASE Miss(u)
    <3>1. stage[u] = "owner" /\ UNCHANGED mine
      BY <1>0, <2>1, <2>3 DEF Miss, Ends, LookingUp, Stage
    <3>2. entries' = entries /\ (key[u] \in invalidating \/ entries[key[u]] = NoFlight)
      BY <1>4, <2>3 DEF Probe, Acquire, Recheck, Hit, LookupFails, residentVars, Miss
    <3> QED BY <2>1, <3>1, <3>2 DEF Owns, LookingUp
  <2> QED BY <1>4, <2>2, <2>3 DEF Probe, Acquire, Recheck
<1>5. CASE StartBuild(u) \/ BuilderReturns(u)
  BY <1>0, <1>5 DEF StartBuild, BuilderReturns, Fails, Owns, Place
<1>6. CASE Publish(u) \/ Join(u) \/ Register(u)
  BY <1>0, <1>6 DEF Publish, Fails, Join, Register
<1>7. CASE Complete(u) \/ Leave(u) \/ Wait(u) \/ Finish(u) \/ \E k \in Key : Start(u, k)
  BY <1>7 DEF Complete, Leave, Wait, StopWaiting, Finish, Start
<1>8. CASE Allocate(u)
  BY <1>8 DEF Allocate, Fails
<1>9. CASE CancelToken(u) \/ HookFires(u)
  BY <1>1, <1>9 DEF CancelToken, HookFires
<1>10. CASE \/ InvalidateUnmark(u) \/ InvalidateReturn(u) \/ ShutdownRelease(u)
            \/ ShutdownReturn(u) \/ ShutdownMark(u)
            \/ \E k \in Key : InvalidateRemove(u, k) \/ ShutdownCheck(u, k)
            \/ \E S \in SUBSET Key : InvalidateMark(u, S)
  BY <1>10 DEF InvalidateUnmark, InvalidateReturn, ShutdownRelease, ShutdownReturn,
     ShutdownMark, InvalidateRemove, ShutdownCheck, InvalidateMark
<1>11. CASE StepOf(u)
  BY <1>4, <1>5, <1>6, <1>7, <1>8, <1>9, <1>10, <1>11 DEF StepOf, Step, Call
<1>12. CASE \E t \in Thread \ {u} : StepOf(t)
  BY <1>0, <1>3, <1>12 DEF Owns, Place
<1> QED BY <1>2, <1>11, <1>12 DEF Next, StepOf

LEMMA OneOwnerAKey ==
  ASSUME OwnerInv, NEW t \in Thread, NEW u \in Thread, Owns(t), Owns(u), key[t] = key[u]
  PROVE  t = u
BY DEF OwnerInv

LEMMA DoomPreserved ==
  ASSUME IsTyped, PlaceInv, OwnerInv, PendingInv, DoomInv, Next
  PROVE  DoomInv'
<1> USE DEF IsTyped, CallTypes, CacheTypes
<1>1. ASSUME NEW k \in Key, k \in invalidating', entries'[k] # NoFlight PROVE Doomed(k)'
  <2>1. ASSUME NEW t \in Thread, NEW S \in SUBSET Key, InvalidateMark(t, S), k \in Resident(S)
        PROVE  Doomed(k)'
    <3>1. pc'[t] = "invalidate" /\ k \in todo'[t]
      BY <2>1 DEF InvalidateMark, Set, Goto
    <3> QED BY <3>1 DEF Doomed, HasToRemove
  <2>2. CASE k \in invalidating
    <3>1. ~ \E p \in Thread : Adds(p, k)
      BY <2>2 DEF Adds, PendingInv
    <3>2. entries[k] # NoFlight
      BY <1>1, <3>1, EntryMoves
    <3> QED BY <1>1, <2>2, <3>2, DoomRests DEF DoomInv
  <2>3. ASSUME NEW t \in Thread, NEW S \in SUBSET Key, InvalidateMark(t, S)
        PROVE  k \in invalidating \/ k \in Resident(S)
    BY <1>1, <2>3 DEF InvalidateMark
  <2> QED BY <1>1, <2>1, <2>2, <2>3, MarksGrow
<1>2. ASSUME NEW u \in Thread, NEW k \in Key, key'[u] = k, pc'[u] \in {"build", "publish"},
             entries'[k] # NoFlight
      PROVE  Doomed(k)'
  <2>1. /\ key[u] = k /\ Owns(u)
        /\ \/ pc[u] \in {"build", "publish"}
           \/ entries' = entries /\ (k \in invalidating \/ entries[k] = NoFlight)
    BY <1>2, BuildPhase
  <2>2. Doomed(k)
    <3>1. CASE pc[u] \in {"build", "publish"}
      <4>1. ~ \E p \in Thread : Adds(p, k)
        BY <2>1, <3>1, OneOwnerAKey, OneAllocates DEF Adds
      <4>2. entries[k] # NoFlight
        BY <1>2, <2>1, <4>1, EntryMoves
      <4> QED BY <2>1, <3>1, <4>2 DEF DoomInv
    <3>2. CASE entries' = entries /\ (k \in invalidating \/ entries[k] = NoFlight)
      BY <1>2, <2>1, <3>2 DEF DoomInv
    <3> QED BY <2>1, <3>1, <3>2
  <2> QED BY <1>2, <2>2, DoomRests
<1>3. \A u \in Thread : pc'[u] \in {"build", "publish"} => key'[u] \in Key
  BY BuildPhase
<1> QED BY <1>1, <1>2, <1>3 DEF DoomInv

-----------------------------------------------------------------------------
(* The steps of a call and the clocks.                                       *)

CallRests(u) ==
  /\ pc'[u] = pc[u] /\ stage'[u] = stage[u] /\ key'[u] = key[u] /\ mine'[u] = mine[u]
  /\ lease'[u] = lease[u] /\ direct'[u] = direct[u] /\ err'[u] = err[u] /\ todo'[u] = todo[u]
  /\ scope'[u] = scope[u] /\ floor'[u] = floor[u]

LookupStep(u) == Probe(u) \/ Acquire(u) \/ Recheck(u)
BuildStep(u) ==
  \/ Join(u) \/ Register(u) \/ StartBuild(u) \/ BuilderReturns(u) \/ Publish(u) \/ Allocate(u)
  \/ Complete(u) \/ Leave(u) \/ Wait(u)
AdminStep(u) ==
  \/ InvalidateUnmark(u) \/ ShutdownRelease(u) \/ ShutdownReturn(u) \/ ShutdownMark(u)
  \/ \E k \in Key : InvalidateRemove(u, k) \/ ShutdownCheck(u, k)

LEMMA StepKinds ==
  ASSUME IsTyped, PlaceInv, Next, NEW u \in Thread
  PROVE  \/ CallRests(u)
         \/ LookupStep(u) \/ BuildStep(u) \/ AdminStep(u) \/ Finish(u) \/ InvalidateReturn(u)
         \/ \E k \in Key : Start(u, k)
         \/ \E S \in SUBSET Key : InvalidateMark(u, S)
<1>1. CASE SetBudget \/ \E k \in Key : FailureExpires(k)
  BY <1>1 DEF SetBudget, FailureExpires, CallRests, callVars
<1>2. CASE \E t \in Thread \ {u} : StepOf(t)
  BY <1>2, CallsAreTyped DEF Others, CallRests
<1>3. CASE CancelToken(u) \/ HookFires(u)
  BY <1>3 DEF CancelToken, HookFires, CallRests, callVars
<1>4. CASE Step(u) \/ Call(u)
  BY <1>4 DEF Step, Call, LookupStep, BuildStep, AdminStep
<1> QED BY <1>1, <1>2, <1>3, <1>4 DEF Next, StepOf

LEMMA LookupLocal ==
  ASSUME IsTyped, NEW u \in Thread, LookupStep(u)
  PROVE  /\ LookingUp(u) /\ UNCHANGED <<stage, key, todo, scope, floor, settled, sequence, inFlight>>
         /\ pc'[u] \in {"acquire", "recheck", "join", "build", "held", "complete", "failed"}
         /\ mine'[u] = mine[u] \/ mine'[u] = NoFlight
         /\ direct'[u] = direct[u] \/ direct'[u] = NoFlight
         /\ \/ lease'[u] = lease[u] \/ lease'[u] = NoFlight
            \/ lease'[u] = entries[key[u]] /\ UNCHANGED entries
<1> USE DEF IsTyped, CallTypes, Set, Goto, LookupStep
<1>1. LookingUp(u) /\ UNCHANGED <<stage, key, todo, scope, floor, settled, sequence, inFlight>>
  BY DEF Probe, Acquire, Recheck, LookingUp, innerVars, callVars
<1>2. CASE Miss(u) \/ Hit(u) \/ LookupFails(u)
  BY <1>1, <1>2 DEF Miss, Hit, LookupFails, Ends, Stage, LookingUp
<1>3. CASE /\ Goto(u, "acquire") /\ UNCHANGED <<mine, lease, direct>>
  BY <1>1, <1>3
<1>4. CASE /\ Goto(u, "recheck") /\ lease' = Set(lease, u, entries[key[u]])
           /\ UNCHANGED <<entries, mine, direct>>
  BY <1>1, <1>4
<1> QED BY <1>2, <1>3, <1>4, <1>1 DEF Probe, Acquire, Recheck

LEMMA BuildLocal ==
  ASSUME IsTyped, NEW u \in Thread, BuildStep(u)
  PROVE  /\ Calls(u) /\ UNCHANGED <<key, todo, scope, floor, settled, sequence>>
         /\ pc'[u] \in PC \ {"idle", "acquire", "recheck", "invalidate", "unmark", "shutdown", "release"}
<1> USE DEF IsTyped, CallTypes, Set, Goto, BuildStep, Calls, PC
<1>1. CASE Join(u)
  BY <1>1 DEF Join, callVars
<1>2. CASE Register(u) \/ StartBuild(u) \/ BuilderReturns(u)
  BY <1>2 DEF Register, StartBuild, BuilderReturns, Fails, innerVars, callVars
<1>3. CASE Publish(u) \/ Allocate(u)
  BY <1>3 DEF Publish, Allocate, Fails, innerVars, callVars
<1>4. CASE Complete(u) \/ Leave(u) \/ Wait(u)
  BY <1>4 DEF Complete, Leave, Wait, StopWaiting, innerVars, callVars
<1> QED BY <1>1, <1>2, <1>3, <1>4

LEMMA AdminLocal ==
  ASSUME IsTyped, NEW u \in Thread, AdminStep(u)
  PROVE  /\ UNCHANGED <<scope, floor, settled, sequence>>
         /\ pc'[u] \in {"idle", "invalidate", "unmark", "shutdown", "release"}
         /\ pc'[u] \in {"invalidate", "unmark"} => Invalidates(u)
<1> USE DEF IsTyped, CallTypes, Set, Goto, AdminStep, Invalidates
<1>1. CASE InvalidateUnmark(u) \/ \E k \in Key : InvalidateRemove(u, k)
  BY <1>1 DEF InvalidateUnmark, InvalidateRemove, innerVars, callVars
<1>2. CASE \/ ShutdownRelease(u) \/ ShutdownReturn(u) \/ ShutdownMark(u)
           \/ \E k \in Key : ShutdownCheck(u, k)
  BY <1>2 DEF ShutdownRelease, ShutdownReturn, ShutdownMark, ShutdownCheck, innerVars, callVars
<1> QED BY <1>1, <1>2

(* A call keeps its key and its floor, which it takes when it starts.        *)
LEMMA CallContinues ==
  ASSUME IsTyped, PlaceInv, Next, NEW u \in Thread, Calls(u)'
  PROVE  \/ Calls(u) /\ key'[u] = key[u] /\ floor'[u] = floor[u]
         \/ \E k \in Key : Start(u, k) /\ key'[u] = k /\ floor'[u] = settled[k] /\ pc'[u] = "probe"
<1> USE DEF IsTyped, CallTypes, Set, Goto
<1>1. CASE CallRests(u)
  BY <1>1 DEF CallRests, Calls
<1>2. CASE LookupStep(u)
  BY <1>2, LookupLocal DEF LookingUp, Calls
<1>3. CASE BuildStep(u)
  BY <1>3, BuildLocal
<1>4. CASE AdminStep(u)
  BY <1>4, AdminLocal DEF Calls
<1>5. CASE Finish(u) \/ InvalidateReturn(u) \/ \E S \in SUBSET Key : InvalidateMark(u, S)
  BY <1>5 DEF Finish, InvalidateReturn, InvalidateMark, Calls
<1>6. ASSUME NEW k \in Key, Start(u, k)
      PROVE  key'[u] = k /\ floor'[u] = settled[k] /\ pc'[u] = "probe"
  BY <1>6 DEF Start, Calls
<1> QED BY <1>1, <1>2, <1>3, <1>4, <1>5, <1>6, StepKinds

(* An invalidation keeps its scope and its number.                           *)
LEMMA InvalidationContinues ==
  ASSUME IsTyped, PlaceInv, Next, NEW u \in Thread, Invalidates(u)'
  PROVE  \/ Invalidates(u) /\ scope'[u] = scope[u] /\ floor'[u] = floor[u]
         \/ \E S \in SUBSET Key : InvalidateMark(u, S)
<1> USE DEF IsTyped, CallTypes, Set, Goto
<1>1. CASE CallRests(u)
  BY <1>1 DEF CallRests, Invalidates
<1>2. CASE LookupStep(u)
  BY <1>2, LookupLocal DEF Invalidates
<1>3. CASE BuildStep(u)
  BY <1>3, BuildLocal DEF Invalidates
<1>4. CASE AdminStep(u)
  BY <1>4, AdminLocal DEF Invalidates
<1>5. CASE Finish(u) \/ InvalidateReturn(u) \/ \E k \in Key : Start(u, k)
  BY <1>5 DEF Finish, InvalidateReturn, Start, Invalidates
<1> QED BY <1>1, <1>2, <1>3, <1>4, <1>5, StepKinds

LEMMA ClockMoves ==
  ASSUME IsTyped, PlaceInv, Next
  PROVE  /\ sequence' = sequence \/ \E t \in Thread, S \in SUBSET Key : InvalidateMark(t, S)
         /\ settled' = settled \/ \E t \in Thread : InvalidateReturn(t)
<1>1. CASE SetBudget \/ \E k \in Key : FailureExpires(k)
  BY <1>1 DEF SetBudget, FailureExpires, innerVars, callVars
<1>2. ASSUME NEW t \in Thread, StepOf(t)
      PROVE  /\ sequence' = sequence \/ \E S \in SUBSET Key : InvalidateMark(t, S)
             /\ settled' = settled \/ InvalidateReturn(t)
  <2>1. CASE LookupStep(t)
    BY <2>1, LookupLocal
  <2>2. CASE BuildStep(t)
    BY <2>2, BuildLocal
  <2>3. CASE AdminStep(t)
    BY <2>3, AdminLocal
  <2>4. CASE \/ Finish(t) \/ InvalidateReturn(t) \/ CancelToken(t) \/ HookFires(t)
             \/ (\E k \in Key : Start(t, k)) \/ \E S \in SUBSET Key : InvalidateMark(t, S)
    BY <2>4 DEF Finish, InvalidateReturn, CancelToken, HookFires, Start, InvalidateMark,
       innerVars, callVars
  <2> QED BY <1>2, <2>1, <2>2, <2>3, <2>4 DEF StepOf, Step, Call, LookupStep, BuildStep, AdminStep
<1> QED BY <1>1, <1>2 DEF Next, StepOf

LEMMA ReturnFacts ==
  ASSUME IsTyped, PlaceInv, NEW t \in Thread, InvalidateReturn(t)
  PROVE  /\ Invalidates(t) /\ \A k \in Key : ~HasToRemove(t, k)
         /\ \A k \in Key : settled'[k] = settled[k] \/ (k \in scope[t] /\ settled'[k] = floor[t])
BY DEF InvalidateReturn, Invalidates, HasToRemove, IsTyped, CacheTypes

LEMMA MarkFacts ==
  ASSUME IsTyped, NEW t \in Thread, NEW S \in SUBSET Key, InvalidateMark(t, S)
  PROVE  /\ sequence' = sequence + 1 /\ publication = NoThread
         /\ floor' = [floor EXCEPT ![t] = sequence + 1] /\ scope' = [scope EXCEPT ![t] = S]
         /\ pc' = [pc EXCEPT ![t] = "invalidate"] /\ pc[t] = "idle"
         /\ todo' = [todo EXCEPT ![t] = {k \in S : entries[k] # NoFlight}]
         /\ UNCHANGED <<entries, pending, inFlight, settled, stage, key, mine, lease, direct, err>>
BY DEF InvalidateMark, Set, Goto, Resident

(* What is fresh stays fresh until the key is invalidated again.             *)
LEMMA FreshKept ==
  ASSUME IsTyped, PlaceInv, Next, NEW k \in Key, NEW b \in Nat, Fresh(k, b),
         \A t \in Thread, S \in SUBSET Key : InvalidateMark(t, S) => k \notin S
  PROVE  Fresh(k, b)'
<1>1. b > settled'[k]
  <2>1. CASE settled' = settled
    BY <2>1 DEF Fresh
  <2>2. ASSUME NEW t \in Thread, InvalidateReturn(t) PROVE b > settled'[k]
    BY <2>2, ReturnFacts DEF Fresh
  <2> QED BY <2>1, <2>2, ClockMoves
<1>2. ASSUME NEW u \in Thread, Invalidates(u)', k \in scope'[u] PROVE b > floor'[u]
  <2>1. CASE Invalidates(u) /\ scope'[u] = scope[u] /\ floor'[u] = floor[u]
    BY <1>2, <2>1 DEF Fresh
  <2>2. ASSUME NEW S \in SUBSET Key, InvalidateMark(u, S) PROVE FALSE
    <3>1. scope'[u] = S
      BY <2>2, MarkFacts DEF IsTyped, CallTypes
    <3> QED BY <1>2, <2>2, <3>1
  <2> QED BY <1>2, <2>1, <2>2, InvalidationContinues
<1> QED BY <1>1, <1>2 DEF Fresh

LEMMA NowIsFresh ==
  ASSUME IsTyped, ClockInv, NEW k \in Key
  PROVE  Fresh(k, sequence + 1)
<1>1. sequence \in Nat /\ settled[k] \in Nat /\ \A u \in Thread : floor[u] \in Nat
  BY PixelCacheConstants DEF IsTyped, CacheTypes, CallTypes
<1> QED BY <1>1 DEF ClockInv, Fresh

LEMMA ClockPreserved ==
  ASSUME IsTyped, PlaceInv, ClockInv, Next, IsTyped'
  PROVE  ClockInv'
<1>1. /\ sequence \in Nat /\ sequence' \in Nat /\ sequence =< sequence'
      /\ \A k \in Key : settled[k] \in Nat /\ settled'[k] \in Nat
      /\ \A u \in Thread : floor[u] \in Nat /\ floor'[u] \in Nat
  <2>1. /\ sequence \in Nat /\ sequence' \in Nat
        /\ \A k \in Key : settled[k] \in Nat /\ settled'[k] \in Nat
        /\ \A u \in Thread : floor[u] \in Nat /\ floor'[u] \in Nat
    BY PixelCacheConstants DEF IsTyped, CacheTypes, CallTypes
  <2> QED BY <2>1, ClockMoves, MarkFacts
<1>2. \A k \in Key : settled[k] =< settled'[k]
  <2>1. ASSUME NEW t \in Thread, InvalidateReturn(t), NEW k \in Key PROVE settled[k] =< settled'[k]
    BY <1>1, <2>1 DEF InvalidateReturn, IsTyped, CacheTypes
  <2> QED BY <1>1, <2>1, ClockMoves
<1>3. \A k \in Key : settled'[k] =< sequence'
  <2>1. ASSUME NEW t \in Thread, InvalidateReturn(t), NEW k \in Key PROVE settled'[k] =< sequence
    BY <2>1, ReturnFacts DEF ClockInv
  <2>2. \A k \in Key : settled'[k] =< sequence
    BY <2>1, ClockMoves DEF ClockInv
  <2> QED BY <1>1, <2>2
<1>4. ASSUME NEW u \in Thread PROVE floor'[u] =< sequence'
  <2>1. CASE CallRests(u) \/ LookupStep(u) \/ BuildStep(u) \/ AdminStep(u)
    <3>1. floor'[u] = floor[u]
      BY <2>1, LookupLocal, BuildLocal, AdminLocal DEF CallRests
    <3> QED BY <1>1, <3>1 DEF ClockInv
  <2>2. CASE Finish(u) \/ InvalidateReturn(u)
    BY <1>1, <2>2 DEF Finish, InvalidateReturn, Set, IsTyped, CallTypes
  <2>3. ASSUME NEW k \in Key, Start(u, k) PROVE floor'[u] =< sequence'
    BY <1>1, <2>3 DEF Start, Set, IsTyped, CallTypes, ClockInv
  <2>4. ASSUME NEW S \in SUBSET Key, InvalidateMark(u, S) PROVE floor'[u] =< sequence'
    BY <1>1, <2>4, MarkFacts DEF IsTyped, CallTypes
  <2> QED BY <2>1, <2>2, <2>3, <2>4, StepKinds
<1>5. ASSUME NEW u \in Thread, Calls(u)' PROVE floor'[u] =< settled'[key'[u]]
  <2>1. CASE Calls(u) /\ key'[u] = key[u] /\ floor'[u] = floor[u]
    <3>1. floor[u] =< settled[key[u]] /\ key[u] \in Key
      BY <2>1 DEF ClockInv, IsTyped, CallTypes
    <3> QED BY <1>1, <1>2, <2>1, <3>1
  <2>2. ASSUME NEW k \in Key, Start(u, k), key'[u] = k, floor'[u] = settled[k]
        PROVE  floor'[u] =< settled'[key'[u]]
    BY <1>1, <1>2, <2>2
  <2> QED BY <1>5, <2>1, <2>2, CallContinues
<1>6. ASSUME NEW f \in Flight PROVE flight'[f].birth =< sequence' + 1
  <2>0. flight[f].birth \in Nat /\ flight[f].birth =< sequence + 1
    BY PixelCacheConstants DEF ClockInv, IsTyped, FlightTypes, LooseRecord
  <2>1. flight'[f].birth = flight[f].birth \/ flight'[f].birth = 0
        \/ \E t \in Thread : StartBuild(t) /\ flight'[f].birth = sequence + 1
    <3>1. NewFlightRecord.birth = 0 /\ \A t \in Thread : [NewFlightRecord EXCEPT !.consumers = {t}].birth = 0
      BY DEF NewFlightRecord
    <3>2. CASE Quiet
      BY <3>1, <3>2, QuietKeeps DEF Keeps, SameCore
    <3>3. ASSUME NEW t \in Thread, Join(t)
          PROVE  flight'[f].birth = flight[f].birth \/ flight'[f].birth = 0
      BY <3>1, <3>3, JoinFacts DEF RefusedByJoin, JoinsFlight, FoundsFlight
    <3>4. ASSUME NEW t \in Thread, StartBuild(t)
          PROVE  flight'[f].birth = flight[f].birth \/ flight'[f].birth = sequence + 1
      <4>1. \A g \in Flight : flight[g] \in LooseRecord
        BY DEF IsTyped, FlightTypes
      <4>2. \A r \in LooseRecord : [r EXCEPT !.birth = sequence + 1].birth = sequence + 1
        BY DEF LooseRecord
      <4>3. CASE flight'[f] = flight[f]
        BY <4>3
      <4>4. CASE flight'[f] = [flight[f] EXCEPT !.birth = sequence + 1]
        BY <4>1, <4>2, <4>4
      <4> QED BY <3>4, <4>3, <4>4, BuildFlights
    <3>5. ASSUME NEW t \in Thread, NEW S \in SUBSET Key, InvalidateMark(t, S)
          PROVE  flight'[f].birth = flight[f].birth
      BY <3>5, MarkFlights
    <3>6. ASSUME NEW t \in Thread, Complete(t)
          PROVE  flight'[f].birth = flight[f].birth \/ flight'[f].birth = 0
      <4>1. PICK F \in Records : Flights(F) /\ \A g \in Flight : F[g].birth = flight[g].birth
        BY <3>6, CompleteFlights
      <4> QED BY <3>1, <4>1, FlightsKeep
    <3> QED BY <3>2, <3>3, <3>4, <3>5, <3>6, NextIsAStep
  <2> QED BY <1>1, <2>0, <2>1
<1> QED BY <1>3, <1>4, <1>5, <1>6 DEF ClockInv

-----------------------------------------------------------------------------
(* Entries and the leases on them.                                           *)

LEMMA LeasedEntryStays ==
  ASSUME IsTyped, Next, NEW k \in Key, NEW u \in Thread, lease[u] = entries[k],
         entries[k] # NoFlight
  PROVE  entries'[k] = entries[k]
<1> USE DEF Set
<1>1. /\ ~Unleased(k) /\ k \notin Evictable
      /\ \A S \in SUBSET Evictable : Evict(S)[k] = entries[k]
  BY DEF Unleased, Evictable, Evict
<1>2. CASE UNCHANGED entries
  BY <1>2
<1>3. ASSUME NEW t \in Thread, NEW j \in Key, Remove(t, j) PROVE entries'[k] = entries[k]
  BY <1>1, <1>3 DEF Remove, IsTyped, CacheTypes
<1>4. CASE SetBudget \/ \E j \in Key : FailureExpires(j)
  BY <1>1, <1>2, <1>4 DEF SetBudget, FailureExpires, residentVars
<1>5. ASSUME NEW t \in Thread, StepOf(t) PROVE entries'[k] = entries[k]
  <2>1. CASE Acquire(t)
    BY <1>2, <2>1 DEF Acquire, IsTyped, CacheTypes
  <2>2. CASE Allocate(t)
    <3>1. CASE /\ entries[key[t]] = NoFlight
               /\ \E S \in SUBSET Evictable : entries' = [Evict(S) EXCEPT ![key[t]] = mine[t]]
      <4>1. PICK S \in SUBSET Evictable : entries' = [Evict(S) EXCEPT ![key[t]] = mine[t]]
        BY <3>1
      <4> QED BY <1>1, <3>1, <4>1 DEF Evict
    <3> QED BY <1>2, <2>2, <3>1 DEF Allocate
  <2>3. CASE ShutdownRelease(t) \/ \E j \in Key : InvalidateRemove(t, j)
    BY <1>3, <2>3 DEF ShutdownRelease, InvalidateRemove, IsTyped, CallTypes
  <2>4. CASE ~(\/ Acquire(t) \/ Allocate(t) \/ ShutdownRelease(t)
               \/ \E j \in Key : InvalidateRemove(t, j))
    <3>1. CASE \/ Probe(t) \/ Recheck(t) \/ Join(t) \/ Register(t) \/ StartBuild(t)
               \/ BuilderReturns(t) \/ Publish(t) \/ Complete(t)
               \/ Leave(t) \/ Wait(t) \/ Finish(t) \/ CancelToken(t) \/ HookFires(t)
               \/ \E j \in Key : Start(t, j)
      BY <1>2, <3>1 DEF Probe, Recheck, Join, Register, StartBuild, BuilderReturns, Publish,
         Complete, Leave, Wait, Finish, CancelToken, HookFires, Start, residentVars
    <3>2. CASE \/ InvalidateUnmark(t) \/ InvalidateReturn(t) \/ ShutdownReturn(t)
               \/ ShutdownMark(t) \/ (\E j \in Key : ShutdownCheck(t, j))
               \/ \E S \in SUBSET Key : InvalidateMark(t, S)
      BY <1>2, <3>2 DEF InvalidateUnmark, InvalidateReturn, ShutdownReturn,
         ShutdownMark, ShutdownCheck, InvalidateMark, residentVars
    <3> QED BY <1>5, <2>4, <3>1, <3>2 DEF StepOf, Step, Call
  <2> QED BY <2>1, <2>2, <2>3, <2>4
<1> QED BY <1>4, <1>5 DEF Next, StepOf

LEMMA BuildLease ==
  ASSUME IsTyped, NEW u \in Thread, BuildStep(u)
  PROVE  \/ lease'[u] = lease[u] \/ lease'[u] = NoFlight
         \/ lease'[u] = mine[u] /\ entries'[key[u]] = mine[u]
<1> USE DEF IsTyped, CallTypes, Set, BuildStep
<1>1. CASE Allocate(u)
  <2>1. CASE lease' = Set(lease, u, mine[u])
             /\ \E S \in SUBSET Evictable : entries' = [Evict(S) EXCEPT ![key[u]] = mine[u]]
    BY <2>1 DEF Evict
  <2> QED BY <1>1, <2>1 DEF Allocate
<1>2. CASE Join(u) \/ Register(u) \/ StartBuild(u) \/ BuilderReturns(u) \/ Publish(u)
  BY <1>2 DEF Join, Register, StartBuild, BuilderReturns, Publish
<1>3. CASE Complete(u) \/ Leave(u) \/ Wait(u)
  BY <1>3 DEF Complete, Leave, Wait
<1> QED BY <1>1, <1>2, <1>3

LEMMA IdleAgain ==
  ASSUME IsTyped, PlaceInv, PlaceInv', NEW u \in Thread,
         \/ AdminStep(u) \/ Finish(u) \/ InvalidateReturn(u)
         \/ (\E k \in Key : Start(u, k)) \/ \E S \in SUBSET Key : InvalidateMark(u, S)
  PROVE  mine'[u] = NoFlight /\ lease'[u] = NoFlight /\ direct'[u] = NoFlight
         /\ pc'[u] \in {"idle", "invalidate", "unmark", "shutdown", "release", "failed", "probe"}
         /\ (pc'[u] = "probe" => stage'[u] = "first")
<1> USE DEF IsTyped, CallTypes, Set, Goto
<1>1. CASE AdminStep(u)
  BY <1>1, AdminLocal DEF PlaceInv, Place, Bare
<1>2. CASE Finish(u) \/ InvalidateReturn(u) \/ \E S \in SUBSET Key : InvalidateMark(u, S)
  <2>1. pc'[u] \in {"idle", "invalidate"}
    BY <1>2 DEF Finish, InvalidateReturn, InvalidateMark
  <2> QED BY <2>1 DEF PlaceInv, Place, Bare
<1>3. CASE \E k \in Key : Start(u, k)
  BY <1>3 DEF Start, PlaceInv, Place, Bare
<1> QED BY <1>1, <1>2, <1>3

LEMMA LeasesPreserved ==
  ASSUME IsTyped, PlaceInv, EntryInv, Next, PlaceInv', NEW u \in Thread, lease'[u] # NoFlight
  PROVE  entries'[key'[u]] = lease'[u]
<1>1. ASSUME lease'[u] = lease[u], key'[u] = key[u] PROVE entries'[key'[u]] = lease'[u]
  <2>1. entries[key[u]] = lease[u] /\ key[u] \in Key
    BY <1>1 DEF EntryInv, IsTyped, CallTypes
  <2> QED BY <1>1, <2>1, LeasedEntryStays
<1>2. CASE CallRests(u)
  BY <1>1, <1>2 DEF CallRests
<1>3. CASE LookupStep(u)
  BY <1>1, <1>3, LookupLocal
<1>4. CASE BuildStep(u)
  BY <1>1, <1>4, BuildLocal, BuildLease
<1> QED BY <1>2, <1>3, <1>4, IdleAgain, StepKinds

LEMMA EntriesPreserved ==
  ASSUME IsTyped, PlaceInv, OwnerInv, PendingInv, ClockInv, EntryInv, FlightInv, Next,
         IsTyped', PlaceInv'
  PROVE  EntryInv'
<1>1. ASSUME NEW k \in Key, NEW f \in Flight, entries'[k] = f
      PROVE  /\ flight'[f].birth > settled'[k]
             /\ \A u \in Thread : Invalidates(u)' /\ k \in scope'[u] =>
                  flight'[f].birth > floor'[u] \/ HasToRemove(u, k)'
  <2>1. f # NoFlight /\ flight[f].birth \in Nat /\ settled[k] \in Nat /\ Referenced(f)'
        /\ \A u \in Thread : floor[u] \in Nat
    BY <1>1, PixelCacheConstants
       DEF IsTyped, CacheTypes, CallTypes, FlightTypes, LooseRecord, Referenced, Named
  <2>2. CASE entries[k] = f
    <3>1. /\ flight[f].birth > settled[k]
          /\ \A u \in Thread : Invalidates(u) /\ k \in scope[u] =>
               flight[f].birth > floor[u] \/ HasToRemove(u, k)
      BY <2>1, <2>2 DEF EntryInv
    <3>2. flight'[f].birth = flight[f].birth
      <4>1. Referenced(f)
        BY <2>2 DEF Referenced, Named
      <4> QED BY <2>1, <3>1, <4>1, RecordMoves DEF RecordMove, StartsBuild
    <3>3. flight[f].birth > settled'[k]
      <4>1. ASSUME NEW t \in Thread, InvalidateReturn(t) PROVE flight[f].birth > settled'[k]
        BY <3>1, <4>1, ReturnFacts
      <4> QED BY <3>1, <4>1, ClockMoves
    <3>4. ASSUME NEW u \in Thread, Invalidates(u)', k \in scope'[u]
          PROVE  flight[f].birth > floor'[u] \/ HasToRemove(u, k)'
      <4>1. CASE Invalidates(u) /\ scope'[u] = scope[u] /\ floor'[u] = floor[u]
        BY <1>1, <2>1, <3>1, <3>4, <4>1, RemovalsRest
      <4>2. ASSUME NEW S \in SUBSET Key, InvalidateMark(u, S) PROVE HasToRemove(u, k)'
        <5>1. /\ scope'[u] = S /\ pc'[u] = "invalidate"
              /\ todo'[u] = {j \in S : entries[j] # NoFlight}
          BY <4>2, MarkFacts DEF IsTyped, CallTypes
        <5> QED BY <2>1, <2>2, <3>4, <5>1 DEF HasToRemove
      <4> QED BY <3>4, <4>1, <4>2, InvalidationContinues
    <3> QED BY <3>2, <3>3, <3>4
  <2>3. CASE \E p \in Thread : Adds(p, k)
    <3>1. PICK p \in Thread : Adds(p, k)
      BY <2>3
    <3>2. /\ mine[p] = f /\ pc[p] = "allocate" /\ key[p] = k /\ publication = p /\ Owns(p)
      BY <1>1, <3>1, OneAllocates DEF Adds
    <3>3. inFlight[k] = f /\ flight[f].birth > 0 /\ ~flight[f].stale
      BY <3>2 DEF OwnerInv, FlightInv, PendingInv
    <3>4. Fresh(k, flight[f].birth)
      BY <2>1, <3>3 DEF FlightInv
    <3>5. \A t \in Thread, S \in SUBSET Key : ~InvalidateMark(t, S)
      BY <3>2, MarkFacts, PixelCacheConstants
    <3>6. Fresh(k, flight[f].birth)'
      <4>1. PICK b \in Nat : b = flight[f].birth
        BY <2>1
      <4>2. Fresh(k, b)'
        BY <3>4, <3>5, <4>1, FreshKept
      <4>3. flight'[f].birth = flight[f].birth
        <5>1. Referenced(f)
          BY <3>2 DEF Referenced, Named
        <5> QED BY <2>1, <3>3, <5>1, RecordMoves DEF RecordMove, StartsBuild
      <4> QED BY <4>1, <4>2, <4>3 DEF Fresh
    <3> QED BY <3>6 DEF Fresh
  <2> QED BY <1>1, <2>1, <2>2, <2>3, EntryMoves
<1>2. ASSUME NEW k \in Key, entries'[k] # NoFlight PROVE entries'[k] \in Flight
  BY <1>2 DEF IsTyped, CacheTypes, Slots
<1> QED BY <1>1, <1>2, LeasesPreserved DEF EntryInv

-----------------------------------------------------------------------------
(* Flights: what waiters may join, and what they are handed.                 *)

LEMMA BirthStays ==
  ASSUME IsTyped, PlaceInv, Next, NEW f \in Flight, Referenced(f), Referenced(f)',
         flight[f].birth > 0
  PROVE  flight'[f].birth = flight[f].birth
BY RecordMoves DEF RecordMove, StartsBuild

LEMMA CompletedStays ==
  ASSUME IsTyped, PlaceInv, Next, NEW f \in Flight, Referenced(f), Referenced(f)',
         flight[f].completed
  PROVE  flight'[f].completed
BY RecordMoves DEF RecordMove, Completes

LEMMA InFlightMoves ==
  ASSUME IsTyped, PlaceInv, OwnerInv, Next, NEW k \in Key
  PROVE  \/ inFlight'[k] = NoFlight
         \/ inFlight'[k] = inFlight[k] /\ \A t \in Thread : Complete(t) => key[t] # k
         \/ \E t \in Thread : Join(t) /\ FoundsFlight(t) /\ inFlight'[k] = NewFlight
<1> USE DEF IsTyped, CallTypes, CacheTypes
<1>1. ASSUME NEW t \in Thread, Complete(t), key[t] = k PROVE inFlight'[k] = NoFlight
  <2>1. inFlight[k] = mine[t]
    BY <1>1 DEF OwnerInv, Owns, PlaceInv, Place, Complete
  <2> QED BY <1>1, <2>1 DEF Complete, Set
<1>2. ASSUME NEW t \in Thread, Complete(t), key[t] # k PROVE inFlight'[k] = inFlight[k]
  BY <1>2 DEF Complete, Set
<1>3. ASSUME NEW t \in Thread, Join(t)
      PROVE  inFlight'[k] = inFlight[k] \/ (FoundsFlight(t) /\ inFlight'[k] = NewFlight)
  BY <1>3, JoinFacts DEF RefusedByJoin, JoinsFlight, FoundsFlight
<1>4. ASSUME NEW t \in Thread, StepOf(t), ~Join(t), ~Complete(t) PROVE inFlight'[k] = inFlight[k]
  BY <1>4, OwnershipRests
<1>5. ASSUME SetBudget \/ \E j \in Key : FailureExpires(j) PROVE inFlight'[k] = inFlight[k]
  BY <1>5 DEF SetBudget, FailureExpires, innerVars
<1> QED BY <1>1, <1>2, <1>3, <1>4, <1>5 DEF Next, StepOf

LEMMA CompletesIt ==
  ASSUME IsTyped, PlaceInv, NEW t \in Thread, Complete(t)
  PROVE  mine[t] \in Flight /\ Completes(t, mine[t])
<1>1. PICK F \in Records :
        /\ Flights(F) /\ mine[t] \in Flight
        /\ F[mine[t]].completed /\ F[mine[t]].error = Outcome(t)
        /\ F[mine[t]].success = IF Outcome(t) = "none" THEN Result(t) ELSE NoFlight
  BY CompleteFlights
<1>2. PICK f \in Flight : f = mine[t]
  BY <1>1
<1>3. mine'[t] = f
  BY <1>2 DEF Complete
<1>4. flight'[f] = F[f]
  BY <1>1, <1>3, ReferencedIsKept DEF Referenced, Named
<1> QED BY <1>1, <1>2, <1>4 DEF Completes

LEMMA JoinableFlights ==
  ASSUME IsTyped, PlaceInv, OwnerInv, ClockInv, FlightInv, Next,
         NEW k \in Key, NEW f \in Flight, inFlight'[k] = f
  PROVE  /\ ~flight'[f].completed
         /\ flight'[f].birth > 0 => flight'[f].stale \/ Fresh(k, flight[f].birth)'
<1>1. f # NoFlight /\ Referenced(f)'
  BY PixelCacheConstants DEF Referenced, Named
<1>2. ASSUME NEW t \in Thread, Join(t), FoundsFlight(t), f = NewFlight
      PROVE  ~flight'[f].completed /\ flight'[f].birth = 0
  BY <1>2 DEF FoundsFlight, NewFlightRecord
<1>3. ASSUME inFlight[k] = f, \A t \in Thread : Complete(t) => key[t] # k
      PROVE  /\ ~flight'[f].completed
             /\ flight'[f].birth > 0 => flight'[f].stale \/ Fresh(k, flight[f].birth)'
  <2>1. /\ ~flight[f].completed
        /\ flight[f].birth > 0 => flight[f].stale \/ Fresh(k, flight[f].birth)
        /\ Referenced(f) /\ flight[f].birth \in Nat
    BY <1>1, <1>3, PixelCacheConstants
       DEF FlightInv, Referenced, Named, IsTyped, FlightTypes, LooseRecord
  <2>2. RecordMove(f)
    BY <1>1, <2>1, RecordMoves
  <2>3. ~flight'[f].completed
    <3>1. \A t \in Thread : ~Completes(t, f)
      BY <1>1, <1>3 DEF Completes, OwnerInv
    <3> QED BY <2>1, <2>2, <3>1 DEF RecordMove
  <2>4. flight[f].stale => flight'[f].stale
    <3>1. ASSUME NEW t \in Thread, NEW S \in SUBSET Key, InvalidateMark(t, S), flight[f].stale
          PROVE  flight'[f].stale
      BY <3>1, MarkFlights
    <3> QED BY <2>2, <3>1 DEF RecordMove, Marks
  <2>5. ASSUME flight'[f].birth > 0, ~flight'[f].stale PROVE Fresh(k, flight[f].birth)'
    <3>1. ASSUME NEW t \in Thread, NEW S \in SUBSET Key, InvalidateMark(t, S) PROVE k \notin S
      BY <1>3, <2>5, <3>1, MarkFlights
    <3>2. CASE flight'[f].birth = flight[f].birth
      <4>1. PICK b \in Nat : b = flight[f].birth
        BY <2>1
      <4>2. Fresh(k, b)
        BY <2>1, <2>4, <2>5, <3>2, <4>1
      <4>3. Fresh(k, b)'
        BY <3>1, <4>2, FreshKept
      <4> QED BY <3>2, <4>1, <4>3 DEF Fresh
    <3>3. CASE flight'[f].birth = sequence + 1
      <4>1. PICK b \in Nat : b = sequence + 1
        BY DEF IsTyped, CacheTypes
      <4>2. Fresh(k, b)'
        BY <3>1, <4>1, NowIsFresh, FreshKept
      <4> QED BY <3>3, <4>1, <4>2 DEF Fresh
    <3> QED BY <2>2, <3>2, <3>3 DEF RecordMove, StartsBuild
  <2> QED BY <2>3, <2>5
<1> QED BY <1>1, <1>2, <1>3, InFlightMoves

LEMMA BuildDirect ==
  ASSUME IsTyped, NEW u \in Thread, BuildStep(u)
  PROVE  \/ direct'[u] = direct[u] \/ direct'[u] = NoFlight
         \/ Publish(u) /\ MayPublish(u) /\ direct'[u] = mine[u]
         \/ /\ Wait(u) /\ direct'[u] = flight[mine[u]].success
            /\ flight[mine[u]].completed /\ flight[mine[u]].error = "none"
            /\ mine'[u] = mine[u]
<1> USE DEF IsTyped, CallTypes, Set, BuildStep
<1>1. CASE Join(u) \/ Register(u) \/ StartBuild(u) \/ BuilderReturns(u) \/ Allocate(u)
  BY <1>1 DEF Join, Register, StartBuild, BuilderReturns, Allocate
<1>2. CASE Publish(u)
  BY <1>2 DEF Publish
<1>3. CASE Wait(u)
  BY <1>3 DEF Wait, StopWaiting
<1>4. CASE Complete(u) \/ Leave(u)
  BY <1>4 DEF Complete, Leave
<1> QED BY <1>1, <1>2, <1>3, <1>4

LEMMA DirectIsYoung ==
  ASSUME IsTyped, PlaceInv, OwnerInv, ClockInv, FlightInv, Next, IsTyped', PlaceInv',
         NEW u \in Thread, NEW f \in Flight, direct'[u] = f
  PROVE  flight'[f].birth > floor'[u]
<1>1. /\ f # NoFlight /\ Referenced(f)' /\ flight[f].birth \in Nat /\ floor[u] \in Nat
      /\ settled[key[u]] \in Nat /\ key[u] \in Key
  BY PixelCacheConstants
     DEF Referenced, Named, IsTyped, CallTypes, CacheTypes, FlightTypes, LooseRecord
<1>2. CASE direct[u] = f /\ floor'[u] = floor[u]
  <2>1. flight[f].birth > floor[u] /\ Referenced(f)
    BY <1>1, <1>2 DEF FlightInv, Referenced, Named
  <2> QED BY <1>1, <1>2, <2>1, BirthStays
<1>3. CASE CallRests(u)
  BY <1>2, <1>3 DEF CallRests
<1>4. CASE LookupStep(u)
  BY <1>1, <1>2, <1>4, LookupLocal
<1>5. CASE BuildStep(u)
  <2>1. floor'[u] = floor[u] /\ Calls(u)
    BY <1>5, BuildLocal
  <2>2. CASE Publish(u) /\ MayPublish(u) /\ f = mine[u]
    <3>1. /\ flight[f].birth > 0 /\ ~flight[f].stale /\ Owns(u) /\ Referenced(f)
      BY <2>2 DEF FlightInv, MayPublish, Publish, PlaceInv, Place, Owns, Referenced, Named
    <3>2. inFlight[key[u]] = f
      BY <2>2, <3>1 DEF OwnerInv
    <3>3. flight[f].birth > settled[key[u]]
      BY <1>1, <3>1, <3>2 DEF FlightInv, Fresh
    <3> QED BY <1>1, <2>1, <3>1, <3>3, BirthStays DEF ClockInv
  <2>3. CASE /\ Wait(u) /\ f = flight[mine[u]].success
             /\ flight[mine[u]].completed /\ flight[mine[u]].error = "none"
    <3>1. stage[u] = "waiter" /\ mine[u] # NoFlight /\ mine[u] \in Flight
      BY <2>3 DEF Wait, PlaceInv, Place, IsTyped, CallTypes, Slots
    <3>2. flight[f].birth > floor[u]
      BY <2>3, <3>1 DEF FlightInv
    <3>3. Referenced(f)
      BY <2>3, <3>1 DEF Referenced, Named
    <3> QED BY <1>1, <2>1, <3>2, <3>3, BirthStays
  <2> QED BY <1>1, <1>2, <1>5, <2>1, <2>2, <2>3, BuildDirect
<1> QED BY <1>1, <1>3, <1>4, <1>5, IdleAgain, StepKinds

LEMMA PublishedIsBuilt ==
  ASSUME IsTyped, PlaceInv, FlightInv, Next, PlaceInv',
         NEW u \in Thread, NEW f \in Flight, mine'[u] = f, pc'[u] \in {"publish", "allocate"}
  PROVE  flight'[f].birth > 0
<1>1. f # NoFlight /\ Referenced(f)'
  BY PixelCacheConstants DEF Referenced, Named
<1>2. mine[u] = f /\ flight[f].birth > 0
  <2>1. CASE CallRests(u)
    BY <2>1 DEF CallRests, FlightInv
  <2>2. CASE BuildStep(u)
    <3> USE DEF IsTyped, CallTypes, Set, Goto, BuildStep
    <3>1. CASE BuilderReturns(u) \/ StartBuild(u)
      BY <3>1 DEF BuilderReturns, StartBuild, Fails
    <3>2. CASE Publish(u) \/ Allocate(u)
      BY <3>2 DEF Publish, Allocate, Fails, FlightInv
    <3>3. CASE Join(u) \/ Register(u) \/ Complete(u) \/ Leave(u) \/ Wait(u)
      BY <3>3 DEF Join, Register, Complete, Leave, Wait, StopWaiting
    <3> QED BY <2>2, <3>1, <3>2, <3>3
  <2> QED BY <1>1, <2>1, <2>2, LookupLocal, IdleAgain, StepKinds
<1>3. Referenced(f)
  BY <1>2 DEF Referenced, Named
<1> QED BY <1>1, <1>2, <1>3, BirthStays

LEMMA LeaversAreCompleted ==
  ASSUME IsTyped, PlaceInv, FlightInv, Next, IsTyped', PlaceInv',
         NEW u \in Thread, NEW f \in Flight, mine'[u] = f,
         pc'[u] = "leave" \/ (LookingUp(u)' /\ stage'[u] = "waiter")
  PROVE  flight'[f].completed
<1>1. f # NoFlight /\ Referenced(f)'
  BY PixelCacheConstants DEF Referenced, Named
<1>2. CASE mine[u] = f /\ flight[f].completed
  <2>1. Referenced(f)
    BY <1>2 DEF Referenced, Named
  <2> QED BY <1>1, <1>2, <2>1, CompletedStays
<1>3. CASE CallRests(u)
  BY <1>2, <1>3 DEF CallRests, FlightInv, LookingUp
<1>4. CASE LookupStep(u)
  <2>1. /\ LookingUp(u) /\ UNCHANGED stage /\ mine[u] = f
        /\ pc'[u] \in {"acquire", "recheck", "join", "build", "held", "complete", "failed"}
    BY <1>1, <1>4, LookupLocal
  <2> QED BY <1>2, <2>1 DEF FlightInv, LookingUp
<1>5. CASE BuildStep(u)
  <2> USE DEF IsTyped, CallTypes, Set, Goto, BuildStep, LookingUp
  <2>1. CASE Complete(u)
    BY <2>1, CompletesIt DEF Completes, Complete
  <2>2. CASE Wait(u)
    BY <1>1, <1>2, <2>2 DEF Wait, StopWaiting
  <2>3. CASE Leave(u)
    BY <2>3 DEF Leave
  <2>4. CASE Join(u) \/ Register(u) \/ StartBuild(u) \/ BuilderReturns(u)
    BY <2>4 DEF Join, Register, StartBuild, BuilderReturns, Fails
  <2>5. CASE Publish(u) \/ Allocate(u)
    BY <2>5 DEF Publish, Allocate, Fails, PlaceInv, Place
  <2> QED BY <1>5, <2>1, <2>2, <2>3, <2>4, <2>5
<1>6. ~(mine'[u] = NoFlight)
  BY <1>1
<1> QED BY <1>3, <1>4, <1>5, <1>6, IdleAgain, StepKinds

(* Who waits for a flight has waited for it already, or joins it now.        *)
LEMMA WaiterMoves ==
  ASSUME IsTyped, PlaceInv, Next, PlaceInv',
         NEW u \in Thread, NEW f \in Flight, stage'[u] = "waiter", mine'[u] = f
  PROVE  \/ /\ stage[u] = "waiter" /\ mine[u] = f /\ Calls(u)
            /\ key'[u] = key[u] /\ floor'[u] = floor[u]
         \/ Join(u) /\ JoinsFlight(u) /\ f = inFlight[key[u]]
<1> USE DEF IsTyped, CallTypes, Set, Goto
<1>1. f # NoFlight
  BY PixelCacheConstants
<1>2. ASSUME mine[u] = f PROVE Calls(u)
  BY <1>1, <1>2 DEF PlaceInv, Place, Bare, Calls, PC
<1>3. CASE CallRests(u)
  BY <1>2, <1>3 DEF CallRests
<1>4. CASE LookupStep(u)
  BY <1>1, <1>2, <1>4, LookupLocal
<1>5. CASE BuildStep(u)
  <2>1. key' = key /\ floor' = floor
    BY <1>5, BuildLocal
  <2>2. CASE Join(u)
    <3>1. mine[u] = NoFlight
      BY <2>2 DEF Join, PlaceInv, Place, Bare
    <3>2. RefusedByJoin(u) \/ JoinsFlight(u) \/ FoundsFlight(u)
      BY <2>2, JoinFacts
    <3>3. ~RefusedByJoin(u)
      BY <1>1, <3>1 DEF RefusedByJoin
    <3>4. ~FoundsFlight(u)
      BY DEF FoundsFlight
    <3>5. ASSUME JoinsFlight(u) PROVE f = inFlight[key[u]]
      BY <3>5 DEF JoinsFlight
    <3> QED BY <2>2, <3>2, <3>3, <3>4, <3>5
  <2>3. CASE Register(u) \/ StartBuild(u) \/ BuilderReturns(u) \/ Publish(u)
    BY <1>2, <2>1, <2>3 DEF Register, StartBuild, BuilderReturns, Publish
  <2>4. CASE Allocate(u)
    BY <1>2, <2>1, <2>4 DEF Allocate
  <2>5. CASE Complete(u) \/ Leave(u) \/ Wait(u)
    BY <1>1, <1>2, <2>1, <2>5 DEF Complete, Leave, Wait, StopWaiting
  <2> QED BY <1>5, <2>2, <2>3, <2>4, <2>5 DEF BuildStep
<1>6. ~(mine'[u] = NoFlight)
  BY <1>1
<1> QED BY <1>3, <1>4, <1>5, <1>6, IdleAgain, StepKinds

(* What an owner hands over is fresh when it completes its flight.           *)
LEMMA HandedOver ==
  ASSUME IsTyped, PlaceInv, OwnerInv, EntryInv, FlightInv,
         NEW t \in Thread, Complete(t), Outcome(t) = "none", NEW g \in Slots, g = Result(t)
  PROVE  /\ g \in Flight /\ inFlight[key[t]] = mine[t]
         /\ flight[g].birth > settled[key[t]]
<1>1. /\ Place(t) /\ Owns(t) /\ mine[t] # NoFlight /\ key[t] \in Key
      /\ err[t] = "none" /\ ~flight[mine[t]].stale
  BY DEF PlaceInv, Place, Complete, Owns, Outcome, BecameStale, IsTyped, CallTypes
<1>2. inFlight[key[t]] = mine[t]
  BY <1>1 DEF OwnerInv
<1>3. g # NoFlight /\ g \in Flight
  BY <1>1 DEF Place, Complete, Slots
<1>4. CASE lease[t] # NoFlight
  <2>1. g = lease[t] /\ entries[key[t]] = g
    BY <1>4 DEF Result, EntryInv
  <2> QED BY <1>1, <1>2, <1>3, <2>1 DEF EntryInv
<1>5. CASE lease[t] = NoFlight
  <2>1. g = direct[t] /\ g = mine[t] /\ inFlight[key[t]] = g
    BY <1>1, <1>2, <1>3, <1>5 DEF Result, Place, Complete
  <2>2. flight[g].birth > floor[t] /\ floor[t] \in Nat /\ flight[g].birth \in Nat
    <3>1. \A u \in Thread : direct[u] # NoFlight => flight[direct[u]].birth > floor[u]
      BY DEF FlightInv
    <3>2. flight[g] \in LooseRecord /\ floor[t] \in Nat
      BY <1>3 DEF IsTyped, CallTypes, FlightTypes
    <3>3. flight[g].birth \in Nat
      BY <3>2 DEF LooseRecord
    <3>4. direct[t] # NoFlight => flight[direct[t]].birth > floor[t]
      BY <3>1
    <3>5. direct[t] = g
      BY <2>1
    <3> QED BY <1>3, <3>2, <3>3, <3>4, <3>5
  <2>3. flight[g].birth > 0 /\ ~flight[g].stale
    BY <1>1, <2>1, <2>2
  <2>4. Fresh(key[t], flight[g].birth)
    BY <1>1, <1>3, <2>1, <2>3 DEF FlightInv
  <2> QED BY <1>2, <1>3, <2>4 DEF Fresh
<1> QED BY <1>4, <1>5

LEMMA WaitersAreServed ==
  ASSUME IsTyped, PlaceInv, OwnerInv, ClockInv, EntryInv, FlightInv, Next, IsTyped', PlaceInv',
         NEW u \in Thread, NEW f \in Flight, stage'[u] = "waiter", mine'[u] = f,
         flight'[f].completed, flight'[f].error = "none"
  PROVE  /\ flight'[f].success # NoFlight
         /\ flight'[flight'[f].success].birth > floor'[u]
<1>1. f # NoFlight /\ Referenced(f)' /\ key[u] \in Key /\ Named(f)'
  BY PixelCacheConstants DEF Referenced, Named, IsTyped, CallTypes
<1>2. CASE Join(u) /\ JoinsFlight(u) /\ f = inFlight[key[u]]
  <2>1. ~flight[f].completed /\ flight' = flight
    BY <1>1, <1>2 DEF FlightInv, JoinsFlight
  <2> QED BY <2>1
<1>3. CASE /\ stage[u] = "waiter" /\ mine[u] = f /\ Calls(u)
           /\ key'[u] = key[u] /\ floor'[u] = floor[u]
  <2>1. Referenced(f) /\ Named(f)
    BY <1>3 DEF Referenced, Named
  <2>2. RecordMove(f)
    BY <1>1, <2>1, RecordMoves
  <2>3. ASSUME NEW g \in Flight, flight'[f].success = g, Referenced(g),
               flight[g].birth > floor[u]
        PROVE  flight'[g].birth > floor'[u]
    <3>1. Referenced(g)'
      BY <1>1, <2>3 DEF Referenced
    <3>2. flight[g].birth \in Nat /\ floor[u] \in Nat
      BY DEF IsTyped, FlightTypes, LooseRecord, CallTypes
    <3> QED BY <1>3, <2>3, <3>1, <3>2, BirthStays
  <2>4. CASE /\ flight'[f].completed = flight[f].completed /\ flight'[f].error = flight[f].error
             /\ flight'[f].success = flight[f].success
    <3>1. PICK g \in Slots : g = flight[f].success
      BY DEF IsTyped, FlightTypes, LooseRecord
    <3>2. g # NoFlight /\ flight[g].birth > floor[u]
      BY <1>1, <1>3, <2>4, <3>1 DEF FlightInv
    <3>3. g \in Flight /\ Referenced(g)
      BY <2>1, <3>1, <3>2 DEF Slots, Referenced
    <3> QED BY <2>3, <2>4, <3>1, <3>2, <3>3
  <2>5. ASSUME NEW t \in Thread, Completes(t, f)
        PROVE  /\ flight'[f].success # NoFlight
               /\ flight'[flight'[f].success].birth > floor'[u]
    <3>1. Complete(t) /\ Outcome(t) = "none" /\ mine[t] = f /\ flight'[f].success = Result(t)
      BY <2>5 DEF Completes
    <3>2. PICK g \in Slots : g = Result(t)
      BY DEF Result, IsTyped, CallTypes
    <3>3. g \in Flight /\ inFlight[key[t]] = f /\ flight[g].birth > settled[key[t]]
      BY <3>1, <3>2, HandedOver
    <3>4. key[u] = key[t]
      BY <1>1, <1>3, <3>3 DEF OwnerInv, IsTyped, CallTypes
    <3>5. floor[u] =< settled[key[u]]
      BY <1>3 DEF ClockInv
    <3>6. flight[g].birth > floor[u]
      <4>1. flight[g].birth \in Nat /\ floor[u] \in Nat /\ settled[key[u]] \in Nat
        BY <1>1, <3>3 DEF IsTyped, FlightTypes, LooseRecord, CallTypes, CacheTypes
      <4> QED BY <3>3, <3>4, <3>5, <4>1
    <3>7. Referenced(g) /\ g # NoFlight
      BY <3>2, <3>3, PixelCacheConstants DEF Result, Referenced, Named
    <3> QED BY <2>3, <3>1, <3>2, <3>3, <3>6, <3>7
  <2> QED BY <2>2, <2>4, <2>5 DEF RecordMove
<1> QED BY <1>2, <1>3, WaiterMoves

LEMMA FlightsPreserved ==
  ASSUME IsTyped, PlaceInv, OwnerInv, ClockInv, EntryInv, FlightInv, Next, IsTyped', PlaceInv'
  PROVE  FlightInv'
<1>1. /\ \A k \in Key : inFlight'[k] \in Slots
      /\ \A u \in Thread : mine'[u] \in Slots /\ direct'[u] \in Slots
  BY DEF IsTyped, CallTypes, CacheTypes
<1>2. ASSUME NEW k \in Key, inFlight'[k] # NoFlight
      PROVE  /\ ~flight'[inFlight'[k]].completed
             /\ flight'[inFlight'[k]].birth > 0 =>
                  flight'[inFlight'[k]].stale \/ Fresh(k, flight[inFlight[k]].birth)'
  <2>1. PICK f \in Flight : f = inFlight'[k]
    BY <1>1, <1>2 DEF Slots
  <2>2. /\ ~flight'[f].completed
        /\ flight'[f].birth > 0 => flight'[f].stale \/ Fresh(k, flight[f].birth)'
    BY <2>1, JoinableFlights
  <2> QED BY <2>1, <2>2 DEF Fresh
<1>3. ASSUME NEW u \in Thread, direct'[u] # NoFlight
      PROVE  flight'[direct'[u]].birth > floor'[u]
  <2>1. PICK f \in Flight : f = direct'[u]
    BY <1>1, <1>3 DEF Slots
  <2> QED BY <2>1, DirectIsYoung
<1>4. ASSUME NEW u \in Thread, pc'[u] \in {"publish", "allocate"}
      PROVE  flight'[mine'[u]].birth > 0
  <2>1. PICK f \in Flight : f = mine'[u]
    BY <1>1, <1>4 DEF Slots, PlaceInv, Place
  <2> QED BY <1>4, <2>1, PublishedIsBuilt
<1>5. ASSUME NEW u \in Thread, pc'[u] = "leave" \/ (LookingUp(u)' /\ stage'[u] = "waiter")
      PROVE  flight'[mine'[u]].completed
  <2>1. PICK f \in Flight : f = mine'[u]
    BY <1>1, <1>5 DEF Slots, PlaceInv, Place
  <2> QED BY <1>5, <2>1, LeaversAreCompleted
<1>6. ASSUME NEW u \in Thread, stage'[u] = "waiter", mine'[u] # NoFlight,
             flight'[mine'[u]].completed, flight'[mine'[u]].error = "none"
      PROVE  /\ flight'[mine'[u]].success # NoFlight
             /\ flight'[flight'[mine'[u]].success].birth > floor'[u]
  <2>1. PICK f \in Flight : f = mine'[u]
    BY <1>1, <1>6 DEF Slots
  <2> QED BY <1>6, <2>1, WaitersAreServed
<1> QED BY <1>2, <1>3, <1>4, <1>5, <1>6 DEF FlightInv

-----------------------------------------------------------------------------
(* Pins: what a step takes from a call and what it gives it.                 *)

PinBalance(F, t) ==
  \A f \in Flight :
    F[f].pins >= flight[f].pins + (IF Pinned(t)' = f THEN 1 ELSE 0)
                                - (IF Pinned(t) = f THEN 1 ELSE 0)

LEMMA PinsAreIntegers ==
  ASSUME NEW F \in Records, NEW f \in Flight
  PROVE  F[f].pins \in Int
BY DEF Records, LooseRecord

LEMMA SamePinsBalance ==
  ASSUME NEW F \in Records, NEW t \in Thread, FlightTypes,
         \A f \in Flight : F[f].pins = flight[f].pins,
         Pinned(t)' = Pinned(t) \/ Pinned(t)' = NoFlight
  PROVE  PinBalance(F, t)
<1>1. ASSUME NEW f \in Flight
      PROVE  F[f].pins >= flight[f].pins + (IF Pinned(t)' = f THEN 1 ELSE 0)
                                         - (IF Pinned(t) = f THEN 1 ELSE 0)
  <2>1. flight[f].pins \in Int /\ F[f].pins = flight[f].pins /\ NoFlight # f
    BY PinsAreIntegers, PixelCacheConstants DEF FlightTypes, Records
  <2> QED BY <2>1
<1> QED BY <1>1 DEF PinBalance

LEMMA MovedPinsBalance ==
  ASSUME NEW F \in Records, NEW t \in Thread, FlightTypes, NEW p \in Slots, NEW q \in Slots,
         Pinned(t) = p, Pinned(t)' = q \/ Pinned(t)' = NoFlight,
         \A f \in Flight : F[f].pins = flight[f].pins + (IF q = f THEN 1 ELSE 0)
                                                      - (IF p = f THEN 1 ELSE 0)
  PROVE  PinBalance(F, t)
<1>1. ASSUME NEW f \in Flight
      PROVE  F[f].pins >= flight[f].pins + (IF Pinned(t)' = f THEN 1 ELSE 0)
                                         - (IF Pinned(t) = f THEN 1 ELSE 0)
  <2>1. flight[f].pins \in Int /\ NoFlight # f
    BY PinsAreIntegers, PixelCacheConstants DEF FlightTypes, Records
  <2> QED BY <2>1
<1> QED BY <1>1 DEF PinBalance

LEMMA EndsPins ==
  ASSUME IsTyped, NEW t \in Thread, NEW F \in Records, NEW d, Ends(t, F, d),
         stage[t] = "waiter" => mine[t] # NoFlight
  PROVE  \E G \in Records : Flights(G) /\ \A f \in Flight : G[f].pins = F[f].pins
<1>1. CASE stage[t] = "waiter"
  <2>1. mine[t] \in Flight
    BY <1>1 DEF IsTyped, CallTypes, Slots
  <2>2. /\ Release(F, mine[t], t) \in Records
        /\ \A f \in Flight : Release(F, mine[t], t)[f].pins = F[f].pins
    BY <2>1, ReleaseFacts DEF SameButConsumers
  <2> QED BY <1>1, <2>2 DEF Ends
<1>2. CASE stage[t] # "waiter"
  BY <1>2 DEF Ends
<1> QED BY <1>1, <1>2

(* The records a step leaves, but for the flights it drops. *)
Leaves(F) == flight' = F \/ Flights(F)
Balanced(t) == \E F \in Records : Leaves(F) /\ PinBalance(F, t)

LEMMA LookupPins ==
  ASSUME IsTyped, PlaceInv, NEW t \in Thread, LookupStep(t)
  PROVE  Balanced(t)
<1> USE DEF IsTyped
<1>1. /\ Place(t) /\ LookingUp(t) /\ stage[t] \in Stage
      /\ lease[t] \in Slots /\ direct[t] \in Slots /\ flight \in Records
      /\ Pinned(t) = direct[t]
      /\ stage[t] = "waiter" => mine[t] # NoFlight
      /\ stage[t] # "waiter" => direct[t] = NoFlight
  BY LookupLocal DEF PlaceInv, Place, CallTypes, FlightTypes, Records, Pinned, LookingUp, Stage
<1>2. CASE Miss(t)
  <2>1. lease'[t] = NoFlight /\ direct'[t] = direct[t]
        /\ pc'[t] \in {"join", "build", "held", "complete"}
    BY <1>1, <1>2 DEF Miss, Ends, Set, Goto, CallTypes, Stage
  <2>2. Pinned(t)' = direct[t]
    BY <2>1 DEF Pinned, Result
  <2>3. PICK G \in Records : Flights(G) /\ \A f \in Flight : G[f].pins = flight[f].pins
    BY <1>1, <1>2, EndsPins DEF Miss
  <2> QED BY <1>1, <2>2, <2>3, SamePinsBalance DEF Balanced, Leaves
<1>3. CASE LookupFails(t) /\ lease[t] = NoFlight
  <2>1. lease'[t] = NoFlight /\ direct'[t] = NoFlight /\ pc'[t] \in {"failed", "complete"}
    BY <1>1, <1>3 DEF LookupFails, Ends, Set, Goto, CallTypes
  <2>2. Pinned(t)' = NoFlight
    BY <2>1 DEF Pinned, Result
  <2>3. PICK F \in Records : F = Unpin(flight, direct[t])
    BY <1>1, PinFacts
  <2>4. PICK G \in Records : Flights(G) /\ \A f \in Flight : G[f].pins = F[f].pins
    BY <1>1, <1>3, <2>3, EndsPins DEF LookupFails
  <2>5. \A f \in Flight : F[f].pins = IF f = direct[t] THEN flight[f].pins - 1 ELSE flight[f].pins
    BY <1>1, <2>3, PinFacts
  <2>6. \A f \in Flight : G[f].pins = flight[f].pins + (IF NoFlight = f THEN 1 ELSE 0)
                                                     - (IF direct[t] = f THEN 1 ELSE 0)
    BY <1>1, <2>4, <2>5, PinsAreIntegers, PixelCacheConstants
  <2>7. NoFlight \in Slots
    BY DEF Slots
  <2> QED BY <1>1, <2>2, <2>4, <2>6, <2>7, MovedPinsBalance DEF Balanced, Leaves
<1>4. CASE Hit(t) /\ pc[t] = "recheck"
  <2>1. /\ lease'[t] = lease[t] /\ direct'[t] = NoFlight /\ pc'[t] \in {"held", "complete"}
        /\ lease[t] # NoFlight
    BY <1>1, <1>4 DEF Hit, Ends, Set, Goto, CallTypes, Place
  <2>2. Pinned(t)' = lease[t]
    BY <2>1 DEF Pinned, Result
  <2>3. PICK E \in Records : E = Pin(flight, lease[t])
    BY <1>1, PinFacts
  <2>4. PICK F \in Records : F = Unpin(E, direct[t])
    BY <1>1, PinFacts
  <2>5. PICK G \in Records : Flights(G) /\ \A f \in Flight : G[f].pins = F[f].pins
    BY <1>1, <1>4, <2>3, <2>4, EndsPins DEF Hit
  <2>6. \A f \in Flight : E[f].pins = IF f = lease[t] THEN flight[f].pins + 1 ELSE flight[f].pins
    BY <1>1, <2>3, PinFacts
  <2>7. \A f \in Flight : F[f].pins = IF f = direct[t] THEN E[f].pins - 1 ELSE E[f].pins
    BY <1>1, <2>4, PinFacts
  <2>8. \A f \in Flight : G[f].pins = flight[f].pins + (IF lease[t] = f THEN 1 ELSE 0)
                                                     - (IF direct[t] = f THEN 1 ELSE 0)
    BY <1>1, <2>5, <2>6, <2>7, PinsAreIntegers
  <2> QED BY <1>1, <2>2, <2>5, <2>8, MovedPinsBalance DEF Balanced, Leaves
<1>5. CASE /\ Goto(t, "acquire") \/ Goto(t, "recheck")
           /\ UNCHANGED <<flight, direct>>
  <2>1. Pinned(t)' = direct[t]
    BY <1>5 DEF Pinned, Goto, Set, CallTypes
  <2> QED BY <1>1, <1>5, <2>1, SamePinsBalance DEF Balanced, Leaves
<1>6. CASE Probe(t)
  BY <1>2, <1>5, <1>6 DEF Probe
<1>7. CASE Acquire(t)
  <2>1. lease[t] = NoFlight
    BY <1>1, <1>7 DEF Acquire, Place
  <2> QED BY <1>2, <1>3, <1>5, <1>7, <2>1 DEF Acquire
<1>8. CASE Recheck(t)
  BY <1>2, <1>4, <1>8 DEF Recheck
<1> QED BY <1>6, <1>7, <1>8 DEF LookupStep

LEMMA BuildPins ==
  ASSUME IsTyped, PlaceInv, PlaceInv', NEW t \in Thread, BuildStep(t), ~Join(t)
  PROVE  Balanced(t)
<1> USE DEF IsTyped
<1>1. /\ Place(t) /\ Place(t)' /\ mine[t] \in Flight /\ flight \in Records
      /\ lease[t] \in Slots /\ direct[t] \in Slots /\ Result(t) \in Slots
      /\ NoFlight \in Slots /\ Flight \subseteq Slots /\ NoFlight \notin Flight
  BY PixelCacheConstants DEF PlaceInv, Place, CallTypes, FlightTypes, Records, Slots, Result,
     BuildStep, Register, StartBuild, BuilderReturns, Publish, Allocate, Complete, Leave, Wait
<1>2. CASE Register(t)
  <2>1. Pinned(t)' = Pinned(t)
    BY <1>1, <1>2 DEF Register, Place, Pinned, Set, Goto, CallTypes
  <2>2. flight' \in Records /\ \A f \in Flight : flight'[f].pins = flight[f].pins
    <3> DEFINE r == [flight[mine[t]] EXCEPT !.consumers = @ \cup {t}]
    <3>1. flight[mine[t]] \in LooseRecord
      BY <1>1 DEF FlightTypes
    <3>2. r \in LooseRecord /\ r.pins = flight[mine[t]].pins
      BY <3>1 DEF LooseRecord
    <3>3. flight' = [flight EXCEPT ![mine[t]] = r]
      BY <1>2 DEF Register
    <3> HIDE DEF r
    <3> QED BY <1>1, <3>2, <3>3 DEF Records
  <2>3. PICK F \in Records : F = flight'
    BY <2>2
  <2> QED BY <2>1, <2>2, <2>3, SamePinsBalance DEF Balanced, Leaves
<1>3. CASE StartBuild(t)
  <2>1. Pinned(t)' = NoFlight
    BY <1>1, <1>3 DEF StartBuild, Fails, Place, Pinned, Result, Set, Goto, CallTypes
  <2>2. flight' \in Records /\ \A f \in Flight : flight'[f].pins = flight[f].pins
    <3>1. flight[mine[t]] \in LooseRecord
      BY <1>1 DEF FlightTypes
    <3>2. [flight[mine[t]] EXCEPT !.birth = sequence + 1].pins = flight[mine[t]].pins
      BY <3>1 DEF LooseRecord
    <3> QED BY <1>3, <3>2, BuildFlights
  <2>3. PICK F \in Records : F = flight'
    BY <2>2
  <2> QED BY <2>1, <2>2, <2>3, SamePinsBalance DEF Balanced, Leaves
<1>4. CASE BuilderReturns(t)
  <2>1. Pinned(t)' = NoFlight /\ flight' = flight
    BY <1>1, <1>4 DEF BuilderReturns, Fails, Place, Pinned, Result, Set, Goto, CallTypes
  <2> QED BY <1>1, <2>1, SamePinsBalance DEF Balanced, Leaves
<1>5. CASE Publish(t)
  <2>1. Pinned(t) = NoFlight /\ lease'[t] = NoFlight
    BY <1>1, <1>5 DEF Publish, Place, Pinned
  <2>2. CASE Fails(t, "Shutdown") \/ Fails(t, "StalePublication")
    <3>1. CASE flight' = flight /\ direct' = direct
      <4>1. Pinned(t)' = NoFlight
        BY <1>1, <1>5, <2>1, <2>2, <3>1 DEF Publish, Fails, Place, Pinned, Result, Set, Goto, CallTypes
      <4> QED BY <1>1, <3>1, <4>1, SamePinsBalance DEF Balanced, Leaves
    <3>2. CASE UNCHANGED err
      <4>1. err'[t] = "none"
        BY <1>1, <1>5, <3>2 DEF Publish, Place
      <4> QED BY <1>5, <2>2, <4>1 DEF Fails, Set, CallTypes
    <3> QED BY <1>5, <3>1, <3>2 DEF Publish
  <2>3. CASE flight' = Pin(flight, mine[t])
    <3>1. PICK F \in Records : F = Pin(flight, mine[t])
      BY <1>1, PinFacts
    <3>2. \A f \in Flight : F[f].pins = IF f = mine[t] THEN flight[f].pins + 1 ELSE flight[f].pins
      BY <1>1, <3>1, PinFacts
    <3>3. Pinned(t)' = mine[t] \/ Pinned(t)' = NoFlight
      BY <1>1, <1>5, <2>1 DEF Publish, Fails, Place, Pinned, Result, Set, Goto, CallTypes
    <3>4. \A f \in Flight : F[f].pins = flight[f].pins + (IF mine[t] = f THEN 1 ELSE 0)
                                                       - (IF NoFlight = f THEN 1 ELSE 0)
      BY <1>1, <3>2, PinsAreIntegers
    <3> QED BY <1>1, <2>1, <2>3, <3>1, <3>3, <3>4, MovedPinsBalance DEF Balanced, Leaves
  <2> QED BY <1>5, <2>2, <2>3 DEF Publish
<1>6. CASE Allocate(t)
  <2>1. Pinned(t) = mine[t]
    BY <1>6 DEF Allocate, Pinned
  <2>2. Pinned(t)' = mine[t] \/ Pinned(t)' = NoFlight
    BY <1>1, <1>6 DEF Allocate, Place, Pinned, Result, Set, Goto, CallTypes
  <2>3. Leaves(flight)
    BY <1>6 DEF Allocate, Leaves
  <2> QED BY <1>1, <2>1, <2>2, <2>3, SamePinsBalance DEF Balanced
<1>7. CASE Complete(t)
  <2>1. Pinned(t) = Result(t)
    BY <1>7 DEF Complete, Pinned
  <2>2. PICK F \in Records :
          /\ Flights(F)
          /\ \A f \in Flight : F[f].pins = IF BecameStale(t) /\ f = Result(t)
                                           THEN flight[f].pins - 1 ELSE flight[f].pins
    BY <1>7, CompleteFlights
  <2>3. CASE ~BecameStale(t)
    <3>1. Pinned(t)' = Result(t) \/ Pinned(t)' = NoFlight
      BY <1>7 DEF Complete, Pinned, Result, Set, Goto, CallTypes
    <3> QED BY <1>1, <2>1, <2>2, <2>3, <3>1, SamePinsBalance DEF Balanced, Leaves
  <2>4. CASE BecameStale(t)
    <3>1. Pinned(t)' = NoFlight
      BY <1>7, <2>4 DEF Complete, Pinned, Result, Set, Goto, CallTypes
    <3>2. \A f \in Flight : F[f].pins = flight[f].pins + (IF NoFlight = f THEN 1 ELSE 0)
                                                       - (IF Result(t) = f THEN 1 ELSE 0)
      BY <1>1, <2>2, <2>4, PinsAreIntegers
    <3> QED BY <1>1, <2>1, <2>2, <3>1, <3>2, MovedPinsBalance DEF Balanced, Leaves
  <2> QED BY <2>3, <2>4
<1>8. CASE Leave(t)
  <2>1. Pinned(t) = Result(t)
    BY <1>8 DEF Leave, Pinned
  <2>2. PICK E \in Records : E = Release(flight, mine[t], t)
    BY <1>1, ReleaseFacts
  <2>3. \A f \in Flight : E[f].pins = flight[f].pins
    BY <1>1, <2>2, ReleaseFacts DEF SameButConsumers
  <2>4. CASE Goto(t, "held") /\ UNCHANGED <<lease, direct>> /\ Flights(E)
    <3>1. Pinned(t)' = Result(t)
      BY <2>4 DEF Pinned, Result, Set, Goto, CallTypes
    <3> QED BY <1>1, <2>1, <2>3, <2>4, <3>1, SamePinsBalance DEF Balanced, Leaves
  <2>5. CASE Goto(t, "failed") /\ direct' = Set(direct, t, NoFlight) /\ Flights(Unpin(E, Result(t)))
    <3>1. Pinned(t)' = NoFlight
      BY <2>5 DEF Pinned, Set, Goto, CallTypes
    <3>2. PICK F \in Records : F = Unpin(E, Result(t))
      BY <1>1, PinFacts
    <3>3. \A f \in Flight : F[f].pins = IF f = Result(t) THEN E[f].pins - 1 ELSE E[f].pins
      BY <1>1, <3>2, PinFacts
    <3>4. \A f \in Flight : F[f].pins = flight[f].pins + (IF NoFlight = f THEN 1 ELSE 0)
                                                       - (IF Result(t) = f THEN 1 ELSE 0)
      BY <1>1, <2>3, <3>3, PinsAreIntegers
    <3> QED BY <1>1, <2>1, <2>5, <3>1, <3>2, <3>4, MovedPinsBalance DEF Balanced, Leaves
  <2> QED BY <1>8, <2>2, <2>4, <2>5 DEF Leave
<1>9. CASE Wait(t)
  <2>1. Pinned(t) = NoFlight
    BY <1>1, <1>9 DEF Wait, Place, Pinned
  <2>2. CASE \E e \in Errors : StopWaiting(t, e)
    <3>1. Pinned(t)' = NoFlight
      BY <1>1, <1>9, <2>2 DEF StopWaiting, Wait, Place, Pinned, Set, Goto, CallTypes
    <3>2. PICK E \in Records : E = Release(flight, mine[t], t)
      BY <1>1, ReleaseFacts
    <3>3. \A f \in Flight : E[f].pins = flight[f].pins
      BY <1>1, <3>2, ReleaseFacts DEF SameButConsumers
    <3> QED BY <1>1, <2>2, <3>1, <3>2, <3>3, SamePinsBalance DEF StopWaiting, Balanced, Leaves
  <2>3. CASE /\ Goto(t, "probe") /\ direct' = Set(direct, t, flight[mine[t]].success)
             /\ flight' = Pin(flight, flight[mine[t]].success)
    <3>1. PICK v \in Slots : v = flight[mine[t]].success
      BY <1>1 DEF FlightTypes, LooseRecord
    <3>2. Pinned(t)' = v
      BY <2>3, <3>1 DEF Pinned, Set, Goto, CallTypes
    <3>3. PICK F \in Records : F = Pin(flight, v)
      BY <1>1, PinFacts
    <3>4. \A f \in Flight : F[f].pins = IF f = v THEN flight[f].pins + 1 ELSE flight[f].pins
      BY <1>1, <3>3, PinFacts
    <3>5. \A f \in Flight : F[f].pins = flight[f].pins + (IF v = f THEN 1 ELSE 0)
                                                       - (IF NoFlight = f THEN 1 ELSE 0)
      BY <1>1, <3>4, PinsAreIntegers
    <3> QED BY <1>1, <2>1, <2>3, <3>1, <3>2, <3>3, <3>5, MovedPinsBalance DEF Balanced, Leaves
  <2>4. flight[mine[t]].error \in Errors /\ "Cancelled" \in Errors
    BY <1>1 DEF FlightTypes, LooseRecord, Errors
  <2> QED BY <1>9, <2>2, <2>3, <2>4 DEF Wait
<1> QED BY <1>2, <1>3, <1>4, <1>5, <1>6, <1>7, <1>8, <1>9 DEF BuildStep

LEMMA RestPins ==
  ASSUME IsTyped, PlaceInv, PlaceInv', NEW t \in Thread, StepOf(t), ~LookupStep(t), ~BuildStep(t)
  PROVE  Balanced(t)
<1> USE DEF IsTyped
<1>1. /\ Place(t) /\ Place(t)' /\ flight \in Records /\ Result(t) \in Slots
      /\ NoFlight \in Slots /\ NoFlight \notin Flight
  BY PixelCacheConstants DEF PlaceInv, CallTypes, FlightTypes, Records, Slots, Result
<1>2. CASE Finish(t)
  <2>1. Pinned(t) = Result(t)
    BY <1>1, <1>2 DEF Finish, Place, Bare, Pinned, Result
  <2>2. Pinned(t)' = NoFlight
    BY <1>2 DEF Finish, Pinned, Set, Goto, CallTypes
  <2>3. PICK F \in Records : F = Unpin(flight, Result(t))
    BY <1>1, PinFacts
  <2>4. \A f \in Flight : F[f].pins = IF f = Result(t) THEN flight[f].pins - 1 ELSE flight[f].pins
    BY <1>1, <2>3, PinFacts
  <2>5. \A f \in Flight : F[f].pins = flight[f].pins + (IF NoFlight = f THEN 1 ELSE 0)
                                                     - (IF Result(t) = f THEN 1 ELSE 0)
    BY <1>1, <2>4, PinsAreIntegers
  <2>6. Leaves(F)
    BY <1>2, <2>3 DEF Finish, Leaves
  <2> QED BY <1>1, <2>1, <2>2, <2>3, <2>5, <2>6, MovedPinsBalance DEF Balanced
<1>3. CASE CancelToken(t)
  BY <1>1, <1>3, SamePinsBalance DEF CancelToken, Pinned, Result, Balanced, Leaves
<1>4. CASE HookFires(t)
  <2>1. Pinned(t)' = Pinned(t)
    BY <1>4 DEF HookFires, Pinned, Result
  <2>2. mine[t] \in Flight
    BY <1>4 DEF HookFires, CallTypes, Slots
  <2>3. PICK E \in Records : E = Release(flight, mine[t], t)
    BY <1>1, <2>2, ReleaseFacts
  <2>4. \A f \in Flight : E[f].pins = flight[f].pins
    BY <1>1, <2>2, <2>3, ReleaseFacts DEF SameButConsumers
  <2>5. Leaves(E)
    BY <1>4, <2>3 DEF HookFires, Leaves
  <2> QED BY <1>1, <2>1, <2>4, <2>5, SamePinsBalance DEF Balanced
<1>5. CASE \E S \in SUBSET Key : InvalidateMark(t, S)
  <2>1. PICK S \in SUBSET Key : InvalidateMark(t, S)
    BY <1>5
  <2>2. flight' \in Records /\ \A f \in Flight : flight'[f].pins = flight[f].pins
    BY <2>1, MarkFlights
  <2>3. Pinned(t)' = NoFlight
    BY <1>1, <2>1, MarkFacts DEF Place, Bare, Pinned, CallTypes
  <2>4. PICK F \in Records : F = flight'
    BY <2>2
  <2> QED BY <1>1, <2>2, <2>3, <2>4, SamePinsBalance DEF Balanced, Leaves
<1>6. CASE AdminStep(t) \/ InvalidateReturn(t) \/ \E k \in Key : Start(t, k)
  <2>1. Pinned(t)' = NoFlight
    BY <1>6, IdleAgain, AdminLocal DEF Start, InvalidateReturn, Pinned, Set, Goto, CallTypes
  <2>2. Leaves(flight)
    BY <1>6 DEF AdminStep, InvalidateUnmark, ShutdownRelease, ShutdownReturn, ShutdownMark,
       InvalidateRemove, ShutdownCheck, Remove, InvalidateReturn, Start, Leaves
  <2> QED BY <1>1, <2>1, <2>2, SamePinsBalance DEF Balanced
<1> QED BY <1>2, <1>3, <1>4, <1>5, <1>6
        DEF StepOf, Step, Call, LookupStep, BuildStep, AdminStep

Holders(f) == {u \in Thread : Pinned(u) = f}

LEMMA OneHolderMoves ==
  ASSUME NEW A \in SUBSET Thread, NEW B \in SUBSET Thread, NEW t \in Thread,
         A \ {t} = B \ {t}
  PROVE  /\ Cardinality(A) \in Nat /\ Cardinality(B) \in Nat
         /\ Cardinality(B) = Cardinality(A) + (IF t \in B THEN 1 ELSE 0)
                                            - (IF t \in A THEN 1 ELSE 0)
<1>1. IsFiniteSet(A) /\ IsFiniteSet(B) /\ IsFiniteSet(A \ {t})
  BY PixelCacheConstants, FS_Subset
<1>2. Cardinality(A) \in Nat /\ Cardinality(B) \in Nat /\ Cardinality(A \ {t}) \in Nat
  BY <1>1, FS_CardinalityType
<1>3. Cardinality(A \ {t}) = IF t \in A THEN Cardinality(A) - 1 ELSE Cardinality(A)
  BY <1>1, FS_RemoveElement
<1>4. Cardinality(A \ {t}) = IF t \in B THEN Cardinality(B) - 1 ELSE Cardinality(B)
  <2>1. Cardinality(B \ {t}) = IF t \in B THEN Cardinality(B) - 1 ELSE Cardinality(B)
    BY <1>1, FS_RemoveElement
  <2> QED BY <2>1
<1>5. PICK a \in Nat, b \in Nat, c \in Nat :
        a = Cardinality(A) /\ b = Cardinality(B) /\ c = Cardinality(A \ {t})
  BY <1>2
<1>6. b = a + (IF t \in B THEN 1 ELSE 0) - (IF t \in A THEN 1 ELSE 0)
  <2>1. (c = IF t \in A THEN a - 1 ELSE a) /\ (c = IF t \in B THEN b - 1 ELSE b)
    BY <1>3, <1>4, <1>5
  <2> QED BY <2>1
<1> QED BY <1>2, <1>5, <1>6

(* Who holds a value keeps its record. *)
LEMMA HeldIsNamed ==
  ASSUME NEW u \in Thread, NEW f \in Flight, Pinned(u)' = f
  PROVE  Named(f)'
BY DEF Pinned, Result, Named

LEMMA BalanceKeepsPins ==
  ASSUME IsTyped, PinsInv, NEW t \in Thread, Others(t), NEW F \in Records, Leaves(F),
         PinBalance(F, t)
  PROVE  PinsInv'
<1>1. ASSUME NEW u \in Thread \ {t} PROVE Pinned(u)' = Pinned(u)
  BY DEF Others, Pinned, Result
<1>2. ASSUME NEW f \in Flight
      PROVE  flight'[f].pins >= Cardinality({u \in Thread : Pinned(u)' = f})
  <2> DEFINE A == {u \in Thread : Pinned(u) = f}
             B == {u \in Thread : Pinned(u)' = f}
  <2>1. A \ {t} = B \ {t} /\ (t \in A <=> Pinned(t) = f) /\ (t \in B <=> Pinned(t)' = f)
    BY <1>1
  <2>2. flight[f].pins >= Cardinality(A) /\ flight[f].pins \in Int /\ F[f].pins \in Int
    BY PinsAreIntegers DEF PinsInv, IsTyped, FlightTypes, Records
  <2>3. A \in SUBSET Thread /\ B \in SUBSET Thread
    OBVIOUS
  <2>4. F[f].pins >= flight[f].pins + (IF t \in B THEN 1 ELSE 0) - (IF t \in A THEN 1 ELSE 0)
    BY <2>1 DEF PinBalance
  <2>5. B # {} => Named(f)'
    BY HeldIsNamed
  <2> HIDE DEF A, B
  <2>6. /\ Cardinality(A) \in Nat /\ Cardinality(B) \in Nat
        /\ Cardinality(B) = Cardinality(A) + (IF t \in B THEN 1 ELSE 0)
                                           - (IF t \in A THEN 1 ELSE 0)
    BY <2>1, <2>3, OneHolderMoves
  <2>7. F[f].pins >= Cardinality(B)
    BY <2>2, <2>4, <2>6
  <2>8. CASE flight'[f] = F[f]
    BY <2>7, <2>8 DEF B
  <2>9. CASE flight'[f] = NewFlightRecord /\ ~Named(f)'
    <3>1. Cardinality(B) = 0
      BY <2>5, <2>9, FS_EmptySet
    <3> QED BY <2>9, <3>1 DEF B, NewFlightRecord
  <2> QED BY <2>8, <2>9, FlightsKeep DEF Leaves
<1> QED BY <1>2 DEF PinsInv

LEMMA PinsPreserved ==
  ASSUME IsTyped, PlaceInv, PinsInv, Next, PlaceInv'
  PROVE  PinsInv'
<1>1. ASSUME NEW t \in Thread, StepOf(t), ~Join(t) PROVE PinsInv'
  <2>1. Balanced(t) /\ Others(t)
    BY <1>1, LookupPins, BuildPins, RestPins, CallsAreTyped
  <2> QED BY <2>1, BalanceKeepsPins DEF Balanced
<1>2. ASSUME NEW t \in Thread, Join(t) PROVE PinsInv'
  <2>1. Others(t) /\ UNCHANGED <<lease, direct>> /\ Place(t)'
    BY <1>2, CallsAreTyped, JoinFacts DEF StepOf, Step, PlaceInv
  <2>2. pc[t] = "join" /\ pc'[t] \in {"failed", "register"}
    <3>1. pc[t] = "join" /\ pc \in [Thread -> PC]
      BY <1>2, JoinFacts DEF IsTyped, CallTypes
    <3>2. RefusedByJoin(t) \/ JoinsFlight(t) \/ FoundsFlight(t)
      BY <1>2, JoinFacts
    <3> QED BY <3>1, <3>2 DEF RefusedByJoin, JoinsFlight, FoundsFlight
  <2>3. \A u \in Thread : Pinned(u)' = Pinned(u)
    BY <2>1, <2>2 DEF Others, Pinned, Result
  <2>4. ASSUME NEW f \in Flight
        PROVE  flight'[f].pins >= Cardinality({u \in Thread : Pinned(u)' = f})
    <3>1. {u \in Thread : Pinned(u)' = f} = {u \in Thread : Pinned(u) = f}
      BY <2>3
    <3>2. CASE flight'[f] = flight[f]
      BY <3>1, <3>2 DEF PinsInv
    <3>3. CASE /\ ~Referenced(f) /\ flight'[f] = [NewFlightRecord EXCEPT !.consumers = {t}]
      <4>1. {u \in Thread : Pinned(u) = f} = {}
        BY <3>3 DEF Referenced, Named, Pinned, Result
      <4>2. flight'[f].pins = 0
        BY <3>3 DEF NewFlightRecord
      <4> QED BY <3>1, <4>1, <4>2, FS_EmptySet
    <3> QED BY <1>2, <3>2, <3>3, JoinFacts DEF RefusedByJoin, JoinsFlight, FoundsFlight
  <2> QED BY <2>4 DEF PinsInv
<1>3. CASE SetBudget \/ \E k \in Key : FailureExpires(k)
  <2>1. \A u \in Thread : Pinned(u)' = Pinned(u)
    BY <1>3 DEF SetBudget, FailureExpires, Pinned, Result
  <2>2. flight \in Records /\ Leaves(flight)
    BY <1>3 DEF SetBudget, FailureExpires, Leaves, IsTyped, FlightTypes, Records
  <2>3. CASE Thread = {}
    <3>1. Cardinality({}) = 0
      BY FS_EmptySet
    <3>2. ASSUME NEW f \in Flight PROVE flight'[f].pins \in Nat
      <4>1. flight'[f] = flight[f] \/ flight'[f] = NewFlightRecord
        BY <2>2, FlightsKeep DEF Leaves
      <4>2. flight[f].pins >= 0 /\ flight[f].pins \in Int
        <5>1. flight[f].pins >= Cardinality({u \in Thread : Pinned(u) = f})
          BY DEF PinsInv
        <5>2. {u \in Thread : Pinned(u) = f} = {}
          BY <2>3
        <5> QED BY <2>2, <3>1, <5>1, <5>2, PinsAreIntegers
      <4>3. NewFlightRecord.pins = 0
        BY DEF NewFlightRecord
      <4> QED BY <4>1, <4>2, <4>3
    <3>3. ASSUME NEW f \in Flight
          PROVE  flight'[f].pins >= Cardinality({u \in Thread : Pinned(u)' = f})
      <4>1. {u \in Thread : Pinned(u)' = f} = {}
        BY <2>3
      <4> QED BY <3>1, <3>2, <4>1
    <3> QED BY <3>3 DEF PinsInv
  <2>4. ASSUME NEW t \in Thread PROVE PinsInv'
    <3>1. Others(t)
      BY <1>3 DEF SetBudget, FailureExpires, Others, callVars
    <3>2. PinBalance(flight, t)
      BY <2>1, <2>2, SamePinsBalance DEF IsTyped
    <3> QED BY <2>2, <3>1, <3>2, BalanceKeepsPins
  <2> QED BY <2>3, <2>4
<1> QED BY <1>1, <1>2, <1>3 DEF Next, StepOf

-----------------------------------------------------------------------------
(* Consumers: who leaves a flight, and when that cancels its build.          *)

SameConsumers(F) ==
  \A f \in Flight : /\ F[f].consumers = flight[f].consumers
                    /\ F[f].cancelled = flight[f].cancelled
Releases(F, t) ==
  /\ mine[t] \in Flight
  /\ \A f \in Flight \ {mine[t]} : /\ F[f].consumers = flight[f].consumers
                                   /\ F[f].cancelled = flight[f].cancelled
  /\ F[mine[t]].consumers = flight[mine[t]].consumers \ {t}
  /\ F[mine[t]].cancelled = (flight[mine[t]].cancelled \/ flight[mine[t]].consumers = {t})
  /\ cancelled[t] \/ flight[mine[t]].completed
  /\ cancelled[t] \/ mine'[t] = NoFlight
ReleasesOnly(t) == \E F \in Records : Leaves(F) /\ (SameConsumers(F) \/ Releases(F, t))

LEMMA PinsKeepConsumers ==
  ASSUME NEW F \in Records, NEW v \in Slots
  PROVE  /\ Pin(F, v) \in Records /\ Unpin(F, v) \in Records
         /\ SameConsumers(F) => SameConsumers(Pin(F, v)) /\ SameConsumers(Unpin(F, v))
         /\ \A t \in Thread : Releases(F, t) => Releases(Unpin(F, v), t)
<1>1. /\ Pin(F, v) \in Records /\ Unpin(F, v) \in Records
      /\ \A f \in Flight : /\ Pin(F, v)[f].consumers = F[f].consumers
                           /\ Pin(F, v)[f].cancelled = F[f].cancelled
                           /\ Unpin(F, v)[f].consumers = F[f].consumers
                           /\ Unpin(F, v)[f].cancelled = F[f].cancelled
  BY PinFacts DEF SameButPins
<1>2. ASSUME NEW t \in Thread, Releases(F, t) PROVE Releases(Unpin(F, v), t)
  BY <1>1, <1>2 DEF Releases
<1> QED BY <1>1, <1>2 DEF SameConsumers

LEMMA ReleaseReleases ==
  ASSUME NEW F \in Records, SameConsumers(F), NEW t \in Thread, mine[t] \in Flight,
         cancelled[t] \/ flight[mine[t]].completed, cancelled[t] \/ mine'[t] = NoFlight
  PROVE  Release(F, mine[t], t) \in Records /\ Releases(Release(F, mine[t], t), t)
<1>1. /\ Release(F, mine[t], t) \in Records
      /\ \A f \in Flight \ {mine[t]} : Release(F, mine[t], t)[f] = F[f]
      /\ Release(F, mine[t], t)[mine[t]].consumers = F[mine[t]].consumers \ {t}
      /\ Release(F, mine[t], t)[mine[t]].cancelled
           = (F[mine[t]].cancelled \/ F[mine[t]].consumers = {t})
  BY ReleaseFacts
<1>2. \A f \in Flight : /\ F[f].consumers = flight[f].consumers
                        /\ F[f].cancelled = flight[f].cancelled
  BY DEF SameConsumers
<1> QED BY <1>1, <1>2 DEF Releases

LEMMA EndsConsumers ==
  ASSUME IsTyped, PlaceInv, FlightInv, NEW t \in Thread, LookingUp(t),
         NEW F \in Records, SameConsumers(F), NEW d, Ends(t, F, d)
  PROVE  ReleasesOnly(t)
<1>1. CASE stage[t] = "waiter"
  <2>1. mine[t] \in Flight /\ flight[mine[t]].completed /\ mine'[t] = NoFlight
    BY <1>1 DEF PlaceInv, Place, FlightInv, Ends, Set, IsTyped, CallTypes, Slots
  <2>2. Release(F, mine[t], t) \in Records /\ Releases(Release(F, mine[t], t), t)
    BY <2>1, ReleaseReleases
  <2>3. Leaves(Release(F, mine[t], t))
    BY <1>1 DEF Ends, Leaves
  <2> QED BY <2>2, <2>3 DEF ReleasesOnly
<1>2. CASE stage[t] # "waiter"
  BY <1>2 DEF Ends, ReleasesOnly, Leaves
<1> QED BY <1>1, <1>2

LEMMA LookupReleases ==
  ASSUME IsTyped, PlaceInv, FlightInv, NEW t \in Thread, LookupStep(t)
  PROVE  ReleasesOnly(t)
<1>1. /\ LookingUp(t) /\ flight \in Records /\ SameConsumers(flight)
      /\ lease[t] \in Slots /\ direct[t] \in Slots
  BY LookupLocal DEF IsTyped, CallTypes, FlightTypes, Records, SameConsumers
<1>2. CASE Miss(t)
  BY <1>1, <1>2, EndsConsumers DEF Miss
<1>3. CASE LookupFails(t)
  <2>1. Unpin(flight, direct[t]) \in Records /\ SameConsumers(Unpin(flight, direct[t]))
    BY <1>1, PinsKeepConsumers
  <2> QED BY <1>1, <1>3, <2>1, EndsConsumers DEF LookupFails
<1>4. CASE Hit(t)
  <2>1. Pin(flight, lease[t]) \in Records /\ SameConsumers(Pin(flight, lease[t]))
    BY <1>1, PinsKeepConsumers
  <2>2. /\ Unpin(Pin(flight, lease[t]), direct[t]) \in Records
        /\ SameConsumers(Unpin(Pin(flight, lease[t]), direct[t]))
    BY <1>1, <2>1, PinsKeepConsumers
  <2> QED BY <1>1, <1>4, <2>2, EndsConsumers DEF Hit
<1>5. CASE flight' = flight
  BY <1>1, <1>5 DEF ReleasesOnly, Leaves
<1> QED BY <1>2, <1>3, <1>4, <1>5 DEF LookupStep, Probe, Acquire, Recheck

LEMMA BuildReleases ==
  ASSUME IsTyped, PlaceInv, FlightInv, NEW t \in Thread, BuildStep(t), ~Join(t), ~Register(t)
  PROVE  ReleasesOnly(t)
<1> USE DEF IsTyped
<1>1. /\ mine[t] \in Flight /\ flight \in Records /\ SameConsumers(flight)
      /\ Result(t) \in Slots /\ flight[mine[t]] \in LooseRecord /\ mine[t] \in Slots
  BY DEF PlaceInv, Place, CallTypes, FlightTypes, Records, Slots, Result, SameConsumers,
     BuildStep, StartBuild, BuilderReturns, Publish, Allocate, Complete, Leave, Wait
<1>2. CASE StartBuild(t)
  <2>1. \A f \in Flight : /\ flight'[f].consumers = flight[f].consumers
                          /\ flight'[f].cancelled = flight[f].cancelled
    <3>1. LET r == [flight[mine[t]] EXCEPT !.birth = sequence + 1]
          IN  r.consumers = flight[mine[t]].consumers /\ r.cancelled = flight[mine[t]].cancelled
      BY <1>1 DEF LooseRecord
    <3> QED BY <1>2, <3>1, BuildFlights
  <2>2. PICK F \in Records : F = flight'
    BY <1>2, BuildFlights
  <2> QED BY <2>1, <2>2 DEF ReleasesOnly, Leaves, SameConsumers
<1>3. CASE BuilderReturns(t) \/ Allocate(t)
  BY <1>1, <1>3 DEF BuilderReturns, Allocate, ReleasesOnly, Leaves
<1>4. CASE Publish(t)
  <2>1. Pin(flight, mine[t]) \in Records /\ SameConsumers(Pin(flight, mine[t]))
    BY <1>1, PinsKeepConsumers
  <2> QED BY <1>1, <1>4, <2>1 DEF Publish, ReleasesOnly, Leaves
<1>5. CASE Complete(t)
  <2>1. PICK F \in Records : Flights(F) /\ \A f \in Flight :
                               /\ F[f].consumers = flight[f].consumers
                               /\ F[f].cancelled = flight[f].cancelled
    BY <1>5, CompleteFlights
  <2> QED BY <2>1 DEF ReleasesOnly, Leaves, SameConsumers
<1>6. CASE Leave(t)
  <2>1. flight[mine[t]].completed /\ mine'[t] = NoFlight
    BY <1>6 DEF Leave, FlightInv, Set, CallTypes
  <2>2. PICK E \in Records : E = Release(flight, mine[t], t) /\ Releases(E, t)
    BY <1>1, <2>1, ReleaseReleases
  <2>3. Unpin(E, Result(t)) \in Records /\ Releases(Unpin(E, Result(t)), t)
    BY <1>1, <2>2, PinsKeepConsumers
  <2>4. Flights(E) \/ Flights(Unpin(E, Result(t)))
    BY <1>6, <2>2 DEF Leave
  <2> QED BY <2>2, <2>3, <2>4 DEF ReleasesOnly, Leaves
<1>7. CASE Wait(t)
  <2>1. ASSUME NEW e, StopWaiting(t, e), cancelled[t] \/ flight[mine[t]].completed
        PROVE  ReleasesOnly(t)
    <3>1. mine'[t] = NoFlight
      BY <2>1 DEF StopWaiting, Set, CallTypes
    <3>2. Release(flight, mine[t], t) \in Records /\ Releases(Release(flight, mine[t], t), t)
      BY <1>1, <2>1, <3>1, ReleaseReleases
    <3> QED BY <2>1, <3>2 DEF StopWaiting, ReleasesOnly, Leaves
  <2>2. CASE flight' = Pin(flight, flight[mine[t]].success)
    <3>1. flight[mine[t]].success \in Slots
      BY <1>1 DEF LooseRecord
    <3>2. /\ Pin(flight, flight[mine[t]].success) \in Records
          /\ SameConsumers(Pin(flight, flight[mine[t]].success))
      BY <1>1, <3>1, PinsKeepConsumers
    <3> QED BY <2>2, <3>2 DEF ReleasesOnly, Leaves
  <2> QED BY <1>7, <2>1, <2>2 DEF Wait
<1> QED BY <1>2, <1>3, <1>4, <1>5, <1>6, <1>7 DEF BuildStep

LEMMA StepsRelease ==
  ASSUME IsTyped, PlaceInv, FlightInv, NEW t \in Thread, StepOf(t), ~Join(t), ~Register(t)
  PROVE  ReleasesOnly(t)
<1> USE DEF IsTyped
<1>1. /\ flight \in Records /\ SameConsumers(flight) /\ Result(t) \in Slots
  BY DEF CallTypes, FlightTypes, Records, Slots, Result, SameConsumers
<1>2. CASE Finish(t)
  <2>1. Unpin(flight, Result(t)) \in Records /\ SameConsumers(Unpin(flight, Result(t)))
    BY <1>1, PinsKeepConsumers
  <2> QED BY <1>2, <2>1 DEF Finish, ReleasesOnly, Leaves
<1>3. CASE HookFires(t)
  <2>1. mine[t] \in Flight /\ cancelled[t] /\ flight' = Release(flight, mine[t], t)
    BY <1>3 DEF HookFires, CallTypes, Slots
  <2>2. Release(flight, mine[t], t) \in Records /\ Releases(Release(flight, mine[t], t), t)
    BY <1>1, <2>1, ReleaseReleases
  <2> QED BY <2>1, <2>2 DEF ReleasesOnly, Leaves
<1>4. CASE \E S \in SUBSET Key : InvalidateMark(t, S)
  <2>1. /\ flight' \in Records
        /\ \A f \in Flight : /\ flight'[f].consumers = flight[f].consumers
                             /\ flight'[f].cancelled = flight[f].cancelled
    BY <1>4, MarkFlights
  <2>2. PICK F \in Records : F = flight'
    BY <2>1
  <2> QED BY <2>1, <2>2 DEF ReleasesOnly, Leaves, SameConsumers
<1>5. CASE AdminStep(t) \/ InvalidateReturn(t) \/ CancelToken(t) \/ \E k \in Key : Start(t, k)
  <2>1. Leaves(flight)
    BY <1>5 DEF AdminStep, InvalidateUnmark, ShutdownRelease, ShutdownReturn, ShutdownMark,
       InvalidateRemove, ShutdownCheck, Remove, InvalidateReturn, Start, CancelToken, Leaves
  <2> QED BY <1>1, <2>1 DEF ReleasesOnly
<1> QED BY <1>2, <1>3, <1>4, <1>5, LookupReleases, BuildReleases
        DEF StepOf, Step, Call, LookupStep, BuildStep, AdminStep

LEMMA RecordKept ==
  ASSUME NEW F \in Records, Leaves(F), NEW f \in Flight
  PROVE  \/ flight'[f] = F[f]
         \/ flight'[f] = NewFlightRecord /\ ~Named(f)'
BY FlightsKeep DEF Leaves

LEMMA TokenStays ==
  ASSUME IsTyped, PlaceInv, Next, NEW u \in Thread, mine'[u] # NoFlight, ~cancelled'[u]
  PROVE  ~cancelled[u]
<1> USE DEF IsTyped, CallTypes, Set
<1>1. CASE SetBudget \/ \E k \in Key : FailureExpires(k)
  BY <1>1 DEF SetBudget, FailureExpires, callVars
<1>2. CASE \E t \in Thread \ {u} : StepOf(t)
  BY <1>2, CallsAreTyped DEF Others
<1>3. CASE LookupStep(u)
  BY <1>3 DEF LookupStep, Probe, Acquire, Recheck, callVars
<1>4. CASE BuildStep(u)
  BY <1>4 DEF BuildStep, Join, Register, StartBuild, BuilderReturns, Publish, Allocate, Complete,
     Leave, Wait, callVars
<1>5. CASE AdminStep(u) \/ InvalidateReturn(u) \/ HookFires(u) \/ CancelToken(u)
  BY <1>5 DEF AdminStep, InvalidateUnmark, ShutdownRelease, ShutdownReturn, ShutdownMark,
     InvalidateRemove, ShutdownCheck, InvalidateReturn, HookFires, CancelToken, callVars
<1>6. CASE \/ \E k \in Key : Start(u, k)
           \/ \E S \in SUBSET Key : InvalidateMark(u, S)
  BY <1>6 DEF Start, InvalidateMark
<1>7. ~Finish(u)
  BY DEF Finish, PlaceInv, Place, Bare
<1> QED BY <1>1, <1>2, <1>3, <1>4, <1>5, <1>6, <1>7
        DEF Next, StepOf, Step, Call, LookupStep, BuildStep, AdminStep

LEMMA ConsumerStays ==
  ASSUME IsTyped, PlaceInv, FlightInv, Next, NEW u \in Thread, NEW f \in Flight,
         mine[u] = f, mine'[u] = f, ~cancelled[u], u \in flight[f].consumers
  PROVE  u \in flight'[f].consumers
<1>1. f # NoFlight /\ Named(f)' /\ Referenced(f)
  BY PixelCacheConstants DEF Named, Referenced
<1>2. CASE SetBudget \/ \E k \in Key : FailureExpires(k)
  <2>1. Leaves(flight) /\ flight \in Records
    BY <1>2 DEF SetBudget, FailureExpires, Leaves, IsTyped, FlightTypes, Records
  <2> QED BY <1>1, <2>1, RecordKept
<1>3. ASSUME NEW t \in Thread, Join(t) PROVE u \in flight'[f].consumers
  BY <1>1, <1>3, JoinFacts DEF RefusedByJoin, JoinsFlight, FoundsFlight
<1>4. ASSUME NEW t \in Thread, Register(t) PROVE u \in flight'[f].consumers
  BY <1>4 DEF Register, IsTyped, FlightTypes, LooseRecord
<1>5. ASSUME NEW t \in Thread, StepOf(t), ~Join(t), ~Register(t)
      PROVE  u \in flight'[f].consumers
  <2>1. PICK F \in Records : Leaves(F) /\ (SameConsumers(F) \/ Releases(F, t))
    BY <1>5, StepsRelease DEF ReleasesOnly
  <2>2. flight'[f] = F[f]
    BY <1>1, <2>1, RecordKept
  <2>3. CASE SameConsumers(F)
    BY <2>2, <2>3 DEF SameConsumers
  <2>4. CASE Releases(F, t)
    <3>1. t # u
      BY <1>1, <2>4 DEF Releases
    <3>2. F[f].consumers = flight[f].consumers \/ F[f].consumers = flight[f].consumers \ {t}
      BY <2>4 DEF Releases
    <3> QED BY <2>2, <3>1, <3>2
  <2> QED BY <2>1, <2>3, <2>4
<1> QED BY <1>2, <1>3, <1>4, <1>5 DEF Next, StepOf

LEMMA MineMoves ==
  ASSUME IsTyped, PlaceInv, Next, PlaceInv', NEW u \in Thread, mine'[u] # NoFlight
  PROVE  mine'[u] = mine[u] \/ Join(u)
<1>1. CASE CallRests(u)
  BY <1>1 DEF CallRests
<1>2. CASE LookupStep(u)
  BY <1>2, LookupLocal
<1>3. CASE BuildStep(u) /\ ~Join(u)
  <2> USE DEF IsTyped, CallTypes, Set
  <2>1. CASE Register(u) \/ StartBuild(u) \/ BuilderReturns(u) \/ Publish(u) \/ Allocate(u)
    BY <2>1 DEF Register, StartBuild, BuilderReturns, Publish, Allocate
  <2>2. CASE Complete(u) \/ Leave(u) \/ Wait(u)
    BY <2>2 DEF Complete, Leave, Wait, StopWaiting
  <2> QED BY <1>3, <2>1, <2>2 DEF BuildStep
<1> QED BY <1>1, <1>2, <1>3, IdleAgain, StepKinds

LEMMA ConsumersPreserved ==
  ASSUME IsTyped, PlaceInv, FlightInv, ConsumersInv, Next, IsTyped', PlaceInv'
  PROVE  ConsumersInv'
<1>1. ASSUME NEW u \in Thread, NEW f \in Flight, mine'[u] = f,
             pc'[u] = "register" => stage'[u] = "owner",
             ~cancelled'[u], ~flight'[f].completed
      PROVE  u \in flight'[f].consumers
  <2>1. f # NoFlight /\ Referenced(f)' /\ ~cancelled[u]
    BY <1>1, TokenStays, PixelCacheConstants DEF Named, Referenced
  <2>2. CASE Join(u)
    <3>1. RefusedByJoin(u) \/ JoinsFlight(u) \/ FoundsFlight(u)
      BY <2>2, JoinFacts
    <3>2. ~RefusedByJoin(u)
      BY <1>1, <2>1, <2>2 DEF RefusedByJoin, Join, PlaceInv, Place, Bare
    <3>3. ~JoinsFlight(u)
      BY <1>1 DEF JoinsFlight, IsTyped, CallTypes
    <3>4. ASSUME FoundsFlight(u) PROVE u \in flight'[f].consumers
      <4>1. f = NewFlight
        BY <1>1, <3>4 DEF FoundsFlight, IsTyped, CallTypes
      <4> QED BY <3>4, <4>1 DEF FoundsFlight, NewFlightRecord
    <3> QED BY <3>1, <3>2, <3>3, <3>4
  <2>3. CASE mine[u] = f
    <3>1. Referenced(f)
      BY <2>3 DEF Named, Referenced
    <3>2. ~flight[f].completed
      BY <1>1, <2>1, <3>1, CompletedStays
    <3>3. CASE pc[u] = "register" => stage[u] = "owner"
      <4>1. u \in flight[f].consumers
        BY <2>1, <2>3, <3>2, <3>3 DEF ConsumersInv
      <4> QED BY <1>1, <2>1, <2>3, <4>1, ConsumerStays
    <3>4. CASE pc[u] = "register" /\ stage[u] # "owner"
      <4>1. ~CallRests(u)
        BY <1>1, <3>4 DEF CallRests
      <4>2. ~LookupStep(u)
        BY <3>4, LookupLocal DEF LookingUp
      <4>3. ASSUME Register(u) PROVE u \in flight'[f].consumers
        BY <2>3, <4>3 DEF Register, IsTyped, FlightTypes, LooseRecord
      <4>4. BuildStep(u) => Register(u)
        BY <3>4 DEF BuildStep, Join, StartBuild, BuilderReturns, Publish, Allocate, Complete,
           Leave, Wait
      <4> QED BY <1>1, <2>1, <4>1, <4>2, <4>3, <4>4, IdleAgain, StepKinds
    <3> QED BY <3>3, <3>4
  <2> QED BY <1>1, <2>1, <2>2, <2>3, MineMoves
<1>2. ASSUME NEW u \in Thread, mine'[u] # NoFlight PROVE mine'[u] \in Flight
  BY <1>2 DEF IsTyped, CallTypes, Slots
<1> QED BY <1>1, <1>2 DEF ConsumersInv

LEMMA CancelServes ==
  ASSUME IsTyped, PlaceInv, FlightInv, ConsumersInv, Next, NEW f \in Flight,
         ~flight[f].cancelled, flight'[f].cancelled, ~flight[f].completed,
         NEW u \in Thread, mine[u] = f, pc[u] = "register" => stage[u] = "owner"
  PROVE  cancelled[u]
<1>1. f # NoFlight /\ ~NewFlightRecord.cancelled
  BY PixelCacheConstants DEF NewFlightRecord
<1>2. CASE SetBudget \/ \E k \in Key : FailureExpires(k)
  <2>1. Leaves(flight) /\ flight \in Records
    BY <1>2 DEF SetBudget, FailureExpires, Leaves, IsTyped, FlightTypes, Records
  <2> QED BY <1>1, <2>1, RecordKept
<1>3. ASSUME NEW t \in Thread, Join(t) PROVE FALSE
  <2>1. flight'[f] = flight[f] \/ ~flight'[f].cancelled
    BY <1>1, <1>3, JoinFacts DEF RefusedByJoin, JoinsFlight, FoundsFlight, NewFlightRecord
  <2> QED BY <2>1
<1>4. ASSUME NEW t \in Thread, Register(t) PROVE FALSE
  BY <1>4 DEF Register, IsTyped, FlightTypes, LooseRecord
<1>5. ASSUME NEW t \in Thread, StepOf(t), ~Join(t), ~Register(t)
      PROVE  cancelled[u]
  <2>1. PICK F \in Records : Leaves(F) /\ (SameConsumers(F) \/ Releases(F, t))
    BY <1>5, StepsRelease DEF ReleasesOnly
  <2>2. flight'[f] = F[f]
    BY <1>1, <2>1, RecordKept
  <2>3. ~SameConsumers(F)
    BY <2>2 DEF SameConsumers
  <2>4. mine[t] = f /\ flight[f].consumers = {t} /\ cancelled[t]
    BY <2>1, <2>2, <2>3 DEF Releases
  <2>5. ~cancelled[u] => u \in flight[f].consumers
    BY <1>1 DEF ConsumersInv
  <2> QED BY <2>4, <2>5
<1> QED BY <1>2, <1>3, <1>4, <1>5 DEF Next, StepOf

-----------------------------------------------------------------------------
(* The inductive invariant, and what follows from it.                        *)

LEMMA InitHasInv == Init => CacheInv
<1> SUFFICES ASSUME Init PROVE CacheInv
  OBVIOUS
<1>1. /\ AnyKey \in Key /\ NewFlightRecord \in LooseRecord /\ NoFlight \in Slots
      /\ NoFlight \notin Flight /\ MaxInvalidations \in Nat
  BY AnyKeyInKey, NewRecordIsTyped, PixelCacheConstants DEF Slots
<1>2. IsTyped
  <2>1. CallTypes
    BY <1>1 DEF Init, CallTypes, PC, Stage, Errors
  <2>2. CacheTypes
    <3>1. 0 \in 0..MaxInvalidations
      BY <1>1
    <3>2. /\ entries \in [Key -> Slots] /\ pending \in [Key -> Slots]
          /\ inFlight \in [Key -> Slots] /\ settled \in [Key -> 0..MaxInvalidations]
      BY <1>1, <3>1 DEF Init
    <3>3. /\ invalidating \subseteq Key /\ failures \subseteq Key
          /\ sequence \in 0..MaxInvalidations /\ oversize \in BOOLEAN /\ shutdown \in BOOLEAN
      BY <3>1 DEF Init
    <3> QED BY <3>2, <3>3 DEF CacheTypes
  <2>3. FlightTypes
    BY <1>1 DEF Init, FlightTypes
  <2> QED BY <2>1, <2>2, <2>3 DEF IsTyped
<1>3. PlaceInv
  <2>1. ASSUME NEW t \in Thread PROVE Place(t)
    <3>1. publication # t
      BY PixelCacheConstants DEF Init
    <3> QED BY <3>1 DEF Init, Place, Bare, Result, LookingUp
  <2> QED BY <2>1 DEF PlaceInv
<1>4. OwnerInv /\ PendingInv /\ DoomInv
  BY DEF Init, OwnerInv, Owns, PendingInv, DoomInv
<1>5. ClockInv /\ EntryInv /\ ConsumersInv
  BY <1>1 DEF Init, ClockInv, Calls, EntryInv, ConsumersInv, NewFlightRecord
<1>6. FlightInv
  BY DEF Init, FlightInv, LookingUp
<1>7. PinsInv
  <2>1. ASSUME NEW f \in Flight
        PROVE  flight[f].pins >= Cardinality({t \in Thread : Pinned(t) = f})
    <3>1. {t \in Thread : Pinned(t) = f} = {}
      BY <1>1 DEF Init, Pinned
    <3>2. flight[f].pins = 0
      BY DEF Init, NewFlightRecord
    <3> QED BY <3>1, <3>2, FS_EmptySet
  <2> QED BY <2>1 DEF PinsInv
<1> QED BY <1>2, <1>3, <1>4, <1>5, <1>6, <1>7 DEF CacheInv

LEMMA StepKeepsInv == CacheInv /\ Next => CacheInv'
<1> SUFFICES ASSUME CacheInv, Next PROVE CacheInv'
  OBVIOUS
<1> USE DEF CacheInv
<1>1. IsTyped'
  BY TypesPreserved
<1>2. PlaceInv'
  BY PlacePreserved
<1>3. OwnerInv' /\ PendingInv' /\ DoomInv'
  BY <1>1, <1>2, OwnersPreserved, PendingPreserved, DoomPreserved
<1>4. ClockInv' /\ EntryInv' /\ FlightInv'
  BY <1>1, <1>2, ClockPreserved, EntriesPreserved, FlightsPreserved
<1>5. PinsInv' /\ ConsumersInv'
  BY <1>1, <1>2, PinsPreserved, ConsumersPreserved
<1> QED BY <1>1, <1>2, <1>3, <1>4, <1>5

LEMMA StutterKeepsInv == CacheInv /\ UNCHANGED vars => CacheInv'
<1> SUFFICES ASSUME CacheInv, UNCHANGED vars PROVE CacheInv'
  OBVIOUS
<1> USE DEF CacheInv, vars
<1>1. IsTyped'
  BY DEF IsTyped, CallTypes, CacheTypes, FlightTypes
<1>2. PlaceInv'
  BY DEF PlaceInv, Place, Bare, Result, LookingUp
<1>3. OwnerInv' /\ PendingInv' /\ DoomInv'
  BY DEF OwnerInv, Owns, PendingInv, DoomInv, Doomed, HasToRemove
<1>4. ClockInv' /\ EntryInv'
  BY DEF ClockInv, Calls, EntryInv, Invalidates, HasToRemove
<1>5. FlightInv'
  BY DEF FlightInv, Fresh, Invalidates, LookingUp
<1>6. PinsInv'
  <2>1. \A t \in Thread : Pinned(t)' = Pinned(t)
    BY DEF Pinned, Result
  <2>2. \A f \in Flight : {t \in Thread : Pinned(t)' = f} = {t \in Thread : Pinned(t) = f}
    BY <2>1
  <2>3. ASSUME NEW f \in Flight
        PROVE  flight'[f].pins >= Cardinality({t \in Thread : Pinned(t)' = f})
    BY <2>2 DEF PinsInv
  <2> QED BY <2>3 DEF PinsInv
<1>7. ConsumersInv'
  BY DEF ConsumersInv
<1> QED BY <1>1, <1>2, <1>3, <1>4, <1>5, <1>6, <1>7

(* Where the threads may be in their calls, who owns which flight, what an   *)
(* invalidation has still to remove, how old the values are and how often    *)
(* they are pinned: CacheInv holds of every reachable state.                 *)
THEOREM CacheInvHolds == Spec => []CacheInv
<1>1. CacheInv /\ [Next]_vars => CacheInv'
  BY StepKeepsInv, StutterKeepsInv
<1> QED BY <1>1, InitHasInv, PTL DEF Spec

(* Every variable keeps its type, for any threads, keys and bound: a value   *)
(* (ResidentArtifact) is never unpinned more often than it was pinned.       *)
THEOREM CacheIsWellTyped == Spec => []TypeOK
<1>1. ASSUME CacheInv PROVE TypeOK
  <2>1. ASSUME NEW f \in Flight PROVE flight[f] \in FlightRecord
    <3>1. flight[f] \in LooseRecord
      BY <1>1 DEF CacheInv, IsTyped, FlightTypes
    <3>2. flight[f].pins >= Cardinality({t \in Thread : Pinned(t) = f})
      BY <1>1 DEF CacheInv, PinsInv
    <3>3. Cardinality({t \in Thread : Pinned(t) = f}) \in Nat
      <4>1. IsFiniteSet({t \in Thread : Pinned(t) = f})
        BY PixelCacheConstants, FS_Subset
      <4> QED BY <4>1, FS_CardinalityType
    <3>4. flight[f].pins \in Nat
      BY <3>1, <3>2, <3>3 DEF LooseRecord
    <3> QED BY <3>1, <3>4 DEF LooseRecord, FlightRecord, Slots
  <2>2. flight \in [Flight -> FlightRecord]
    BY <1>1, <2>1 DEF CacheInv, IsTyped, FlightTypes
  <2> QED BY <1>1, <2>2 DEF CacheInv, IsTyped, CallTypes, CacheTypes, Slots, TypeOK
<1> QED BY <1>1, CacheInvHolds, PTL

(* get_or_build "builds one exact key at most once at a time", however many  *)
(* callers, invalidations and cancellations there are: two builders never    *)
(* run for a key, and one runs only while the key's entry is absent or about *)
(* to be removed.                                                            *)
THEOREM BuildsAreUnique == Spec => []OneBuildAKey
<1>1. ASSUME CacheInv PROVE OneBuildAKey
  <2>1. ASSUME NEW t \in Thread, Building(t) PROVE Owns(t) /\ pc[t] = "build"
    BY <1>1, <2>1 DEF CacheInv, PlaceInv, Place, Building, Owns
  <2>2. ASSUME NEW t \in Thread, NEW u \in Thread, Building(t), Building(u), key[u] = key[t]
        PROVE  u = t
    BY <1>1, <2>1, <2>2, OneOwnerAKey DEF CacheInv
  <2>3. ASSUME NEW t \in Thread, Building(t), entries[key[t]] # NoFlight
        PROVE  Doomed(key[t])
    BY <1>1, <2>1, <2>3 DEF CacheInv, DoomInv
  <2> QED BY <2>2, <2>3 DEF OneBuildAKey
<1> QED BY <1>1, CacheInvHolds, PTL

(* Once an invalidation has returned, nothing built before it is in the      *)
(* cache, and no later call gets it, from an entry or from a flight.         *)
THEOREM NothingStaleIsServed == Spec => []NothingStale
<1>1. ASSUME CacheInv PROVE NothingStale
  <2>1. ASSUME NEW k \in Key, entries[k] # NoFlight
        PROVE  flight[entries[k]].birth > settled[k]
    BY <1>1, <2>1 DEF CacheInv, EntryInv
  <2>2. ASSUME NEW t \in Thread, pc[t] = "held" PROVE flight[Result(t)].birth > floor[t]
    <3>1. /\ Result(t) # NoFlight /\ Calls(t) /\ key[t] \in Key
      BY <1>1, <2>2 DEF CacheInv, PlaceInv, Place, Calls, IsTyped, CallTypes
    <3>2. CASE lease[t] # NoFlight
      <4>1. PICK g \in Flight : g = lease[t]
        BY <1>1, <3>2 DEF CacheInv, IsTyped, CallTypes, Slots
      <4>2. entries[key[t]] = g /\ Result(t) = g
        BY <1>1, <3>2, <4>1 DEF CacheInv, EntryInv, Result
      <4>3. flight[g].birth > settled[key[t]]
        BY <2>1, <3>1, <3>2, <4>1, <4>2
      <4>4. floor[t] =< settled[key[t]]
        BY <1>1, <3>1 DEF CacheInv, ClockInv
      <4>5. flight[g].birth \in Nat /\ floor[t] \in Nat /\ settled[key[t]] \in Nat
        BY <1>1, <3>1 DEF CacheInv, IsTyped, CallTypes, CacheTypes, FlightTypes, LooseRecord
      <4> QED BY <4>2, <4>3, <4>4, <4>5
    <3>3. CASE lease[t] = NoFlight
      <4>1. direct[t] = Result(t) /\ direct[t] # NoFlight
        BY <3>1, <3>3 DEF Result
      <4> QED BY <1>1, <4>1 DEF CacheInv, FlightInv
    <3> QED BY <3>2, <3>3
  <2> QED BY <2>1, <2>2 DEF NothingStale
<1> QED BY <1>1, CacheInvHolds, PTL

(* release_consumer cancels an unfinished build only when every call that    *)
(* has registered with its flight, the owner's included, is cancelled.       *)
THEOREM BuildsOutliveTheirCallers == Spec => BuildServesConsumers
<1> DEFINE Serves ==
      \A f \in Flight : ~flight[f].cancelled /\ flight'[f].cancelled /\ ~flight[f].completed =>
        \A t \in Thread : mine[t] = f /\ (pc[t] = "register" => stage[t] = "owner")
                            => cancelled[t]
<1>1. ASSUME CacheInv, Next PROVE Serves
  BY <1>1, CancelServes DEF CacheInv
<1>2. CacheInv /\ [Next]_vars => [Serves]_vars
  BY <1>1
<1> QED BY <1>2, CacheInvHolds, PTL DEF Spec, BuildServesConsumers

=============================================================================
