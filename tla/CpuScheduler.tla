---------------------------- MODULE CpuScheduler ----------------------------
(***************************************************************************)
(* The bounded CPU scheduler of crates/rusttable-pixelpipe/src/scheduler:  *)
(* admission under queue and memory limits, dependencies, weighted and     *)
(* ageing priorities, cancellation and shutdown.                           *)
(*                                                                         *)
(* Every call takes &mut self, so calls do not overlap; the cancellation   *)
(* tokens of tasks belong to others and change at any time, also while     *)
(* start_next looks through its queues one task after the other.  A call   *)
(* that is refused changes only counters, which are not modelled.          *)
(***************************************************************************)
EXTENDS Integers, Sequences, FiniteSets, SequencesExt

CONSTANTS Task, NoTask,
          PriorityOf, Dependencies, Memory, Workers,   \* TaskSpec, ResourceClaim
          Pipelines,           \* the tasks whose claim has active_pipeline
          Cancellable,         \* the tasks somebody may cancel
          TotalQueueLimit, PerClassQueueLimit, ActivePipelineLimit,
          WorkerLimit, MemoryLimit,                    \* SchedulerConfig
          MaxClock, MaxDeficit   \* bounds of the model, see Tick and StartNext

VARIABLES
  state, sequence, enqueuedAt, cancelRequested,   \* TaskRecord
  queues, deficits,                               \* QueueState
  admittedMemory, activeMemory, activeWorkers, activePipelines,
  degraded, shutdown,    \* shutdown: the modes it was called with
  todo,                  \* what start_next has still to refresh, or NotStarting
  token, clock           \* the tasks' tokens; time, in units of aging_after

taskVars == <<state, sequence, enqueuedAt, cancelRequested>>
activeVars == <<activeMemory, activeWorkers, activePipelines>>
callVars == <<degraded, shutdown, todo>>
vars == <<state, sequence, enqueuedAt, cancelRequested, queues, deficits,
          admittedMemory, activeMemory, activeWorkers, activePipelines,
          degraded, shutdown, todo, token, clock>>

(* CpuPriority, in its declared order, and its weights. *)
Priorities == <<"InteractivePreview", "VisibleFullView", "UserExport", "VisibleThumbnail",
                "PrefetchThumbnail", "BackgroundAnalysis", "Maintenance">>
Priority == Range(Priorities)
Weight == [p \in Priority |->
             CASE p = "InteractivePreview" -> 16 [] p = "VisibleFullView" -> 8
               [] p \in {"UserExport", "VisibleThumbnail"} -> 4
               [] p = "PrefetchThumbnail" -> 2 [] OTHER -> 1]
Interactive(t) == PriorityOf[t] \in {"InteractivePreview", "VisibleFullView"}

ASSUME SchedulerConstants ==
  /\ IsFiniteSet(Task) /\ NoTask \notin Task /\ PriorityOf \in [Task -> Priority]
  /\ Dependencies \in [Task -> SUBSET Task] /\ \A t \in Task : t \notin Dependencies[t]
  /\ Memory \in [Task -> Nat \ {0}] /\ Workers \in [Task -> Nat \ {0}]
  /\ Pipelines \subseteq Task /\ Cancellable \subseteq Task
  /\ {TotalQueueLimit, PerClassQueueLimit, ActivePipelineLimit, WorkerLimit, MemoryLimit}
       \subseteq Nat \ {0}
  /\ PerClassQueueLimit =< TotalQueueLimit /\ MaxClock \in Nat /\ MaxDeficit \in Nat

Terminal == {"Passed", "Failed", "Cancelled", "Skipped"}
State == {"None", "Queued", "Running"} \cup Terminal
NotStarting == <<NoTask>>

Init ==
  /\ state = [t \in Task |-> "None"] /\ sequence = [t \in Task |-> 0]
  /\ enqueuedAt = [t \in Task |-> 0] /\ cancelRequested = [t \in Task |-> FALSE]
  /\ queues = [p \in Priority |-> <<>>] /\ deficits = [p \in Priority |-> 0]
  /\ admittedMemory = 0 /\ activeMemory = 0 /\ activeWorkers = 0 /\ activePipelines = 0
  /\ degraded = FALSE /\ shutdown = {} /\ todo = NotStarting
  /\ token = [t \in Task |-> FALSE] /\ clock = 0

InState(s) == {t \in Task : state[t] = s}
Known(t) == state[t] # "None"
ShuttingDown == shutdown # {}
Idle == todo = NotStarting
QueueLength == SumFunctionOnSet([p \in Priority |-> Len(queues[p])], Priority)
MemoryOf(S) == SumFunctionOnSet(Memory, S)

-----------------------------------------------------------------------------
(* submit *)

MemoryReservation == IF MemoryLimit \div 5 > 1 THEN MemoryLimit \div 5 ELSE 1

DependenciesKnown_Unchecked(t) == TRUE   \* mutant
DependenciesKnown(t) == \A d \in Dependencies[t] : Known(d)

QueuesHaveRoom(t) ==
  /\ QueueLength < TotalQueueLimit
  /\ Len(queues[PriorityOf[t]]) < PerClassQueueLimit

ClaimIsValid(t) == Workers[t] =< WorkerLimit /\ Memory[t] =< MemoryLimit

MemoryAvailable(t) ==
  admittedMemory + Memory[t] =<
    (IF Interactive(t) THEN MemoryLimit ELSE MemoryLimit - MemoryReservation)

Submit(t) ==
  /\ Idle /\ ~ShuttingDown /\ ~degraded /\ ~Known(t)
  /\ DependenciesKnown(t) /\ QueuesHaveRoom(t) /\ ClaimIsValid(t) /\ MemoryAvailable(t)
  /\ state' = [state EXCEPT ![t] = "Queued"]
  /\ sequence' = [sequence EXCEPT ![t] = Cardinality({u \in Task : Known(u)}) + 1]
  /\ enqueuedAt' = [enqueuedAt EXCEPT ![t] = clock]
  /\ queues' = [queues EXCEPT ![PriorityOf[t]] = Append(@, t)]
  /\ admittedMemory' = admittedMemory + Memory[t]
  /\ UNCHANGED <<cancelRequested, deficits, activeVars, callVars, token, clock>>

-----------------------------------------------------------------------------
(* finish_queued and finish_running: the end of tasks, and of their claims.  *)

Without(q, S) ==
  LET kept[n \in 0 .. Len(q)] == IF n = 0 THEN <<>> ELSE
        IF q[n] \in S THEN kept[n - 1] ELSE Append(kept[n - 1], q[n])
  IN  kept[Len(q)]

Dequeue(S) == queues' = [p \in Priority |-> Without(queues[p], S)]

FinishQueued_KeepsClaim(S, to) ==   \* mutant
  /\ state' = [t \in Task |-> IF t \in S THEN to ELSE state[t]]
  /\ Dequeue(S) /\ UNCHANGED <<admittedMemory, activeVars>>
FinishQueued(S, to) ==
  /\ state' = [t \in Task |-> IF t \in S THEN to ELSE state[t]]
  /\ Dequeue(S) /\ admittedMemory' = admittedMemory - MemoryOf(S)
  /\ UNCHANGED activeVars

FinishRunning(t, to) ==
  /\ Idle /\ state[t] = "Running"
  /\ state' = [state EXCEPT ![t] = to]
  /\ admittedMemory' = admittedMemory - Memory[t]
  /\ activeMemory' = activeMemory - Memory[t]
  /\ activeWorkers' = activeWorkers - Workers[t]
  /\ activePipelines' = activePipelines - (IF t \in Pipelines THEN 1 ELSE 0)
  /\ UNCHANGED <<sequence, enqueuedAt, queues, deficits, shutdown, todo, token, clock>>

-----------------------------------------------------------------------------
(* start_next *)

AllQueued == queues[Priorities[1]] \o queues[Priorities[2]] \o queues[Priorities[3]] \o
             queues[Priorities[4]] \o queues[Priorities[5]] \o queues[Priorities[6]] \o
             queues[Priorities[7]]

(* With nothing queued the call changes nothing. *)
StartNext ==
  /\ Idle /\ QueueLength > 0 /\ \A p \in Priority : deficits[p] < MaxDeficit
  /\ todo' = AllQueued
  /\ UNCHANGED <<taskVars, queues, deficits, admittedMemory, activeVars, degraded, shutdown,
                 token, clock>>

DependencyFailed(t) ==
  \E d \in Dependencies[t] : state[d] \in {"Failed", "Cancelled", "Skipped"}
DependenciesPassed_AnyEnd(t) ==   \* mutant
  \A d \in Dependencies[t] : state[d] \in Terminal
DependenciesPassed(t) == \A d \in Dependencies[t] : state[d] = "Passed"

RefreshQueued ==
  LET t == Head(todo) IN
  /\ ~Idle /\ todo # <<>> /\ todo' = Tail(todo)
  /\ \/ token[t] /\ FinishQueued({t}, "Cancelled")
     \/ ~token[t] /\ DependencyFailed(t) /\ FinishQueued({t}, "Skipped")
     \/ /\ ~token[t] /\ ~DependencyFailed(t)
        /\ UNCHANGED <<state, queues, admittedMemory, activeVars>>
  /\ UNCHANGED <<sequence, enqueuedAt, cancelRequested, deficits, degraded, shutdown, token,
                 clock>>

Runnable(p) == {i \in DOMAIN queues[p] : DependenciesPassed(queues[p][i])}
RunnableTask(p) == IF Runnable(p) = {} THEN NoTask ELSE queues[p][Min(Runnable(p))]

(* Every waiting class is credited its weight; the class chosen pays its own *)
(* back, whether its task can be started or not.                             *)
Credit(p) == deficits[p] + (IF queues[p] # <<>> THEN Weight[p] ELSE 0)
Score(p) == Credit(p) + (clock - enqueuedAt[RunnableTask(p)])
Contending == {p \in Priority : RunnableTask(p) # NoTask}
Before(p, q) ==
  \/ Score(p) > Score(q)
  \/ Score(p) = Score(q) /\ sequence[RunnableTask(p)] < sequence[RunnableTask(q)]
SelectPriority == CHOOSE p \in Contending : \A q \in Contending \ {p} : Before(p, q)

FitsActive(t) ==
  /\ activeWorkers + Workers[t] =< WorkerLimit
  /\ activeMemory + Memory[t] =< MemoryLimit
  /\ t \in Pipelines => activePipelines < ActivePipelineLimit

Charged == [q \in Priority |-> Credit(q) - (IF q = SelectPriority THEN Weight[q] ELSE 0)]

(* Nothing can run: the waiting classes keep their credit. *)
NothingRunnable ==
  /\ todo = <<>> /\ Contending = {} /\ todo' = NotStarting
  /\ deficits' = [q \in Priority |-> Credit(q)]
  /\ UNCHANGED <<taskVars, queues, admittedMemory, activeVars, degraded, shutdown, token,
                 clock>>

DoesNotFit ==
  /\ todo = <<>> /\ Contending # {} /\ todo' = NotStarting
  /\ ~FitsActive(RunnableTask(SelectPriority)) /\ deficits' = Charged
  /\ UNCHANGED <<taskVars, queues, admittedMemory, activeVars, degraded, shutdown, token,
                 clock>>

StartTask ==
  LET t == RunnableTask(SelectPriority) IN
  /\ todo = <<>> /\ Contending # {} /\ todo' = NotStarting
  /\ FitsActive(t) /\ deficits' = Charged
  /\ state' = [state EXCEPT ![t] = "Running"] /\ Dequeue({t})
  /\ activeMemory' = activeMemory + Memory[t] /\ activeWorkers' = activeWorkers + Workers[t]
  /\ activePipelines' = activePipelines + (IF t \in Pipelines THEN 1 ELSE 0)
  /\ UNCHANGED <<sequence, enqueuedAt, cancelRequested, admittedMemory, degraded, shutdown,
                 token, clock>>

-----------------------------------------------------------------------------
(* Running tasks. *)

Interrupted(t) == ShuttingDown \/ cancelRequested[t] \/ token[t]

WorkUnitBoundary(t) ==
  /\ Idle /\ state[t] = "Running" /\ Interrupted(t)
  /\ cancelRequested' = [cancelRequested EXCEPT ![t] = TRUE]
  /\ UNCHANGED <<state, sequence, enqueuedAt, queues, deficits, admittedMemory, activeVars,
                 callVars, token, clock>>

CompleteSuccess(t) ==
  /\ FinishRunning(t, IF Interrupted(t) THEN "Cancelled" ELSE "Passed")
  /\ cancelRequested' = [cancelRequested EXCEPT ![t] = Interrupted(t)]
  /\ UNCHANGED degraded

(* Its owner may report a running task cancelled, asked to or not. *)
CompleteCancelled(t) ==
  /\ FinishRunning(t, "Cancelled")
  /\ UNCHANGED <<cancelRequested, degraded>>

(* complete_failure; also what confirm_leases does on a mismatch. *)
CompleteFailure(t) ==
  /\ FinishRunning(t, "Failed") /\ UNCHANGED <<cancelRequested, degraded>>

(* run_task: a panic of the work is contained, and degrades the scheduler.   *)
(* (The token may be cancelled while the unit of work runs.)                 *)
WorkPanics(t) ==
  /\ ~ShuttingDown /\ ~cancelRequested[t] /\ FinishRunning(t, "Failed") /\ degraded' = TRUE
  /\ UNCHANGED cancelRequested

CancelQueued(t) ==
  /\ Idle /\ t \in Cancellable /\ state[t] = "Queued" /\ FinishQueued({t}, "Cancelled")
  /\ UNCHANGED <<sequence, enqueuedAt, cancelRequested, deficits, callVars, token, clock>>

CancelRunning(t) ==
  /\ Idle /\ t \in Cancellable /\ state[t] = "Running"
  /\ cancelRequested' = [cancelRequested EXCEPT ![t] = TRUE]
  /\ UNCHANGED <<state, sequence, enqueuedAt, queues, deficits, admittedMemory, activeVars,
                 callVars, token, clock>>

CancelToken(t) ==
  /\ t \in Cancellable /\ ~token[t] /\ token' = [token EXCEPT ![t] = TRUE]
  /\ UNCHANGED <<taskVars, queues, deficits, admittedMemory, activeVars, callVars, clock>>

(* shutdown: queued tasks are cancelled, running ones asked to stop; in mode *)
(* DrainVisible those of the interactive priorities are spared.              *)
Spared_AbortToo(m) == {t \in Task : Interactive(t)}   \* mutant
Spared(m) == IF m = "AbortAll" THEN {} ELSE {t \in Task : Interactive(t)}

Shutdown(m) ==
  /\ Idle /\ m \notin shutdown /\ shutdown' = shutdown \cup {m}
  /\ FinishQueued(InState("Queued") \ Spared(m), "Cancelled")
  /\ cancelRequested' = [t \in Task |-> cancelRequested[t] \/
                           (state[t] = "Running" /\ t \notin Spared(m))]
  /\ UNCHANGED <<sequence, enqueuedAt, deficits, degraded, todo, token, clock>>

Tick ==
  /\ clock < MaxClock /\ clock' = clock + 1
  /\ UNCHANGED <<taskVars, queues, deficits, admittedMemory, activeVars, callVars, token>>

Next ==
  \/ \E t \in Task :
       \/ Submit(t) \/ WorkUnitBoundary(t) \/ CompleteSuccess(t) \/ CompleteCancelled(t)
       \/ CompleteFailure(t) \/ WorkPanics(t) \/ CancelQueued(t) \/ CancelRunning(t)
       \/ CancelToken(t)
  \/ StartNext \/ RefreshQueued \/ NothingRunnable \/ DoesNotFit \/ StartTask
  \/ (\E m \in {"DrainVisible", "AbortAll"} : Shutdown(m)) \/ Tick

Spec == Init /\ [][Next]_vars

-----------------------------------------------------------------------------
TypeOK ==
  /\ state \in [Task -> State] /\ sequence \in [Task -> 0..Cardinality(Task)]
  /\ enqueuedAt \in [Task -> 0..MaxClock] /\ cancelRequested \in [Task -> BOOLEAN]
  /\ queues \in [Priority -> Seq(Task)] /\ QueueLength =< TotalQueueLimit
  /\ deficits \in [Priority -> Int]
  /\ {admittedMemory, activeMemory, activeWorkers, activePipelines} \subseteq Nat
  /\ degraded \in BOOLEAN /\ shutdown \subseteq {"DrainVisible", "AbortAll"}
  /\ todo \in Seq(Task \cup {NoTask}) /\ token \in [Task -> BOOLEAN] /\ clock \in 0..MaxClock

(* The accounts are what the tasks in hand claim, whatever way they end, and *)
(* stay within the configured limits: "memory and worker limits are hard".   *)
AccountsBalance ==
  LET queued == InState("Queued") running == InState("Running") IN
  /\ admittedMemory = MemoryOf(queued \cup running) /\ admittedMemory =< MemoryLimit
  /\ activeMemory = MemoryOf(running)
  /\ activeWorkers = SumFunctionOnSet(Workers, running)
  /\ activePipelines = Cardinality(running \cap Pipelines)
  /\ activeWorkers =< WorkerLimit /\ activePipelines =< ActivePipelineLimit

(* Background work never takes the memory reserved for interactive tasks.    *)
InteractiveReserve ==
  MemoryOf({t \in InState("Queued") \cup InState("Running") : ~Interactive(t)})
    =< MemoryLimit - MemoryReservation

(* The queues hold exactly the queued tasks, each in the queue of its class, *)
(* in the order of admission: finish_queued never fails to find its task.    *)
QueuesHoldQueued ==
  /\ \A t \in Task : state[t] = "Queued" <=> \E p \in Priority : t \in Range(queues[p])
  /\ \A p \in Priority : \A i, j \in DOMAIN queues[p] :
       /\ PriorityOf[queues[p][i]] = p
       /\ i < j => sequence[queues[p][i]] < sequence[queues[p][j]]

(* Accounts, reservation and queues agree with the states of the tasks,      *)
(* through every way a task can end.                                         *)
WellFormed == TypeOK /\ AccountsBalance /\ InteractiveReserve /\ QueuesHoldQueued

(* A task runs, and passes, only after all it depends on have passed; one    *)
(* that is skipped depends on a task that did not pass.                      *)
DependencyOrder ==
  \A t \in Task :
    /\ state[t] \in {"Running", "Passed"} => \A d \in Dependencies[t] : state[d] = "Passed"
    /\ state[t] = "Skipped" =>
         \E d \in Dependencies[t] : state[d] \in Terminal \ {"Passed"}

(* With nothing running, some queued task can be dropped or started: no set  *)
(* of tasks waits on one another, and no claim is too large ever to fit.     *)
NoStall ==
  Idle /\ InState("Running") = {} /\ InState("Queued") # {} =>
    \E t \in InState("Queued") :
      token[t] \/ DependencyFailed(t) \/ (DependenciesPassed(t) /\ FitsActive(t))

(* After AbortAll no task starts, and none passes, not even one whose work   *)
(* was done when the shutdown came.                                          *)
AbortAllStops ==
  [][\A t \in Task : "AbortAll" \in shutdown /\ state'[t] # state[t] =>
       state'[t] \notin {"Queued", "Running", "Passed"}]_vars

(* "DrainVisible": in this mode shutdown spares visible tasks, so one that   *)
(* nobody cancels is not asked to stop.                                      *)
VisibleTasksDrain ==
  \A t \in Task \ Cancellable :
    Interactive(t) /\ shutdown = {"DrainVisible"} => ~cancelRequested[t]

=============================================================================
