----------------------------- MODULE ControlJobs -----------------------------
(***************************************************************************)
(* The background jobs of darktable's control thread pool                  *)
(* (src/src/control/jobs.c, with the run state of control.c and the        *)
(* progress bars of progress.c through which a job is cancelled).          *)
(*                                                                         *)
(* Any thread may create a job and submit it to one of five queues, or to  *)
(* the slot of a reserved worker.  Worker threads take the head of the     *)
(* queue whose head has the highest priority.  A worker that finds nothing *)
(* sleeps on a condition variable; it tests the queues under queue_mutex   *)
(* and the run state under no mutex, so that a broadcast may come between  *)
(* its test and its sleep.  A "kicker" thread broadcasts every 2 seconds.  *)
(*                                                                         *)
(* One action is one critical section, or one access to a shared variable. *)
(* wait_mutex is left out: only the one thread that runs a job locks it.   *)
(* A job object stands for a recurring job: it is submitted again after it *)
(* was freed, as malloc may return its address again.                      *)
(***************************************************************************)
EXTENDS Integers, Sequences, FiniteSets, SequencesExt

CONSTANTS
  Jobs,           \* job objects
  Clients,        \* threads that create, submit and cancel jobs
  Workers,        \* control->thread
  Reserved,       \* control->thread_res: one worker a slot
  QueueOf,        \* the queue each job is added to
  SlotOf,         \* the reserved worker of the jobs added by add_job_res
  Content,        \* what _control_job_equal compares
  Synchronous,    \* the jobs added to DT_JOB_QUEUE_SYNCHRONOUS
  Cancellable,    \* jobs with a progress bar that has a cancel button
  StackLimit,     \* DT_CONTROL_MAX_JOBS
  PriorityLimit,  \* number of values of an unsigned char
  MayQuit,        \* FALSE: the user never closes the program
  StrayWrites,    \* does the cancellation of a freed job write into it?
  None

ASSUME ConstantsAssumption ==
  /\ IsFiniteSet(Jobs) /\ Workers \cap Reserved = {} /\ None \notin Jobs
  /\ QueueOf \in [Jobs -> 0 .. 4]
  /\ DOMAIN SlotOf \subseteq Jobs /\ Range(SlotOf) \subseteq Reserved
  /\ Synchronous \subseteq Jobs /\ Cancellable \subseteq Jobs
  /\ StackLimit \in Nat \ {0} /\ PriorityLimit \in Nat /\ PriorityLimit > 5
  /\ MayQuit \in BOOLEAN /\ StrayWrites \in BOOLEAN

USER_FG     == 0
SYSTEM_FG   == 1
USER_BG     == 2
USER_EXPORT == 3
SYSTEM_BG   == 4
QueueIds    == USER_FG .. SYSTEM_BG

FG_PRIORITY == 4

Threads == Workers \cup Reserved

VARIABLES
  running,           \* control->running
  queues,            \* control->queues
  export_scheduled,
  job,               \* control->job: what each worker has scheduled
  pending_jobs,
  job_res, new_res,  \* the slots of the reserved workers
  state,             \* of each job; "FREED" before creation, after disposal
  priority,          \* of each job, an unsigned char
  progress,          \* has the job a progress bar
  cpc, new,          \* where each client is, and the job it submits
  wpc, hand,         \* where each worker is, and the job it holds
  kicker,
  main,              \* how far quitting the program has got
  buttons            \* the jobs that the panel of jobs shows a cancel button of

shared  == <<running, queues, export_scheduled, job, pending_jobs>>
slots   == <<job_res, new_res>>
objects == <<state, priority, progress>>
actors  == <<cpc, new, wpc, hand, kicker, main>>
vars    == <<shared, slots, objects, actors, buttons>>

IsReserved(j) == j \in DOMAIN SlotOf

Ended == {"FINISHED", "CANCELLED", "DISCARDED", "DISPOSED", "FREED"}

(* A client is about to add the job it created, to put it in its queue, to *)
(* discard it as a duplicate, to notify the workers (and then drop the job *)
(* it found queued already), or it runs the job itself.                    *)
ClientPCs == {"idle", "adding", "queueing", "discard", "notify", "notify_drop",
              "drop", "sync"}

WorkerPCs == {"check", "schedule", "taken", "execute", "running", "clear",
              "free", "sleep", "waiting", "exited"}

Init ==
  /\ running = "running"
  /\ queues = [q \in QueueIds |-> <<>>]
  /\ export_scheduled = FALSE
  /\ job = [w \in Workers |-> None]
  /\ pending_jobs = 0
  /\ job_res = [r \in Reserved |-> None]
  /\ new_res = [r \in Reserved |-> FALSE]
  /\ state = [j \in Jobs |-> "FREED"]
  /\ priority = [j \in Jobs |-> 0]
  /\ progress = [j \in Jobs |-> FALSE]
  /\ cpc = [c \in Clients |-> "idle"]
  /\ new = [c \in Clients |-> None]
  /\ wpc = [t \in Threads |-> "check"]
  /\ hand = [t \in Threads |-> None]
  /\ kicker = "check"
  /\ main = "up"
  /\ buttons = {}

----------------------------------------------------------------------------
(* Helpers.                                                                *)

(* _control_job_set_state: an end state takes the progress bar away, unless *)
(* the job is running.                                                     *)
KeepsBar(j, s) == s \notin Ended \/ state[j] = "RUNNING"

SetState(j, s) ==
  /\ state' = [state EXCEPT ![j] = s]
  /\ progress' = [progress EXCEPT ![j] = @ /\ KeepsBar(j, s)]

(* dt_control_job_dispose, which also takes the progress bar away; of a     *)
(* freed job nothing is left.                                              *)
Dispose(j) ==
  /\ state' = [state EXCEPT ![j] = "FREED"]
  /\ progress' = [progress EXCEPT ![j] = FALSE]
  /\ priority' = [priority EXCEPT ![j] = 0]

Broadcast_Forgotten(pcs) == pcs   \* mutant
Broadcast(pcs) == [t \in Threads |-> IF pcs[t] = "waiting" THEN "check"
                                                         ELSE pcs[t]]

(* The heads that may be scheduled: one export runs at a time. *)
Eligible_ExportToo == {q \in QueueIds : queues[q] # <<>>}   \* mutant
Eligible == {q \in QueueIds : /\ queues[q] # <<>>
                              /\ ~(export_scheduled /\ q = USER_EXPORT)}

HeadPriority(q) == priority[Head(queues[q])]

(* The highest priority wins; between equals, the first queue. *)
Wins_FirstQueue(q) == q \in Eligible /\ \A p \in Eligible : q <= p   \* mutant
Wins(q) == /\ q \in Eligible
           /\ \A p \in Eligible : \/ HeadPriority(p) < HeadPriority(q)
                                  \/ HeadPriority(p) = HeadPriority(q) /\ q <= p

(* The head of every other queue gains one, the export that has to wait too. *)
Losers(q) == {Head(queues[p]) : p \in {p \in QueueIds \ {q} : queues[p] # <<>>}}

Promoted(q) == [j \in Jobs |-> IF j \in Losers(q)
                                 THEN (priority[j] + 1) % PriorityLimit
                                 ELSE priority[j]]

----------------------------------------------------------------------------
(* Submitting a job.                                                       *)

Moves(c, pc)  == cpc' = [cpc EXCEPT ![c] = pc]
LetsGo(c, pc) == Moves(c, pc) /\ new' = [new EXCEPT ![c] = None]

UnchangedWorkers == UNCHANGED <<wpc, hand, kicker, main, buttons>>

(* dt_control_job_create, and dt_control_job_add_progress, which tells the  *)
(* panel of jobs to show a cancel button.                                  *)
Create(c, j) ==
  /\ cpc[c] = "idle" /\ state[j] = "FREED"
  /\ running = "running"
  /\ state' = [state EXCEPT ![j] = "INITIALIZED"]
  /\ progress' = [progress EXCEPT ![j] = j \in Cancellable]
  /\ buttons' = buttons \cup ({j} \cap Cancellable)
  /\ new' = [new EXCEPT ![c] = j]
  /\ Moves(c, "adding")
  /\ UNCHANGED <<shared, slots, priority, wpc, hand, kicker, main>>

(* Whoever adds a synchronous job, or any when the workers no longer run,   *)
(* executes it itself.                                                      *)
AddSynchronous(c) ==
  /\ cpc[c] = "adding" /\ ~IsReserved(new[c])
  /\ new[c] \in Synchronous \/ running # "running"
  /\ SetState(new[c], "RUNNING")
  /\ Moves(c, "sync")
  /\ UNCHANGED <<shared, slots, priority, new>> /\ UnchangedWorkers

ReturnSynchronous(c) ==
  /\ cpc[c] = "sync"
  /\ Dispose(new[c])
  /\ LetsGo(c, "idle")
  /\ UNCHANGED <<shared, slots>> /\ UnchangedWorkers

(* The run state is tested under no mutex, before queue_mutex is taken. *)
TestRunning(c) ==
  /\ cpc[c] = "adding" /\ ~IsReserved(new[c])
  /\ new[c] \notin Synchronous /\ running = "running"
  /\ Moves(c, "queueing")
  /\ UNCHANGED <<shared, slots, objects, new>> /\ UnchangedWorkers

MayAdd(c, q) ==
  /\ cpc[c] = "queueing" /\ ~IsReserved(new[c]) /\ QueueOf[new[c]] = q

AddFifo(c, q) ==
  /\ MayAdd(c, q) /\ q # SYSTEM_FG
  /\ queues' = [queues EXCEPT ![q] = Append(@, new[c])]
  /\ pending_jobs' = pending_jobs + 1
  /\ priority' = [priority EXCEPT ![new[c]] =
                    IF q = USER_FG THEN FG_PRIORITY ELSE 0]
  /\ SetState(new[c], "QUEUED")
  /\ LetsGo(c, "notify")
  /\ UNCHANGED <<running, export_scheduled, job, slots>> /\ UnchangedWorkers

Scheduled_NotChecked(j) == FALSE   \* mutant
Scheduled(j) == \E w \in Workers : /\ job[w] # None
                                   /\ QueueOf[job[w]] = QueueOf[j]
                                   /\ Content[job[w]] = Content[j]

SameInQueue(j) == {i \in Range(queues[SYSTEM_FG]) : Content[i] = Content[j]}

(* An equal job is with a worker: the new one is of no use. *)
AddScheduledAlready(c) ==
  /\ MayAdd(c, SYSTEM_FG)
  /\ Scheduled(new[c])
  /\ pending_jobs' = pending_jobs + 1
  /\ priority' = [priority EXCEPT ![new[c]] = FG_PRIORITY]
  /\ Moves(c, "discard")
  /\ UNCHANGED <<running, queues, export_scheduled, job, slots, state, progress,
                 new>> /\ UnchangedWorkers

DiscardDuplicate_StillPending(c) ==   \* mutant
  /\ cpc[c] = "discard"
  /\ Dispose(new[c]) /\ LetsGo(c, "idle")
  /\ UNCHANGED <<shared, slots>> /\ UnchangedWorkers
DiscardDuplicate(c) ==
  /\ cpc[c] = "discard"
  /\ Dispose(new[c])
  /\ pending_jobs' = pending_jobs - 1
  /\ LetsGo(c, "idle")
  /\ UNCHANGED <<running, queues, export_scheduled, job, slots>> /\ UnchangedWorkers

(* An equal job is queued: it moves to the top, and the new one goes. *)
AddQueuedAlready(c) ==
  /\ MayAdd(c, SYSTEM_FG)
  /\ ~Scheduled(new[c])
  /\ \E i \in SameInQueue(new[c]) :
       /\ queues' = [queues EXCEPT ![SYSTEM_FG] =
                       <<i>> \o RemoveFirst(@, i)]
       /\ SetState(i, "QUEUED")
  /\ priority' = [priority EXCEPT ![new[c]] = FG_PRIORITY]
  /\ Moves(c, "notify_drop")
  /\ UNCHANGED <<running, export_scheduled, job, pending_jobs, slots, new>>
  /\ UnchangedWorkers

(* A new job goes on top of the stack; the one at the bottom is pushed out *)
(* of a full stack.                                                        *)
AddOnTop(c) ==
  LET stack == <<new[c]>> \o queues[SYSTEM_FG]
      over  == Len(stack) > StackLimit
      Out   == IF over THEN {Last(stack)} ELSE {}
  IN
  /\ MayAdd(c, SYSTEM_FG)
  /\ ~Scheduled(new[c]) /\ SameInQueue(new[c]) = {}
  /\ queues' = [queues EXCEPT ![SYSTEM_FG] = IF over THEN Front(stack) ELSE stack]
  /\ pending_jobs' = IF over THEN pending_jobs ELSE pending_jobs + 1
  /\ state' = [j \in Jobs |-> CASE j = new[c] -> "QUEUED"
                                [] j \in Out  -> "FREED"
                                [] OTHER      -> state[j]]
  /\ priority' = [j \in Jobs |-> CASE j = new[c] -> FG_PRIORITY
                                   [] j \in Out  -> 0
                                   [] OTHER      -> priority[j]]
  /\ progress' = [j \in Jobs |-> progress[j] /\ j \notin Out]
  /\ LetsGo(c, "notify")
  /\ UNCHANGED <<running, export_scheduled, job, slots>> /\ UnchangedWorkers

(* A reserved worker's slot holds the last request only. *)
AddReserved(c) ==
  LET j   == new[c]
      old == job_res[SlotOf[j]]
  IN
  /\ cpc[c] = "adding" /\ IsReserved(j)
  /\ state' = [i \in Jobs |-> CASE i = j   -> "QUEUED"
                                [] i = old -> "FREED"
                                [] OTHER   -> state[i]]
  /\ progress' = [i \in Jobs |-> progress[i] /\ i # old]
  /\ job_res' = [job_res EXCEPT ![SlotOf[j]] = j]
  /\ new_res' = [new_res EXCEPT ![SlotOf[j]] = TRUE]
  /\ LetsGo(c, "notify")
  /\ UNCHANGED <<shared, priority>> /\ UnchangedWorkers

Notify(c) ==
  /\ cpc[c] \in {"notify", "notify_drop"}
  /\ wpc' = Broadcast(wpc)
  /\ Moves(c, IF cpc[c] = "notify" THEN "idle" ELSE "drop")
  /\ UNCHANGED <<shared, slots, objects, new, hand, kicker, main, buttons>>

DropDuplicate(c) ==
  /\ cpc[c] = "drop"
  /\ Dispose(new[c])
  /\ LetsGo(c, "idle")
  /\ UNCHANGED <<shared, slots>> /\ UnchangedWorkers

(* The user clicks the cancel button of a job: dt_control_progress_cancel   *)
(* reads in the progress which job to cancel, and cancels it, under no lock *)
(* that keeps either: a button is there until the GUI loop removes it, and  *)
(* job and progress may have been freed long before.  The step is that in   *)
(* which the state is set: the click may be earlier, but until it returns   *)
(* its thread removes no button.  What is read in a freed progress is the   *)
(* job, or nothing; a job created again in the same place is cancelled in   *)
(* its stead.  What a freed job is sent is lost, or written where it was.   *)
Cancel(j) ==
  /\ j \in buttons
  /\ \/ (state[j] # "FREED" \/ StrayWrites) /\ SetState(j, "CANCELLED")
     \/ state[j] = "FREED" /\ UNCHANGED <<state, progress>>
  /\ UNCHANGED <<shared, slots, priority, actors, buttons>>

(* Whoever destroys a progress asks the GUI loop to remove its button. *)
HideButton(j) ==
  /\ j \in buttons /\ ~progress[j]
  /\ buttons' = buttons \ {j}
  /\ UNCHANGED <<shared, slots, objects, actors>>

----------------------------------------------------------------------------
(* The workers.                                                            *)

Goto(t, pc) == wpc' = [wpc EXCEPT ![t] = pc]

CheckRunning(t) ==
  /\ wpc[t] = "check"
  /\ Goto(t, IF running = "running" THEN "schedule" ELSE "exited")
  /\ UNCHANGED <<shared, slots, objects, cpc, new, hand, kicker, main, buttons>>

(* _control_schedule_job *)
Schedule(w) ==
  /\ wpc[w] = "schedule" /\ w \in Workers
  /\ \E q \in QueueIds :
       /\ Wins(q)
       /\ queues' = [queues EXCEPT ![q] = Tail(@)]
       /\ export_scheduled' = (export_scheduled \/ q = USER_EXPORT)
       /\ job' = [job EXCEPT ![w] = Head(queues[q])]
       /\ hand' = [hand EXCEPT ![w] = Head(queues[q])]
       /\ priority' = Promoted(q)
  /\ Goto(w, "taken")
  /\ UNCHANGED <<running, pending_jobs, slots, state, progress, cpc, new,
                 kicker, main, buttons>>

ScheduleNothing(w) ==
  /\ wpc[w] = "schedule" /\ w \in Workers
  /\ Eligible = {}
  /\ Goto(w, "sleep")
  /\ UNCHANGED <<shared, slots, objects, cpc, new, hand, kicker, main, buttons>>

(* _control_run_job_res, up to the release of res_mutex *)
TakeReserved(r) ==
  /\ wpc[r] = "schedule" /\ r \in Reserved
  /\ hand' = [hand EXCEPT ![r] = IF new_res[r] THEN job_res[r] ELSE None]
  /\ job_res' = [job_res EXCEPT ![r] = IF new_res[r] THEN None ELSE @]
  /\ new_res' = [new_res EXCEPT ![r] = FALSE]
  /\ Goto(r, IF hand'[r] = None THEN "sleep" ELSE "taken")
  /\ UNCHANGED <<shared, objects, cpc, new, kicker, main, buttons>>

(* Only a job that is still queued runs; the test and the next state are   *)
(* two critical sections of its state_mutex.                               *)
TestQueued_CancelledIsDone(t) ==   \* mutant
  /\ wpc[t] = "taken"
  /\ Goto(t, IF state[hand[t]] = "QUEUED" THEN "execute" ELSE "check")
  /\ UNCHANGED <<shared, slots, objects, cpc, new, hand, kicker, main, buttons>>
TestQueued(t) ==
  /\ wpc[t] = "taken"
  /\ Goto(t, IF state[hand[t]] = "QUEUED" THEN "execute" ELSE "clear")
  /\ UNCHANGED <<shared, slots, objects, cpc, new, hand, kicker, main, buttons>>

Execute(t) ==
  /\ wpc[t] = "execute"
  /\ SetState(hand[t], "RUNNING")
  /\ Goto(t, "running")
  /\ UNCHANGED <<shared, slots, priority, cpc, new, hand, kicker, main, buttons>>

Return(t) ==
  /\ wpc[t] = "running"
  /\ SetState(hand[t], "FINISHED")
  /\ Goto(t, "clear")
  /\ UNCHANGED <<shared, slots, priority, cpc, new, hand, kicker, main, buttons>>

(* A worker clears its entry of control->job; a reserved one has none. *)
Clear(t) ==
  /\ wpc[t] = "clear"
  /\ job' = [w \in Workers |-> IF w = t THEN None ELSE job[w]]
  /\ export_scheduled' = (export_scheduled
                          /\ ~(t \in Workers /\ QueueOf[hand[t]] = USER_EXPORT))
  /\ Goto(t, "free")
  /\ UNCHANGED <<running, queues, pending_jobs, slots, objects, cpc, new, hand,
                 kicker, main, buttons>>

(* The job is freed, and no longer pending. *)
Free(t) ==
  /\ wpc[t] = "free"
  /\ Dispose(hand[t])
  /\ hand' = [hand EXCEPT ![t] = None]
  /\ pending_jobs' = IF t \in Workers THEN pending_jobs - 1 ELSE pending_jobs
  /\ Goto(t, "check")
  /\ UNCHANGED <<running, queues, export_scheduled, job, slots, cpc, new,
                 kicker, main, buttons>>

Sleep(t) ==
  /\ wpc[t] = "sleep"
  /\ Goto(t, "waiting")
  /\ UNCHANGED <<shared, slots, objects, cpc, new, hand, kicker, main, buttons>>

Worker(t) == \/ CheckRunning(t) \/ Schedule(t) \/ ScheduleNothing(t)
             \/ TakeReserved(t) \/ TestQueued(t) \/ Execute(t) \/ Return(t)
             \/ Clear(t) \/ Free(t) \/ Sleep(t)

----------------------------------------------------------------------------
(* The kicker, and the end of the program.                                 *)

KickerCheck ==
  /\ kicker = "check"
  /\ kicker' = IF running = "running" THEN "asleep" ELSE "exited"
  /\ UNCHANGED <<shared, slots, objects, cpc, new, wpc, hand, main, buttons>>

Kick_Silent ==   \* mutant
  /\ kicker = "asleep" /\ kicker' = "check"
  /\ UNCHANGED <<shared, slots, objects, cpc, new, wpc, hand, main, buttons>>
Kick ==
  /\ kicker = "asleep"
  /\ wpc' = Broadcast(wpc)
  /\ kicker' = "check"
  /\ UNCHANGED <<shared, slots, objects, cpc, new, hand, main, buttons>>

(* dt_control_quit waits at most 5 seconds for the pending jobs: the model *)
(* lets it proceed with any number of them left.                           *)
Quit ==
  /\ MayQuit /\ main = "up" /\ running = "running"
  /\ running' = "cleanup"
  /\ main' = "quit"
  /\ UNCHANGED <<queues, export_scheduled, job, pending_jobs, slots, objects,
                 cpc, new, wpc, hand, kicker, buttons>>

Shutdown ==
  /\ main = "quit"
  /\ running' = "disabled"
  /\ wpc' = Broadcast(wpc)
  /\ main' = "joining"
  /\ UNCHANGED <<queues, export_scheduled, job, pending_jobs, slots, objects,
                 cpc, new, hand, kicker, buttons>>

Joined ==
  /\ main = "joining"
  /\ kicker = "exited" /\ \A t \in Threads : wpc[t] = "exited"
  /\ main' = "down"
  /\ UNCHANGED <<shared, slots, objects, cpc, new, wpc, hand, kicker, buttons>>

Submit(c) == \/ AddSynchronous(c) \/ ReturnSynchronous(c) \/ TestRunning(c)
             \/ \E q \in QueueIds : AddFifo(c, q)
             \/ AddScheduledAlready(c) \/ DiscardDuplicate(c)
             \/ AddQueuedAlready(c) \/ AddOnTop(c) \/ AddReserved(c)
             \/ Notify(c) \/ DropDuplicate(c)

Gui == \E j \in Jobs : Cancel(j) \/ HideButton(j)

Kicker == KickerCheck \/ Kick

Next == \/ \E c \in Clients : Submit(c) \/ \E j \in Jobs : Create(c, j)
        \/ \E t \in Threads : Worker(t)
        \/ Gui \/ Kicker \/ Quit \/ Shutdown \/ Joined

Spec == Init /\ [][Next]_vars

(* Every thread keeps running and every job returns; nobody has to create, *)
(* cancel or quit.                                                         *)
Fairness == /\ \A t \in Threads : WF_vars(Worker(t))
            /\ \A c \in Clients : WF_vars(Submit(c))
            /\ WF_vars(Kicker) /\ WF_vars(Shutdown) /\ WF_vars(Joined)

FairSpec == Spec /\ Fairness
----------------------------------------------------------------------------
(* Properties.                                                             *)

JobStates == Ended \cup {"INITIALIZED", "QUEUED", "RUNNING"}

(* Types.  A priority is an unsigned char, and pending_jobs counts no more *)
(* than the jobs there are.                                                *)
TypeOK ==
  /\ running \in {"running", "cleanup", "disabled"}
  /\ queues \in [QueueIds -> Seq(Jobs)]
  /\ export_scheduled \in BOOLEAN
  /\ job \in [Workers -> Jobs \cup {None}]
  /\ pending_jobs \in 0 .. Cardinality(Jobs)
  /\ job_res \in [Reserved -> Jobs \cup {None}] /\ new_res \in [Reserved -> BOOLEAN]
  /\ state \in [Jobs -> JobStates]
  /\ priority \in [Jobs -> 0 .. PriorityLimit - 1]
  /\ progress \in [Jobs -> BOOLEAN]
  /\ cpc \in [Clients -> ClientPCs] /\ new \in [Clients -> Jobs \cup {None}]
  /\ wpc \in [Threads -> WorkerPCs] /\ hand \in [Threads -> Jobs \cup {None}]
  /\ kicker \in {"check", "asleep", "exited"}
  /\ main \in {"up", "quit", "joining", "down"}
  /\ buttons \subseteq Jobs

(* The places where a job is: positions in the queues, slots, the hands of *)
(* workers and clients.                                                    *)
Holders(j) ==
  (UNION {{<<"queue", q, i>> : i \in {i \in DOMAIN queues[q] : queues[q][i] = j}}
            : q \in QueueIds})
  \cup {<<"slot", r>> : r \in {r \in Reserved : job_res[r] = j}}
  \cup {<<"worker", t>> : t \in {t \in Threads : hand[t] = j}}
  \cup {<<"client", c>> : c \in {c \in Clients : new[c] = j}}

(* A job has one owner from its creation to its disposal: duplicates,      *)
(* overflow of the stack, replacement in a slot and disposal by whoever    *)
(* ran it neither leak a job nor let two threads run or free one.          *)
OneOwner == \A j \in Jobs :
  Cardinality(Holders(j)) = (IF state[j] = "FREED" THEN 0 ELSE 1)

(* pending_jobs, which dt_control_quit waits on without the mutex, counts  *)
(* the jobs in the queues and those on their way into or out of them.      *)
PendingExact ==
  pending_jobs = Cardinality({j \in Jobs : \E q \in QueueIds : j \in Range(queues[q])})
               + Cardinality({w \in Workers : hand[w] # None})
               + Cardinality({c \in Clients : cpc[c] = "discard"})

(* "only one of these jobs will ever be scheduled at a time" (jobs.h), and *)
(* the flag that ensures it is never left behind set or lost: exports      *)
(* would stop for good, or overlap.                                        *)
ExportsOneAtATime ==
  LET Exporting == {w \in Workers : job[w] # None /\ QueueOf[job[w]] = USER_EXPORT}
  IN  Cardinality(Exporting) = (IF export_scheduled THEN 1 ELSE 0)

(* "there can't be any further copy": of the thumbnail jobs that are equal,*)
(* one at most is queued or with a worker.                                 *)
NoDuplicates ==
  LET Pending == Range(queues[SYSTEM_FG])
                 \cup {i \in Range(job) \ {None} : QueueOf[i] = SYSTEM_FG}
  IN  \A i, j \in Pending : Content[i] = Content[j] => i = j

(* Queues, pending count and equality of jobs stay as they should while     *)
(* clients, workers and cancellations interleave.                          *)
WellFormed == TypeOK /\ PendingExact /\ NoDuplicates

(* The head of a FIFO queue is passed over at most PassedOver times before *)
(* it is the one that runs, however many jobs keep arriving at the other   *)
(* queues: its priority grows with each time, and never wraps.  Ahead of   *)
(* it are at most the jobs in the stack of thumbnails, and one of each     *)
(* other queue.  (Not bounded are the head of the exports, which waits for *)
(* the export that runs, and a thumbnail, which may come to the top of the *)
(* stack again each time an export wins.)                                  *)
UsedQueues == {QueueOf[j] : j \in {j \in Jobs : ~IsReserved(j)}}
PassedOver == FG_PRIORITY - 1 + Cardinality(UsedQueues \ {SYSTEM_FG})
              + (IF SYSTEM_FG \in UsedQueues THEN StackLimit ELSE 0)

ASSUME PriorityIsWide == PriorityLimit > PassedOver

HeadsAreServed ==
  \A q \in QueueIds \ {SYSTEM_FG, USER_EXPORT} :
    queues[q] # <<>> => HeadPriority(q) <= PassedOver

(* "cancel a job, running or in queue" (jobs.h): what was cancelled does   *)
(* not go back to running.                                                 *)
CancelledStaysCancelled ==
  [][\A j \in Jobs : state[j] = "CANCELLED" => state'[j] # "RUNNING"]_vars

(* While the program runs, a job in a queue or a slot leaves it: it is     *)
(* taken by a worker or gives way to a newer one, although a broadcast may *)
(* come when no worker sleeps yet, and whatever else keeps arriving.  (Not *)
(* the thumbnail jobs: below the top of their stack they may wait.)        *)
Waiting(j) == state[j] = "QUEUED" /\ running = "running"

Served == \A j \in {j \in Jobs : IsReserved(j) \/ QueueOf[j] # SYSTEM_FG} :
            Waiting(j) ~> ~Waiting(j)

(* dt_control_shutdown joins every thread: workers asleep are woken, and   *)
(* one that runs a job ends after it.  Excluded is a worker that passed    *)
(* the test of the run state before dt_control_quit changed it: it may     *)
(* fall asleep after the last broadcast there is.                          *)
PastTheTest(t) == wpc[t] \in {"schedule", "sleep"}

ShutdownEnds ==
  (main = "quit" /\ \A t \in Threads : ~PastTheTest(t)) ~> (main = "down")

===========================================================================
