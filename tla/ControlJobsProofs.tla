-------------------------- MODULE ControlJobsProofs --------------------------
(***************************************************************************)
(* Proofs about ControlJobs, darktable's control thread pool.  The         *)
(* inductive invariant says where each job may be, what a thread at each   *)
(* point holds, and that the records kept beside the queues (the scheduled *)
(* jobs, the export flag, the pending count, the priorities) agree with    *)
(* them.                                                                   *)
(***************************************************************************)
EXTENDS ControlJobs, DataFacts, FunctionTheorems

(* TypeOK but for pending_jobs, whose bound rests on what it counts. *)
Types ==
  /\ running \in {"running", "cleanup", "disabled"}
  /\ queues \in [QueueIds -> Seq(Jobs)]
  /\ export_scheduled \in BOOLEAN
  /\ job \in [Workers -> Jobs \cup {None}]
  /\ job_res \in [Reserved -> Jobs \cup {None}] /\ new_res \in [Reserved -> BOOLEAN]
  /\ state \in [Jobs -> JobStates]
  /\ priority \in [Jobs -> 0 .. PriorityLimit - 1]
  /\ progress \in [Jobs -> BOOLEAN]
  /\ cpc \in [Clients -> ClientPCs] /\ new \in [Clients -> Jobs \cup {None}]
  /\ wpc \in [Threads -> WorkerPCs] /\ hand \in [Threads -> Jobs \cup {None}]
  /\ kicker \in {"check", "asleep", "exited"}
  /\ main \in {"up", "quit", "joining", "down"}
  /\ buttons \subseteq Jobs

(* In the hands of no worker and no client. *)
Unheld(j) == (\A t \in Threads : hand[t] # j) /\ (\A c \in Clients : new[c] # j)

(* A queue holds each of its own jobs once, and nobody holds one of them. *)
QueueInv ==
  \A q \in QueueIds :
    /\ Distinct(queues[q])
    /\ \A j \in Range(queues[q]) :
         QueueOf[j] = q /\ ~IsReserved(j) /\ state[j] # "FREED" /\ Unheld(j)

(* So does a slot. *)
SlotInv ==
  \A r \in Reserved : job_res[r] # None =>
    /\ IsReserved(job_res[r]) /\ SlotOf[job_res[r]] = r
    /\ state[job_res[r]] # "FREED" /\ Unheld(job_res[r])

(* The points at which a worker, and a client, holds a job. *)
Handling == {"taken", "execute", "running", "clear", "free"}
Carrying == {"adding", "queueing", "discard", "notify_drop", "drop", "sync"}

HandInv ==
  \A t \in Threads :
    /\ hand[t] # None <=> wpc[t] \in Handling
    /\ hand[t] # None =>
         /\ state[hand[t]] # "FREED"
         /\ \A u \in Threads : hand[u] = hand[t] => u = t
         /\ \A c \in Clients : new[c] # hand[t]
         /\ t \in Workers => ~IsReserved(hand[t])

ClientInv ==
  \A c \in Clients :
    /\ new[c] # None <=> cpc[c] \in Carrying
    /\ new[c] # None =>
         /\ state[new[c]] # "FREED"
         /\ \A d \in Clients : new[d] = new[c] => d = c

(* A job that is not freed is somewhere, unless the cancellation of a job   *)
(* after it was freed has written a state into it.                         *)
Somewhere(j) == \/ \E q \in QueueIds : j \in Range(queues[q])
                \/ \E r \in Reserved : job_res[r] = j
                \/ \E t \in Threads : hand[t] = j
                \/ \E c \in Clients : new[c] = j

OwnedInv == ~StrayWrites => \A j \in Jobs : state[j] # "FREED" => Somewhere(j)

PlaceInv == QueueInv /\ SlotInv /\ HandInv /\ ClientInv /\ OwnedInv

-----------------------------------------------------------------------------
LEMMA ModFacts ==
  ASSUME NEW n \in Nat \ {0}, NEW x \in Nat
  PROVE  x % n \in 0 .. n - 1 /\ x % n <= x /\ (x < n => x % n = x)
OBVIOUS

LEMMA QueueOfIn ==
  ASSUME NEW j \in Jobs
  PROVE  QueueOf[j] \in QueueIds /\ j # None
BY ConstantsAssumption DEF QueueIds, USER_FG, SYSTEM_BG

LEMMA BroadcastFacts ==
  ASSUME Types
  PROVE  /\ Broadcast(wpc) \in [Threads -> WorkerPCs]
         /\ \A t \in Threads : Broadcast(wpc)[t] = wpc[t]
                               \/ (wpc[t] = "waiting" /\ Broadcast(wpc)[t] = "check")
BY DEF Types, Broadcast, WorkerPCs

LEMMA PromotedType ==
  ASSUME Types, NEW q
  PROVE  Promoted(q) \in [Jobs -> 0 .. PriorityLimit - 1]
<1> SUFFICES ASSUME NEW j \in Jobs
             PROVE  (IF j \in Losers(q) THEN (priority[j] + 1) % PriorityLimit
                                        ELSE priority[j]) \in 0 .. PriorityLimit - 1
  BY DEF Promoted
<1>1. priority[j] \in 0 .. PriorityLimit - 1 /\ PriorityLimit \in Nat \ {0}
  BY ConstantsAssumption DEF Types
<1>2. priority[j] + 1 \in Nat
  BY <1>1
<1>3. (priority[j] + 1) % PriorityLimit \in 0 .. PriorityLimit - 1
  BY <1>1, <1>2, ModFacts
<1> QED BY <1>1, <1>3

(* What a client, a worker, the rest changes of the types. *)
LEMMA SubmitTypes ==
  ASSUME Types, PlaceInv, NEW c \in Clients, Submit(c) \/ \E j \in Jobs : Create(c, j)
  PROVE  Types'
<1>n. new[c] # None => new[c] \in Jobs
  BY DEF Types
<1>p. cpc[c] \in Carrying => new[c] \in Jobs
  BY <1>n DEF PlaceInv, ClientInv
<1>k. FG_PRIORITY \in 0 .. PriorityLimit - 1 /\ 0 \in 0 .. PriorityLimit - 1
  BY ConstantsAssumption DEF FG_PRIORITY
<1>t. /\ \A f \in [Jobs -> JobStates] : \A j \in Jobs : \A s \in JobStates :
            [f EXCEPT ![j] = s] \in [Jobs -> JobStates]
      /\ \A f \in [Jobs -> 0 .. PriorityLimit - 1] : \A j \in Jobs :
            \A p \in 0 .. PriorityLimit - 1 :
              [f EXCEPT ![j] = p] \in [Jobs -> 0 .. PriorityLimit - 1]
  OBVIOUS
<1> USE DEF Types, Moves, LetsGo, UnchangedWorkers, shared, slots, objects, actors
<1>1. ASSUME NEW j \in Jobs, Create(c, j) PROVE Types'
  BY <1>1 DEF Create, JobStates, ClientPCs
<1>2. CASE AddSynchronous(c)
  BY <1>2, <1>p DEF AddSynchronous, SetState, JobStates, ClientPCs, Carrying
<1>3. CASE ReturnSynchronous(c) \/ DropDuplicate(c)
  <2>1. /\ state' = [state EXCEPT ![new[c]] = "FREED"]
        /\ priority' = [priority EXCEPT ![new[c]] = 0]
        /\ progress' = [progress EXCEPT ![new[c]] = FALSE]
        /\ cpc' = [cpc EXCEPT ![c] = "idle"] /\ new' = [new EXCEPT ![c] = None]
        /\ UNCHANGED <<shared, slots>>
    BY <1>3 DEF ReturnSynchronous, DropDuplicate, Dispose
  <2>2. state' \in [Jobs -> JobStates]
    BY <2>1 DEF JobStates, Ended
  <2>3. priority' \in [Jobs -> 0 .. PriorityLimit - 1] /\ progress' \in [Jobs -> BOOLEAN]
    BY <2>1, <1>k
  <2>4. UNCHANGED <<wpc, hand, kicker, main, buttons>>
    BY <1>3 DEF ReturnSynchronous, DropDuplicate
  <2> QED BY <2>1, <2>2, <2>3, <2>4 DEF ClientPCs
<1>4. CASE DiscardDuplicate(c)
  BY <1>4, <1>k DEF DiscardDuplicate, Dispose, JobStates, ClientPCs, Ended
<1>5. ASSUME NEW q \in QueueIds, AddFifo(c, q) PROVE Types'
  <2>1. new[c] \in Jobs
    BY <1>5, <1>p DEF AddFifo, MayAdd, Carrying
  <2> QED BY <1>5, <1>k, <2>1 DEF AddFifo, SetState, JobStates, ClientPCs
<1>6. CASE AddScheduledAlready(c)
  BY <1>6, <1>k DEF AddScheduledAlready, ClientPCs
<1>7. CASE AddQueuedAlready(c)
  <2>1. PICK i \in SameInQueue(new[c]) :
          /\ queues' = [queues EXCEPT ![SYSTEM_FG] = <<i>> \o RemoveFirst(@, i)]
          /\ SetState(i, "QUEUED")
    BY <1>7 DEF AddQueuedAlready
  <2>2. SYSTEM_FG \in QueueIds
    BY DEF QueueIds, USER_FG, SYSTEM_FG, SYSTEM_BG
  <2>3. i \in Jobs /\ Distinct(queues[SYSTEM_FG])
    BY <2>2, RangeFacts DEF SameInQueue, PlaceInv, QueueInv
  <2>4. <<i>> \o RemoveFirst(queues[SYSTEM_FG], i) \in Seq(Jobs)
    BY <2>2, <2>3, RemoveFirstFacts, ConsFacts
  <2>5. queues' \in [QueueIds -> Seq(Jobs)]
    BY <2>1, <2>2, <2>4
  <2>6. state' \in [Jobs -> JobStates] /\ progress' \in [Jobs -> BOOLEAN]
    BY <2>1, <2>3 DEF SetState, JobStates
  <2> QED BY <1>7, <1>k, <2>5, <2>6 DEF AddQueuedAlready, ClientPCs
<1>8. CASE AddOnTop(c)
  <2> DEFINE stack == <<new[c]>> \o queues[SYSTEM_FG]
  <2>1. new[c] \in Jobs
    BY <1>8, <1>p DEF AddOnTop, MayAdd, Carrying
  <2>2. SYSTEM_FG \in QueueIds
    BY DEF QueueIds, USER_FG, SYSTEM_FG, SYSTEM_BG
  <2>3. stack \in Seq(Jobs) /\ stack # <<>>
    BY <2>1, <2>2, ConsFacts
  <2>4. Front(stack) \in Seq(Jobs)
    <3> HIDE DEF stack
    <3> QED BY <2>3, FrontFacts
  <2>5. queues' \in [QueueIds -> Seq(Jobs)]
    <3>1. \E f \in Seq(Jobs) : queues' = [queues EXCEPT ![SYSTEM_FG] = f]
      BY <1>8, <2>3, <2>4 DEF AddOnTop
    <3> QED BY <2>2, <3>1
  <2>6. state' \in [Jobs -> JobStates] /\ progress' \in [Jobs -> BOOLEAN]
    BY <1>8 DEF AddOnTop, JobStates, Ended
  <2>7. priority' \in [Jobs -> 0 .. PriorityLimit - 1]
    BY <1>8, <1>k DEF AddOnTop
  <2> QED BY <1>8, <2>5, <2>6, <2>7 DEF AddOnTop, ClientPCs
<1>9. CASE AddReserved(c)
  <2>1. new[c] \in Jobs
    BY <1>9, <1>p DEF AddReserved, Carrying
  <2> QED BY <1>9, <2>1 DEF AddReserved, JobStates, Ended, ClientPCs
<1>10. CASE Notify(c)
  <2>1. wpc' \in [Threads -> WorkerPCs]
    BY <1>10, BroadcastFacts DEF Notify
  <2> QED BY <1>10, <2>1 DEF Notify, ClientPCs
<1>11. CASE TestRunning(c)
  BY <1>11 DEF TestRunning, ClientPCs
<1> QED BY <1>1, <1>2, <1>3, <1>4, <1>5, <1>6, <1>7, <1>8, <1>9, <1>10, <1>11 DEF Submit

LEMMA WorkerTypes ==
  ASSUME Types, PlaceInv, NEW t \in Threads, Worker(t)
  PROVE  Types'
<1>h. wpc[t] \in Handling => hand[t] \in Jobs
  BY DEF Types, PlaceInv, HandInv
<1> USE DEF Types, Goto, shared, slots, objects, actors
<1>1. CASE CheckRunning(t) \/ ScheduleNothing(t) \/ TestQueued(t) \/ Sleep(t)
  BY <1>1 DEF CheckRunning, ScheduleNothing, TestQueued, Sleep, WorkerPCs
<1>2. CASE Schedule(t)
  <2>1. PICK q \in QueueIds :
          /\ Wins(q) /\ priority' = Promoted(q)
          /\ queues' = [queues EXCEPT ![q] = Tail(@)]
          /\ export_scheduled' = (export_scheduled \/ q = USER_EXPORT)
          /\ job' = [job EXCEPT ![t] = Head(queues[q])]
          /\ hand' = [hand EXCEPT ![t] = Head(queues[q])]
    BY <1>2 DEF Schedule
  <2>2. queues[q] # <<>> /\ queues[q] \in Seq(Jobs)
    BY <2>1 DEF Wins, Eligible
  <2>3. Head(queues[q]) \in Jobs /\ Tail(queues[q]) \in Seq(Jobs)
    BY <2>2
  <2>4. priority' \in [Jobs -> 0 .. PriorityLimit - 1]
    BY <2>1, PromotedType
  <2> QED BY <1>2, <2>1, <2>3, <2>4 DEF Schedule, WorkerPCs
<1>3. CASE TakeReserved(t)
  BY <1>3 DEF TakeReserved, WorkerPCs
<1>4. CASE Execute(t) \/ Return(t)
  BY <1>4, <1>h DEF Execute, Return, SetState, WorkerPCs, JobStates, Ended, Handling
<1>5. CASE Clear(t)
  BY <1>5 DEF Clear, WorkerPCs
<1>6. CASE Free(t)
  <2>1. 0 \in 0 .. PriorityLimit - 1
    BY ConstantsAssumption
  <2> QED BY <1>6, <2>1 DEF Free, Dispose, WorkerPCs, JobStates, Ended
<1> QED BY <1>1, <1>2, <1>3, <1>4, <1>5, <1>6 DEF Worker

LEMMA OtherTypes ==
  ASSUME Types, Gui \/ Kicker \/ Quit \/ Shutdown \/ Joined
  PROVE  Types'
<1> USE DEF Types, shared, slots, objects, actors
<1>1. CASE Gui
  BY <1>1 DEF Gui, Cancel, HideButton, SetState, JobStates, Ended
<1>2. CASE Kick \/ Shutdown
  <2>1. wpc' \in [Threads -> WorkerPCs]
    BY <1>2, BroadcastFacts DEF Kick, Shutdown
  <2> QED BY <1>2, <2>1 DEF Kick, Shutdown
<1>3. CASE KickerCheck \/ Quit \/ Joined
  BY <1>3 DEF KickerCheck, Quit, Joined
<1> QED BY <1>1, <1>2, <1>3 DEF Kicker

LEMMA TypesStep ==
  ASSUME Types, PlaceInv, Next
  PROVE  Types'
BY SubmitTypes, WorkerTypes, OtherTypes DEF Next

-----------------------------------------------------------------------------
(* Steps that move no job, create none and free none. *)
LEMMA PlaceQuiet ==
  ASSUME Types, PlaceInv, UNCHANGED <<queues, job_res, hand, new>>,
         \A j \in Jobs : /\ state[j] # "FREED" => state'[j] # "FREED"
                         /\ ~StrayWrites /\ state[j] = "FREED" => state'[j] = "FREED",
         \A t \in Threads : wpc'[t] \in Handling <=> wpc[t] \in Handling,
         \A c \in Clients : cpc'[c] \in Carrying <=> cpc[c] \in Carrying
  PROVE  PlaceInv'
<1>j. /\ \A q \in QueueIds : Range(queues[q]) \subseteq Jobs
      /\ \A r \in Reserved : job_res[r] # None => job_res[r] \in Jobs
      /\ \A t \in Threads : hand[t] # None => hand[t] \in Jobs
      /\ \A c \in Clients : new[c] # None => new[c] \in Jobs
  BY RangeFacts DEF Types
<1>1. QueueInv'
  BY <1>j DEF PlaceInv, QueueInv, Unheld
<1>2. SlotInv'
  BY <1>j DEF PlaceInv, SlotInv, Unheld
<1>3. HandInv'
  BY <1>j DEF PlaceInv, HandInv
<1>4. ClientInv'
  BY <1>j DEF PlaceInv, ClientInv
<1>5. OwnedInv'
  BY DEF PlaceInv, OwnedInv, Somewhere
<1> QED BY <1>1, <1>2, <1>3, <1>4, <1>5 DEF PlaceInv

LEMMA CreatePlace ==
  ASSUME Types, PlaceInv, NEW c \in Clients, NEW j \in Jobs, Create(c, j)
  PROVE  PlaceInv'
<1>1. /\ state[j] = "FREED" /\ new[c] = None
      /\ state' = [state EXCEPT ![j] = "INITIALIZED"]
      /\ new' = [new EXCEPT ![c] = j] /\ cpc' = [cpc EXCEPT ![c] = "adding"]
      /\ UNCHANGED <<queues, job_res, wpc, hand>>
  BY DEF Create, Moves, UnchangedWorkers, shared, slots, PlaceInv, ClientInv, Carrying
<1>2. /\ \A q \in QueueIds : j \notin Range(queues[q]) /\ Range(queues[q]) \subseteq Jobs
      /\ \A r \in Reserved : job_res[r] # j /\ job_res[r] \in Jobs \cup {None}
      /\ \A t \in Threads : hand[t] # j /\ hand[t] \in Jobs \cup {None}
      /\ \A d \in Clients : new[d] # j /\ new[d] \in Jobs \cup {None}
      /\ None \notin Jobs
  BY <1>1, RangeFacts, ConstantsAssumption DEF Types, PlaceInv, QueueInv, SlotInv, HandInv, ClientInv
<1>3. /\ \A i \in Jobs : state'[i] = IF i = j THEN "INITIALIZED" ELSE state[i]
      /\ \A d \in Clients : new'[d] = IF d = c THEN j ELSE new[d]
      /\ \A d \in Clients : cpc'[d] = IF d = c THEN "adding" ELSE cpc[d]
  BY <1>1 DEF Types
<1>4. QueueInv'
  BY <1>1, <1>2, <1>3 DEF PlaceInv, QueueInv, Unheld
<1>5. SlotInv'
  BY <1>1, <1>2, <1>3 DEF PlaceInv, SlotInv, Unheld
<1>6. HandInv'
  BY <1>1, <1>2, <1>3 DEF PlaceInv, HandInv
<1>7. ClientInv'
  BY <1>1, <1>2, <1>3 DEF PlaceInv, ClientInv, Carrying
<1>8. OwnedInv'
  <2> SUFFICES ASSUME ~StrayWrites, NEW i \in Jobs, state'[i] # "FREED"
               PROVE  Somewhere(i)'
    BY DEF OwnedInv
  <2>1. state[i] # "FREED" => Somewhere(i)
    BY DEF PlaceInv, OwnedInv
  <2> QED BY <1>1, <1>2, <1>3, <2>1 DEF Somewhere
<1> QED BY <1>4, <1>5, <1>6, <1>7, <1>8 DEF PlaceInv

(* A client that frees the job it carries. *)
LEMMA ClientFreesPlace ==
  ASSUME Types, PlaceInv, NEW c \in Clients, cpc[c] \in Carrying, Dispose(new[c]),
         LetsGo(c, "idle"), UNCHANGED <<queues, job_res, wpc, hand>>
  PROVE  PlaceInv'
<1> DEFINE j == new[c]
<1>1. j \in Jobs /\ j # None
  BY DEF Types, PlaceInv, ClientInv
<1>2. /\ \A q \in QueueIds : j \notin Range(queues[q]) /\ Range(queues[q]) \subseteq Jobs
      /\ \A r \in Reserved : job_res[r] # j /\ job_res[r] \in Jobs \cup {None}
      /\ \A t \in Threads : hand[t] # j /\ hand[t] \in Jobs \cup {None}
      /\ \A d \in Clients : (d # c => new[d] # j) /\ new[d] \in Jobs \cup {None}
      /\ None \notin Jobs
  BY <1>1, RangeFacts, ConstantsAssumption DEF Types, PlaceInv, QueueInv, SlotInv, HandInv, ClientInv, Unheld
<1>3. /\ \A i \in Jobs : state'[i] = IF i = j THEN "FREED" ELSE state[i]
      /\ \A d \in Clients : new'[d] = IF d = c THEN None ELSE new[d]
      /\ \A d \in Clients : cpc'[d] = IF d = c THEN "idle" ELSE cpc[d]
  BY DEF Types, Dispose, LetsGo, Moves
<1> HIDE DEF j
<1>4. QueueInv'
  BY <1>1, <1>2, <1>3 DEF PlaceInv, QueueInv, Unheld
<1>5. SlotInv'
  BY <1>1, <1>2, <1>3 DEF PlaceInv, SlotInv, Unheld
<1>6. HandInv'
  BY <1>1, <1>2, <1>3 DEF PlaceInv, HandInv
<1>7. ClientInv'
  BY <1>1, <1>2, <1>3 DEF PlaceInv, ClientInv, Carrying
<1>8. OwnedInv'
  <2> SUFFICES ASSUME ~StrayWrites, NEW i \in Jobs, state'[i] # "FREED"
               PROVE  Somewhere(i)'
    BY DEF OwnedInv
  <2>1. state[i] # "FREED" => Somewhere(i)
    BY DEF PlaceInv, OwnedInv
  <2> QED BY <1>1, <1>2, <1>3, <2>1 DEF Somewhere, j
<1> QED BY <1>4, <1>5, <1>6, <1>7, <1>8 DEF PlaceInv

LEMMA WorkerFreesPlace ==
  ASSUME Types, PlaceInv, NEW t \in Threads, Free(t)
  PROVE  PlaceInv'
<1> DEFINE j == hand[t]
<1>0. /\ wpc[t] = "free" /\ Dispose(j)
      /\ hand' = [hand EXCEPT ![t] = None] /\ wpc' = [wpc EXCEPT ![t] = "check"]
      /\ UNCHANGED <<queues, job_res, cpc, new>>
  BY DEF Free, Goto, slots
<1>1. j \in Jobs /\ j # None
  BY <1>0 DEF Types, PlaceInv, HandInv, Handling
<1>2. /\ \A q \in QueueIds : j \notin Range(queues[q]) /\ Range(queues[q]) \subseteq Jobs
      /\ \A r \in Reserved : job_res[r] # j /\ job_res[r] \in Jobs \cup {None}
      /\ \A u \in Threads : (u # t => hand[u] # j) /\ hand[u] \in Jobs \cup {None}
      /\ \A d \in Clients : new[d] # j /\ new[d] \in Jobs \cup {None}
      /\ None \notin Jobs
  BY <1>1, RangeFacts, ConstantsAssumption DEF Types, PlaceInv, QueueInv, SlotInv, HandInv, ClientInv, Unheld
<1>3. /\ \A i \in Jobs : state'[i] = IF i = j THEN "FREED" ELSE state[i]
      /\ \A u \in Threads : hand'[u] = IF u = t THEN None ELSE hand[u]
      /\ \A u \in Threads : wpc'[u] = IF u = t THEN "check" ELSE wpc[u]
  BY <1>0 DEF Types, Dispose
<1>9. UNCHANGED <<queues, job_res, cpc, new>>
  BY <1>0
<1> HIDE DEF j
<1>4. QueueInv'
  BY <1>1, <1>2, <1>3, <1>9 DEF PlaceInv, QueueInv, Unheld
<1>5. SlotInv'
  BY <1>1, <1>2, <1>3, <1>9 DEF PlaceInv, SlotInv, Unheld
<1>6. HandInv'
  BY <1>1, <1>2, <1>3, <1>9 DEF PlaceInv, HandInv, Handling
<1>7. ClientInv'
  BY <1>1, <1>2, <1>3, <1>9 DEF PlaceInv, ClientInv, Carrying
<1>8. OwnedInv'
  <2> SUFFICES ASSUME ~StrayWrites, NEW i \in Jobs, state'[i] # "FREED"
               PROVE  Somewhere(i)'
    BY DEF OwnedInv
  <2>1. state[i] # "FREED" => Somewhere(i)
    BY DEF PlaceInv, OwnedInv
  <2> QED BY <1>1, <1>2, <1>3, <1>9, <2>1 DEF Somewhere, j
<1> QED BY <1>4, <1>5, <1>6, <1>7, <1>8 DEF PlaceInv

(* What a client that gives its job to a queue or to a slot knows of it. *)
LEMMA GivenFacts ==
  ASSUME Types, PlaceInv, NEW c \in Clients, cpc[c] \in Carrying
  PROVE  /\ new[c] \in Jobs /\ state[new[c]] # "FREED" /\ None \notin Jobs
         /\ \A q \in QueueIds : new[c] \notin Range(queues[q]) /\ Range(queues[q]) \subseteq Jobs
         /\ \A r \in Reserved : job_res[r] # new[c] /\ job_res[r] \in Jobs \cup {None}
         /\ \A t \in Threads : hand[t] # new[c] /\ hand[t] \in Jobs \cup {None}
         /\ \A d \in Clients : (d # c => new[d] # new[c]) /\ new[d] \in Jobs \cup {None}
<1>1. new[c] \in Jobs /\ None \notin Jobs /\ new[c] # None
  BY ConstantsAssumption DEF Types, PlaceInv, ClientInv
<1>2. \A q \in QueueIds : new[c] \notin Range(queues[q]) /\ Range(queues[q]) \subseteq Jobs
  BY RangeFacts DEF Types, PlaceInv, QueueInv, Unheld
<1> QED BY <1>1, <1>2 DEF Types, PlaceInv, SlotInv, HandInv, ClientInv, Unheld

LEMMA AddFifoPlace ==
  ASSUME Types, PlaceInv, NEW c \in Clients, NEW q \in QueueIds, AddFifo(c, q)
  PROVE  PlaceInv'
<1> DEFINE j == new[c]
<1>1. /\ cpc[c] \in Carrying /\ QueueOf[j] = q /\ ~IsReserved(j)
      /\ queues' = [queues EXCEPT ![q] = Append(@, j)]
      /\ SetState(j, "QUEUED") /\ LetsGo(c, "notify")
      /\ UNCHANGED <<job_res, hand, wpc>>
  BY DEF AddFifo, MayAdd, Carrying, slots, UnchangedWorkers
<1>2. /\ j \in Jobs /\ state[j] # "FREED" /\ None \notin Jobs
      /\ \A p \in QueueIds : j \notin Range(queues[p]) /\ Range(queues[p]) \subseteq Jobs
      /\ \A r \in Reserved : job_res[r] # j /\ job_res[r] \in Jobs \cup {None}
      /\ \A t \in Threads : hand[t] # j /\ hand[t] \in Jobs \cup {None}
      /\ \A d \in Clients : (d # c => new[d] # j) /\ new[d] \in Jobs \cup {None}
  BY <1>1, GivenFacts
<1>3. /\ \A p \in QueueIds : queues'[p] = IF p = q THEN Append(queues[q], j) ELSE queues[p]
      /\ \A i \in Jobs : state'[i] = IF i = j THEN "QUEUED" ELSE state[i]
      /\ \A d \in Clients : new'[d] = IF d = c THEN None ELSE new[d]
      /\ \A d \in Clients : cpc'[d] = IF d = c THEN "notify" ELSE cpc[d]
  BY <1>1 DEF Types, SetState, LetsGo, Moves
<1> HIDE DEF j
<1>4. /\ Range(Append(queues[q], j)) = Range(queues[q]) \cup {j}
      /\ Distinct(queues[q]) => Distinct(Append(queues[q], j))
  BY <1>2, AppendFacts DEF Types
<1>5. \A p \in QueueIds : /\ Range(queues'[p]) = Range(queues[p]) \cup (IF p = q THEN {j} ELSE {})
                          /\ Distinct(queues'[p])
  BY <1>3, <1>4 DEF PlaceInv, QueueInv
<1>9. UNCHANGED <<job_res, hand, wpc>>
  BY <1>1
<1>10. QueueInv'
  <2>1. QueueOf[j] = q /\ ~IsReserved(j)
    BY <1>1
  <2> QED BY <1>2, <1>3, <1>5, <1>9, <2>1 DEF PlaceInv, QueueInv, Unheld
<1>11. SlotInv'
  BY <1>2, <1>3, <1>9 DEF PlaceInv, SlotInv, Unheld
<1>12. HandInv'
  BY <1>2, <1>3, <1>9 DEF PlaceInv, HandInv, Handling
<1>13. ClientInv'
  BY <1>2, <1>3, <1>9 DEF PlaceInv, ClientInv, Carrying
<1>14. OwnedInv'
  <2> SUFFICES ASSUME ~StrayWrites, NEW i \in Jobs, state'[i] # "FREED"
               PROVE  Somewhere(i)'
    BY DEF OwnedInv
  <2>1. state[i] # "FREED" => Somewhere(i)
    BY DEF PlaceInv, OwnedInv
  <2> QED BY <1>2, <1>3, <1>5, <1>9, <2>1 DEF Somewhere, j
<1> QED BY <1>10, <1>11, <1>12, <1>13, <1>14 DEF PlaceInv

LEMMA AddQueuedAlreadyPlace ==
  ASSUME Types, PlaceInv, NEW c \in Clients, AddQueuedAlready(c)
  PROVE  PlaceInv'
<1>1. PICK i \in SameInQueue(new[c]) :
        /\ queues' = [queues EXCEPT ![SYSTEM_FG] = <<i>> \o RemoveFirst(@, i)]
        /\ SetState(i, "QUEUED")
  BY DEF AddQueuedAlready
<1>2. SYSTEM_FG \in QueueIds
  BY DEF QueueIds, USER_FG, SYSTEM_FG, SYSTEM_BG
<1>3. /\ i \in Range(queues[SYSTEM_FG]) /\ i \in Jobs /\ queues[SYSTEM_FG] \in Seq(Jobs)
      /\ Distinct(queues[SYSTEM_FG])
  BY <1>2, RangeFacts DEF SameInQueue, PlaceInv, QueueInv, Types
<1> DEFINE rest == RemoveFirst(queues[SYSTEM_FG], i)
<1>4. rest \in Seq(Jobs) /\ Distinct(rest) /\ Range(rest) = Range(queues[SYSTEM_FG]) \ {i}
  BY <1>3, RemoveFirstFacts
<1>5. /\ Range(<<i>> \o rest) = Range(queues[SYSTEM_FG])
      /\ Distinct(<<i>> \o rest)
  <2> HIDE DEF rest
  <2>1. /\ Range(<<i>> \o rest) = Range(rest) \cup {i}
        /\ Distinct(<<i>> \o rest)
    BY <1>3, <1>4, ConsFacts
  <2> QED BY <1>3, <1>4, <2>1
<1>6. \A p \in QueueIds : queues'[p] = IF p = SYSTEM_FG THEN <<i>> \o rest ELSE queues[p]
  BY <1>1, <1>2 DEF Types
<1> HIDE DEF rest
<1>7. \A p \in QueueIds : Range(queues'[p]) = Range(queues[p]) /\ Distinct(queues'[p])
  BY <1>2, <1>5, <1>6 DEF PlaceInv, QueueInv
<1>8. /\ \A k \in Jobs : state'[k] = IF k = i THEN "QUEUED" ELSE state[k]
      /\ state[i] # "FREED"
  BY <1>1, <1>2, <1>3 DEF Types, SetState, PlaceInv, QueueInv
<1>9. /\ UNCHANGED <<job_res, hand, wpc, new>> /\ cpc[c] \in Carrying
      /\ \A d \in Clients : cpc'[d] = IF d = c THEN "notify_drop" ELSE cpc[d]
  BY DEF AddQueuedAlready, MayAdd, Moves, UnchangedWorkers, slots, Types, Carrying
<1>j. /\ \A q \in QueueIds : Range(queues[q]) \subseteq Jobs
      /\ \A r \in Reserved : job_res[r] # None => job_res[r] \in Jobs
      /\ \A t \in Threads : hand[t] # None => hand[t] \in Jobs
      /\ \A d \in Clients : new[d] # None => new[d] \in Jobs
  BY RangeFacts DEF Types
<1>10. QueueInv'
  BY <1>7, <1>8, <1>9, <1>j DEF PlaceInv, QueueInv, Unheld
<1>11. SlotInv'
  BY <1>8, <1>9, <1>j DEF PlaceInv, SlotInv, Unheld
<1>12. HandInv'
  BY <1>8, <1>9, <1>j DEF PlaceInv, HandInv
<1>13. ClientInv'
  BY <1>8, <1>9, <1>j DEF PlaceInv, ClientInv, Carrying
<1>14. OwnedInv'
  BY <1>7, <1>8, <1>9 DEF PlaceInv, OwnedInv, Somewhere
<1> QED BY <1>10, <1>11, <1>12, <1>13, <1>14 DEF PlaceInv

(* The stack after a new job has come on top, and the job pushed out. *)
LEMMA StackFacts ==
  ASSUME Types, PlaceInv, NEW j \in Jobs, j \notin Range(queues[SYSTEM_FG])
  PROVE  LET stack == <<j>> \o queues[SYSTEM_FG]
             over  == Len(stack) > StackLimit
             Out   == IF over THEN {Last(stack)} ELSE {}
             fit   == IF over THEN Front(stack) ELSE stack
         IN  /\ fit \in Seq(Jobs) /\ Distinct(fit)
             /\ Range(fit) = (Range(queues[SYSTEM_FG]) \cup {j}) \ Out
             /\ Out \subseteq Range(queues[SYSTEM_FG])
             /\ Len(queues[SYSTEM_FG]) <= StackLimit => Len(fit) <= StackLimit
<1> DEFINE s     == queues[SYSTEM_FG]
           stack == <<j>> \o s
<1>1. s \in Seq(Jobs) /\ Distinct(s) /\ j \notin Range(s)
  BY DEF Types, PlaceInv, QueueInv, QueueIds, USER_FG, SYSTEM_FG, SYSTEM_BG
<1> HIDE DEF s
<1>2. /\ stack \in Seq(Jobs) /\ Len(stack) = Len(s) + 1 /\ stack[1] = j
      /\ Range(stack) = Range(s) \cup {j} /\ Distinct(stack) /\ Len(s) \in Nat
  BY <1>1, ConsFacts
<1> HIDE DEF stack
<1>3. CASE Len(stack) > StackLimit
  <2>1. stack # <<>>
    BY <1>2
  <2>2. /\ Front(stack) \in Seq(Jobs) /\ Len(Front(stack)) = Len(stack) - 1
        /\ Last(stack) \in Range(stack)
        /\ Range(stack) = Range(Front(stack)) \cup {Last(stack)}
        /\ Distinct(Front(stack)) /\ Last(stack) \notin Range(Front(stack))
    BY <1>2, <2>1, FrontFacts
  <2>3. Last(stack) # j
    <3>1. Len(stack) \in 2 .. Len(stack) /\ Last(stack) = stack[Len(stack)]
      BY <1>2, <1>3, ConstantsAssumption DEF Last
    <3> QED BY <1>2, <3>1 DEF Distinct
  <2>4. StackLimit \in Nat
    BY ConstantsAssumption
  <2> QED BY <1>1, <1>2, <1>3, <2>2, <2>3, <2>4 DEF s, stack
<1>4. CASE ~(Len(stack) > StackLimit)
  <2>4. StackLimit \in Nat
    BY ConstantsAssumption
  <2> QED BY <1>1, <1>2, <1>4, <2>4 DEF s, stack
<1> QED BY <1>3, <1>4

LEMMA AddOnTopPlace ==
  ASSUME Types, PlaceInv, NEW c \in Clients, AddOnTop(c)
  PROVE  PlaceInv'
<1> DEFINE j     == new[c]
           stack == <<j>> \o queues[SYSTEM_FG]
           over  == Len(stack) > StackLimit
           Out   == IF over THEN {Last(stack)} ELSE {}
           fit   == IF over THEN Front(stack) ELSE stack
<1>0. SYSTEM_FG \in QueueIds
  BY DEF QueueIds, USER_FG, SYSTEM_FG, SYSTEM_BG
<1>1. /\ cpc[c] \in Carrying /\ QueueOf[j] = SYSTEM_FG /\ ~IsReserved(j)
      /\ queues' = [queues EXCEPT ![SYSTEM_FG] = fit]
      /\ LetsGo(c, "notify")
      /\ UNCHANGED <<job_res, hand, wpc>>
  BY DEF AddOnTop, MayAdd, Carrying, slots, UnchangedWorkers
<1>2. /\ j \in Jobs /\ state[j] # "FREED" /\ None \notin Jobs
      /\ \A p \in QueueIds : j \notin Range(queues[p]) /\ Range(queues[p]) \subseteq Jobs
      /\ \A r \in Reserved : job_res[r] # j /\ job_res[r] \in Jobs \cup {None}
      /\ \A t \in Threads : hand[t] # j /\ hand[t] \in Jobs \cup {None}
      /\ \A d \in Clients : (d # c => new[d] # j) /\ new[d] \in Jobs \cup {None}
  BY <1>1, GivenFacts
<1>3. /\ fit \in Seq(Jobs) /\ Distinct(fit)
      /\ Range(fit) = (Range(queues[SYSTEM_FG]) \cup {j}) \ Out
      /\ Out \subseteq Range(queues[SYSTEM_FG])
  BY <1>0, <1>2, StackFacts
<1>4. /\ \A i \in Jobs : state'[i] = CASE i = j     -> "QUEUED"
                                       [] i \in Out -> "FREED"
                                       [] OTHER     -> state[i]
      /\ \A i \in Jobs : progress'[i] = (progress[i] /\ i \notin Out)
  BY DEF AddOnTop
<1>5. /\ \A p \in QueueIds : queues'[p] = IF p = SYSTEM_FG THEN fit ELSE queues[p]
      /\ \A d \in Clients : new'[d] = IF d = c THEN None ELSE new[d]
      /\ \A d \in Clients : cpc'[d] = IF d = c THEN "notify" ELSE cpc[d]
      /\ UNCHANGED <<job_res, hand, wpc>>
  BY <1>0, <1>1 DEF Types, LetsGo, Moves
<1>6. QueueOf[j] = SYSTEM_FG /\ ~IsReserved(j)
  BY <1>1
<1> HIDE DEF j, Out, fit
<1>7. \A i \in Jobs : state'[i] = IF i = j THEN "QUEUED"
                                  ELSE IF i \in Out THEN "FREED" ELSE state[i]
  BY <1>0, <1>2, <1>3, <1>4
<1>8. \A i \in Out : /\ i # j /\ \A p \in QueueIds : p # SYSTEM_FG => i \notin Range(queues[p])
                     /\ \A r \in Reserved : job_res[r] # i
                     /\ \A t \in Threads : hand[t] # i
                     /\ \A d \in Clients : new[d] # i
  <2> SUFFICES ASSUME NEW i \in Out
               PROVE  /\ i # j
                      /\ \A p \in QueueIds : p # SYSTEM_FG => i \notin Range(queues[p])
                      /\ \A r \in Reserved : job_res[r] # i
                      /\ \A t \in Threads : hand[t] # i
                      /\ \A d \in Clients : new[d] # i
    OBVIOUS
  <2>1. i \in Range(queues[SYSTEM_FG]) /\ i # j
    BY <1>0, <1>2, <1>3
  <2>2. QueueOf[i] = SYSTEM_FG /\ ~IsReserved(i) /\ Unheld(i)
    BY <1>0, <2>1 DEF PlaceInv, QueueInv
  <2>3. i # None
    BY <1>0, <1>2, <2>1
  <2> QED BY <2>1, <2>2, <2>3 DEF PlaceInv, QueueInv, SlotInv, Unheld
<1>9. /\ \A p \in QueueIds : /\ Distinct(queues'[p])
                             /\ p # SYSTEM_FG => Range(queues'[p]) = Range(queues[p])
      /\ Range(queues'[SYSTEM_FG]) = (Range(queues[SYSTEM_FG]) \cup {j}) \ Out
  BY <1>0, <1>3, <1>5 DEF PlaceInv, QueueInv
<1>10. QueueInv'
  <2> SUFFICES ASSUME NEW p \in QueueIds, NEW i \in Range(queues'[p])
               PROVE  QueueOf[i] = p /\ ~IsReserved(i) /\ state'[i] # "FREED" /\ Unheld(i)'
    BY <1>9 DEF QueueInv
  <2>1. CASE i = j
    BY <1>0, <1>2, <1>5, <1>6, <1>7, <1>9, <2>1 DEF Unheld
  <2>2. CASE i # j
    <3>1. i \in Range(queues[p]) /\ i \in Jobs
      BY <1>2, <1>9, <2>2
    <3>2. i \notin Out
      BY <1>8, <1>9, <3>1
    <3> QED BY <1>2, <1>5, <1>7, <2>2, <3>1, <3>2 DEF PlaceInv, QueueInv, Unheld
  <2> QED BY <2>1, <2>2
<1>11. SlotInv'
  BY <1>2, <1>5, <1>7, <1>8 DEF PlaceInv, SlotInv, Unheld
<1>12. HandInv'
  BY <1>2, <1>5, <1>7, <1>8 DEF PlaceInv, HandInv, Handling
<1>13. ClientInv'
  BY <1>2, <1>5, <1>7, <1>8 DEF PlaceInv, ClientInv, Carrying
<1>14. OwnedInv'
  <2> SUFFICES ASSUME ~StrayWrites, NEW i \in Jobs, state'[i] # "FREED"
               PROVE  Somewhere(i)'
    BY DEF OwnedInv
  <2>1. state[i] # "FREED" => Somewhere(i)
    BY DEF PlaceInv, OwnedInv
  <2>2. CASE i = j
    <3>1. i \in Range(queues'[SYSTEM_FG])
      BY <1>8, <1>9, <2>2
    <3> QED BY <1>0, <1>2, <1>7, <2>2, <3>1 DEF Somewhere
  <2>3. CASE i # j
    <3>1. state'[i] # "FREED" => i \notin Out /\ Somewhere(i)
      BY <1>7, <2>1, <2>3
    <3>2. state'[i] # "FREED" => Somewhere(i)'
      BY <1>0, <1>5, <1>9, <2>3, <3>1 DEF Somewhere, j
    <3> QED BY <1>4, <1>7, <2>1, <2>3, <3>2
  <2> QED BY <2>2, <2>3
<1> QED BY <1>10, <1>11, <1>12, <1>13, <1>14 DEF PlaceInv

LEMMA AddReservedPlace ==
  ASSUME Types, PlaceInv, NEW c \in Clients, AddReserved(c)
  PROVE  PlaceInv'
<1> DEFINE j   == new[c]
           r   == SlotOf[j]
           old == job_res[r]
<1>1. /\ cpc[c] \in Carrying /\ IsReserved(j)
      /\ state' = [i \in Jobs |-> CASE i = j   -> "QUEUED"
                                    [] i = old -> "FREED"
                                    [] OTHER   -> state[i]]
      /\ progress' = [i \in Jobs |-> progress[i] /\ i # old]
      /\ job_res' = [job_res EXCEPT ![r] = j]
      /\ LetsGo(c, "notify")
      /\ UNCHANGED <<queues, hand, wpc>>
  BY DEF AddReserved, Carrying, shared, UnchangedWorkers
<1>2. /\ j \in Jobs /\ state[j] # "FREED" /\ None \notin Jobs
      /\ \A p \in QueueIds : j \notin Range(queues[p]) /\ Range(queues[p]) \subseteq Jobs
      /\ \A s \in Reserved : job_res[s] # j /\ job_res[s] \in Jobs \cup {None}
      /\ \A t \in Threads : hand[t] # j /\ hand[t] \in Jobs \cup {None}
      /\ \A d \in Clients : (d # c => new[d] # j) /\ new[d] \in Jobs \cup {None}
  BY <1>1, GivenFacts
<1>3. r \in Reserved
  BY <1>1, ConstantsAssumption DEF IsReserved, Range
<1>4. /\ \A i \in Jobs : progress'[i] = (progress[i] /\ i # old)
      /\ \A s \in Reserved : job_res'[s] = IF s = r THEN j ELSE job_res[s]
      /\ \A d \in Clients : new'[d] = IF d = c THEN None ELSE new[d]
      /\ \A d \in Clients : cpc'[d] = IF d = c THEN "notify" ELSE cpc[d]
      /\ UNCHANGED <<queues, hand, wpc>>
  BY <1>1, <1>3 DEF Types, LetsGo, Moves
<1>5. \A i \in Jobs : state'[i] = IF i = j THEN "QUEUED"
                                  ELSE IF i = old THEN "FREED" ELSE state[i]
  BY <1>1, <1>2, <1>3
<1>6. IsReserved(j) /\ SlotOf[j] = r
  BY <1>1
<1>7. old # None => /\ old # j /\ old \in Jobs
                    /\ \A p \in QueueIds : old \notin Range(queues[p])
                    /\ \A s \in Reserved : s # r => job_res[s] # old
                    /\ \A t \in Threads : hand[t] # old
                    /\ \A d \in Clients : new[d] # old
  <2> SUFFICES ASSUME old # None
               PROVE  /\ old # j /\ old \in Jobs
                      /\ \A p \in QueueIds : old \notin Range(queues[p])
                      /\ \A s \in Reserved : s # r => job_res[s] # old
                      /\ \A t \in Threads : hand[t] # old
                      /\ \A d \in Clients : new[d] # old
    OBVIOUS
  <2>1. IsReserved(old) /\ SlotOf[old] = r /\ Unheld(old)
    BY <1>3 DEF PlaceInv, SlotInv
  <2> QED BY <1>2, <1>3, <2>1 DEF PlaceInv, QueueInv, SlotInv, Unheld
<1>8. old \in Jobs \cup {None}
  BY <1>2, <1>3
<1> HIDE DEF j, r, old
<1>10. QueueInv'
  BY <1>2, <1>4, <1>5, <1>7, <1>8 DEF PlaceInv, QueueInv, Unheld
<1>11. SlotInv'
  <2> SUFFICES ASSUME NEW s \in Reserved, job_res'[s] # None
               PROVE  /\ IsReserved(job_res'[s]) /\ SlotOf[job_res'[s]] = s
                      /\ state'[job_res'[s]] # "FREED" /\ Unheld(job_res[s])'
    BY DEF SlotInv
  <2>1. CASE s = r
    BY <1>2, <1>4, <1>5, <1>6, <2>1 DEF Unheld
  <2>2. CASE s # r
    BY <1>2, <1>4, <1>5, <1>7, <2>2 DEF PlaceInv, SlotInv, Unheld
  <2> QED BY <2>1, <2>2
<1>12. HandInv'
  BY <1>2, <1>4, <1>5, <1>7, <1>8 DEF PlaceInv, HandInv, Handling
<1>13. ClientInv'
  BY <1>2, <1>4, <1>5, <1>7, <1>8 DEF PlaceInv, ClientInv, Carrying
<1>14. OwnedInv'
  <2> SUFFICES ASSUME ~StrayWrites, NEW i \in Jobs, state'[i] # "FREED"
               PROVE  Somewhere(i)'
    BY DEF OwnedInv
  <2>1. state[i] # "FREED" => Somewhere(i)
    BY DEF PlaceInv, OwnedInv
  <2>2. job_res'[r] = j
    BY <1>3, <1>4
  <2> QED BY <1>2, <1>3, <1>4, <1>5, <2>1, <2>2 DEF Somewhere, j, old
<1> QED BY <1>10, <1>11, <1>12, <1>13, <1>14 DEF PlaceInv

LEMMA SchedulePlace ==
  ASSUME Types, PlaceInv, NEW w \in Threads, Schedule(w)
  PROVE  PlaceInv'
<1>1. PICK q \in QueueIds :
        /\ Wins(q)
        /\ queues' = [queues EXCEPT ![q] = Tail(@)]
        /\ hand' = [hand EXCEPT ![w] = Head(queues[q])]
  BY DEF Schedule
<1> DEFINE j == Head(queues[q])
<1>2. queues[q] \in Seq(Jobs) /\ queues[q] # <<>> /\ Distinct(queues[q])
  BY <1>1 DEF Wins, Eligible, Types, PlaceInv, QueueInv
<1>3. /\ Range(queues[q]) = Range(Tail(queues[q])) \cup {j}
      /\ Distinct(Tail(queues[q])) /\ j \notin Range(Tail(queues[q]))
      /\ j \in Range(queues[q])
  BY <1>2, TailFacts
<1>4. /\ j \in Jobs /\ None \notin Jobs
      /\ QueueOf[j] = q /\ ~IsReserved(j) /\ state[j] # "FREED" /\ Unheld(j)
  BY <1>2, <1>3, ConstantsAssumption DEF PlaceInv, QueueInv
<1>5. /\ \A p \in QueueIds : queues'[p] = IF p = q THEN Tail(queues[q]) ELSE queues[p]
      /\ \A t \in Threads : hand'[t] = IF t = w THEN j ELSE hand[t]
      /\ \A t \in Threads : wpc'[t] = IF t = w THEN "taken" ELSE wpc[t]
      /\ UNCHANGED <<job_res, state, progress, cpc, new>>
  BY <1>1 DEF Types, Schedule, Goto, slots
<1>6. hand[w] = None /\ w \in Workers
  BY DEF Schedule, PlaceInv, HandInv, Handling
<1>j. /\ \A p \in QueueIds : Range(queues[p]) \subseteq Jobs
      /\ \A r \in Reserved : job_res[r] # None => job_res[r] \in Jobs
      /\ \A t \in Threads : hand[t] # None => hand[t] \in Jobs
      /\ \A d \in Clients : new[d] # None => new[d] \in Jobs
  BY RangeFacts DEF Types
<1>7. \A r \in Reserved : job_res[r] # j
  BY <1>4 DEF PlaceInv, SlotInv
<1> HIDE DEF j
<1>8. \A p \in QueueIds : /\ Distinct(queues'[p])
                          /\ Range(queues'[p]) = IF p = q THEN Range(queues[q]) \ {j}
                                                          ELSE Range(queues[p])
  BY <1>3, <1>5 DEF PlaceInv, QueueInv
<1>10. QueueInv'
  <2> SUFFICES ASSUME NEW p \in QueueIds, NEW i \in Range(queues'[p])
               PROVE  QueueOf[i] = p /\ ~IsReserved(i) /\ state'[i] # "FREED" /\ Unheld(i)'
    BY <1>8 DEF QueueInv
  <2>1. i \in Range(queues[p]) /\ i # j
    BY <1>4, <1>8 DEF PlaceInv, QueueInv
  <2> QED BY <1>5, <2>1 DEF PlaceInv, QueueInv, Unheld
<1>11. SlotInv'
  BY <1>5, <1>7 DEF PlaceInv, SlotInv, Unheld
<1>12. HandInv'
  BY <1>4, <1>5, <1>6, <1>j DEF PlaceInv, HandInv, Handling, Unheld
<1>13. ClientInv'
  BY <1>5 DEF PlaceInv, ClientInv
<1>14. OwnedInv'
  <2> SUFFICES ASSUME ~StrayWrites, NEW i \in Jobs, state'[i] # "FREED"
               PROVE  Somewhere(i)'
    BY DEF OwnedInv
  <2>1. state[i] # "FREED" => Somewhere(i)
    BY DEF PlaceInv, OwnedInv
  <2>2. CASE i = j
    BY <1>5, <2>1, <2>2 DEF Somewhere
  <2>3. CASE i # j
    BY <1>4, <1>5, <1>6, <1>8, <2>1, <2>3 DEF Somewhere
  <2> QED BY <2>2, <2>3
<1> QED BY <1>10, <1>11, <1>12, <1>13, <1>14 DEF PlaceInv

LEMMA TakeReservedPlace ==
  ASSUME Types, PlaceInv, NEW r \in Threads, TakeReserved(r)
  PROVE  PlaceInv'
<1> DEFINE j == job_res[r]
<1>1. /\ r \in Reserved /\ hand[r] = None /\ wpc[r] = "schedule"
      /\ hand' = [hand EXCEPT ![r] = IF new_res[r] THEN j ELSE None]
      /\ job_res' = [job_res EXCEPT ![r] = IF new_res[r] THEN None ELSE @]
      /\ wpc' = [wpc EXCEPT ![r] = IF hand'[r] = None THEN "sleep" ELSE "taken"]
      /\ UNCHANGED <<queues, state, progress, cpc, new>>
  BY DEF TakeReserved, Goto, shared, objects, PlaceInv, HandInv, Handling
<1>2. j \in Jobs \cup {None} /\ None \notin Jobs
  BY <1>1, ConstantsAssumption DEF Types
<1>3. j # None => /\ IsReserved(j) /\ SlotOf[j] = r /\ state[j] # "FREED" /\ Unheld(j)
  BY <1>1 DEF PlaceInv, SlotInv
<1>4. r \notin Workers
  BY <1>1, ConstantsAssumption
<1>j. /\ \A p \in QueueIds : Range(queues[p]) \subseteq Jobs
      /\ \A s \in Reserved : job_res[s] # None => job_res[s] \in Jobs
      /\ \A t \in Threads : hand[t] # None => hand[t] \in Jobs
      /\ \A d \in Clients : new[d] # None => new[d] \in Jobs
  BY RangeFacts DEF Types
<1>5. CASE ~new_res[r] \/ j = None
  <2>1. /\ \A t \in Threads : hand'[t] = hand[t]
        /\ \A s \in Reserved : job_res'[s] = job_res[s]
        /\ \A t \in Threads : wpc'[t] = IF t = r THEN "sleep" ELSE wpc[t]
    BY <1>1, <1>5 DEF Types
  <2>2. UNCHANGED <<queues, state, progress, cpc, new>>
    BY <1>1
  <2>10. QueueInv'
    BY <2>1, <2>2 DEF PlaceInv, QueueInv, Unheld
  <2>11. SlotInv'
    BY <2>1, <2>2 DEF PlaceInv, SlotInv, Unheld
  <2>12. HandInv'
    BY <1>1, <2>1, <2>2 DEF PlaceInv, HandInv, Handling
  <2>13. ClientInv'
    BY <2>2 DEF PlaceInv, ClientInv
  <2>14. OwnedInv'
    BY <2>1, <2>2 DEF PlaceInv, OwnedInv, Somewhere
  <2> QED BY <2>10, <2>11, <2>12, <2>13, <2>14 DEF PlaceInv
<1>6. CASE new_res[r] /\ j # None
  <2>1. /\ \A t \in Threads : hand'[t] = IF t = r THEN j ELSE hand[t]
        /\ \A s \in Reserved : job_res'[s] = IF s = r THEN None ELSE job_res[s]
        /\ \A t \in Threads : wpc'[t] = IF t = r THEN "taken" ELSE wpc[t]
    BY <1>1, <1>6 DEF Types
  <2>2. UNCHANGED <<queues, state, progress, cpc, new>>
    BY <1>1
  <2>3. /\ j \in Jobs /\ IsReserved(j) /\ SlotOf[j] = r /\ state[j] # "FREED" /\ Unheld(j)
        /\ \A s \in Reserved : s # r => job_res[s] # j
    BY <1>2, <1>3, <1>6 DEF PlaceInv, SlotInv
  <2>4. job_res[r] = j
    OBVIOUS
  <2> HIDE DEF j
  <2>10. QueueInv'
    <3>1. \A q \in QueueIds : j \notin Range(queues[q])
      BY <2>3 DEF PlaceInv, QueueInv
    <3> QED BY <2>1, <2>2, <3>1 DEF PlaceInv, QueueInv, Unheld
  <2>11. SlotInv'
    BY <2>1, <2>2, <2>3 DEF PlaceInv, SlotInv, Unheld
  <2>12. HandInv'
    BY <1>1, <1>2, <1>4, <1>j, <2>1, <2>2, <2>3 DEF PlaceInv, HandInv, Handling, Unheld
  <2>13. ClientInv'
    BY <2>2 DEF PlaceInv, ClientInv
  <2>14. OwnedInv'
    BY <1>1, <1>2, <2>1, <2>2, <2>3, <2>4 DEF PlaceInv, OwnedInv, Somewhere
  <2> QED BY <2>10, <2>11, <2>12, <2>13, <2>14 DEF PlaceInv
<1> QED BY <1>5, <1>6

LEMMA SubmitPlace ==
  ASSUME Types, PlaceInv, NEW c \in Clients, Submit(c) \/ \E j \in Jobs : Create(c, j)
  PROVE  PlaceInv'
<1>p. cpc[c] \in Carrying => new[c] \in Jobs /\ state[new[c]] # "FREED"
  BY DEF Types, PlaceInv, ClientInv
<1>1. CASE AddSynchronous(c)
  <2>1. /\ UNCHANGED <<queues, job_res, hand, new, wpc>>
        /\ cpc[c] \in Carrying /\ cpc' = [cpc EXCEPT ![c] = "sync"]
        /\ state' = [state EXCEPT ![new[c]] = "RUNNING"]
    BY <1>1, <1>p DEF Types, AddSynchronous, Moves, SetState, UnchangedWorkers, shared,
                      slots, Carrying
  <2>2. /\ \A j \in Jobs : state'[j] = "FREED" <=> state[j] = "FREED"
        /\ \A d \in Clients : cpc'[d] \in Carrying <=> cpc[d] \in Carrying
    BY <1>p, <2>1 DEF Types, Carrying
  <2> QED BY <2>1, <2>2, PlaceQuiet
<1>2. CASE TestRunning(c) \/ AddScheduledAlready(c) \/ Notify(c)
  <2>1. /\ UNCHANGED <<queues, job_res, hand, new, state, progress>>
        /\ \A d \in Clients : cpc'[d] \in Carrying <=> cpc[d] \in Carrying
    BY <1>2 DEF Types, TestRunning, AddScheduledAlready, MayAdd, Notify, Moves,
                UnchangedWorkers, shared, slots, objects, Carrying
  <2>2. \A t \in Threads : wpc'[t] \in Handling <=> wpc[t] \in Handling
    BY <1>2, BroadcastFacts
       DEF TestRunning, AddScheduledAlready, Notify, UnchangedWorkers, Handling
  <2> QED BY <2>1, <2>2, PlaceQuiet
<1>3. CASE ReturnSynchronous(c) \/ DropDuplicate(c) \/ DiscardDuplicate(c)
  BY <1>3, ClientFreesPlace DEF ReturnSynchronous, DropDuplicate, DiscardDuplicate, Carrying,
                                shared, slots, UnchangedWorkers
<1> QED BY <1>1, <1>2, <1>3, CreatePlace, AddFifoPlace, AddQueuedAlreadyPlace, AddOnTopPlace,
           AddReservedPlace DEF Submit

LEMMA WorkerPlace ==
  ASSUME Types, PlaceInv, NEW t \in Threads, Worker(t)
  PROVE  PlaceInv'
<1>1. CASE CheckRunning(t) \/ ScheduleNothing(t) \/ TestQueued(t) \/ Clear(t) \/ Sleep(t)
  <2>1. UNCHANGED <<queues, job_res, hand, new, state, progress, cpc>>
    BY <1>1 DEF CheckRunning, ScheduleNothing, TestQueued, Clear, Sleep, shared, slots, objects
  <2>2. \A u \in Threads : wpc'[u] \in Handling <=> wpc[u] \in Handling
    BY <1>1 DEF Types, CheckRunning, ScheduleNothing, TestQueued, Clear, Sleep, Goto, Handling
  <2> QED BY <2>1, <2>2, PlaceQuiet
<1>2. CASE Execute(t) \/ Return(t)
  <2>1. hand[t] \in Jobs /\ state[hand[t]] # "FREED"
    BY <1>2 DEF Execute, Return, Handling, Types, PlaceInv, HandInv
  <2>2. /\ UNCHANGED <<queues, job_res, hand, new, cpc>>
        /\ \E s \in {"RUNNING", "FINISHED"} : SetState(hand[t], s)
    BY <1>2 DEF Execute, Return, shared, slots
  <2>3. \A u \in Threads : wpc'[u] \in Handling <=> wpc[u] \in Handling
    BY <1>2 DEF Types, Execute, Return, Goto, Handling
  <2>4. \A j \in Jobs : state'[j] = "FREED" <=> state[j] = "FREED"
    BY <2>1, <2>2 DEF Types, SetState
  <2> QED BY <2>2, <2>3, <2>4, PlaceQuiet
<1> QED BY <1>1, <1>2, SchedulePlace, TakeReservedPlace, WorkerFreesPlace DEF Worker

LEMMA OtherPlace ==
  ASSUME Types, PlaceInv, Gui \/ Kicker \/ Quit \/ Shutdown \/ Joined
  PROVE  PlaceInv'
<1>1. CASE Gui
  <2>1. UNCHANGED <<queues, job_res, hand, new, wpc, cpc>>
    BY <1>1 DEF Gui, Cancel, HideButton, shared, slots, actors
  <2>2. \A j \in Jobs : /\ state[j] # "FREED" => state'[j] # "FREED"
                        /\ ~StrayWrites /\ state[j] = "FREED" => state'[j] = "FREED"
    BY <1>1 DEF Gui, Cancel, HideButton, SetState, Types, objects
  <2> QED BY <2>1, <2>2, PlaceQuiet
<1>2. CASE Kicker \/ Quit \/ Shutdown \/ Joined
  <2>1. UNCHANGED <<queues, job_res, hand, new, state, progress, cpc>>
    BY <1>2 DEF Kicker, KickerCheck, Kick, Quit, Shutdown, Joined, shared, slots, objects
  <2>2. \A u \in Threads : wpc'[u] \in Handling <=> wpc[u] \in Handling
    BY <1>2, BroadcastFacts DEF Kicker, KickerCheck, Kick, Quit, Shutdown, Joined, Handling
  <2> QED BY <2>1, <2>2, PlaceQuiet
<1> QED BY <1>1, <1>2

LEMMA InitPlace ==
  ASSUME Init
  PROVE  Types /\ PlaceInv
<1>1. Types
  <2>1. /\ queues \in [QueueIds -> Seq(Jobs)]
        /\ job \in [Workers -> Jobs \cup {None}] /\ job_res \in [Reserved -> Jobs \cup {None}]
        /\ hand \in [Threads -> Jobs \cup {None}] /\ new \in [Clients -> Jobs \cup {None}]
    BY DEF Init
  <2>2. priority \in [Jobs -> 0 .. PriorityLimit - 1]
    BY ConstantsAssumption DEF Init
  <2> QED BY <2>1, <2>2 DEF Init, Types, JobStates, Ended, ClientPCs, WorkerPCs
<1>2. \A q \in QueueIds : Range(queues[q]) = {} /\ Distinct(queues[q])
  BY DEF Init, Range, Distinct
<1>3. PlaceInv
  BY <1>2, ConstantsAssumption
     DEF Init, PlaceInv, QueueInv, SlotInv, HandInv, ClientInv, OwnedInv, Handling, Carrying
<1> QED BY <1>1, <1>3

LEMMA TypesPlaceStep ==
  ASSUME Types, PlaceInv, [Next]_vars
  PROVE  Types' /\ PlaceInv'
<1>1. CASE Next
  <2>1. PlaceInv'
    BY <1>1, SubmitPlace, WorkerPlace, OtherPlace DEF Next
  <2> QED BY <1>1, <2>1, TypesStep
<1>2. CASE UNCHANGED vars
  <2>1. UNCHANGED <<running, queues, export_scheduled, job, job_res, new_res, state, priority,
                    progress, cpc, new, wpc, hand, kicker, main, buttons>>
    BY <1>2 DEF vars, shared, slots, objects, actors
  <2>2. Types'
    BY <2>1 DEF Types
  <2>3. PlaceInv'
    BY <2>1, PlaceQuiet
  <2> QED BY <2>2, <2>3
<1> QED BY <1>1, <1>2

THEOREM PlacesHold == Spec => [](Types /\ PlaceInv)
<1>1. Init => Types /\ PlaceInv
  BY InitPlace
<1>2. (Types /\ PlaceInv) /\ [Next]_vars => (Types /\ PlaceInv)'
  BY TypesPlaceStep
<1> QED BY <1>1, <1>2, PTL DEF Spec

-----------------------------------------------------------------------------
LEMMA HoldersFacts ==
  ASSUME NEW j
  PROVE  \A h : h \in Holders(j) <=>
           \/ \E q \in QueueIds : \E i \in DOMAIN queues[q] :
                queues[q][i] = j /\ h = <<"queue", q, i>>
           \/ \E r \in Reserved : job_res[r] = j /\ h = <<"slot", r>>
           \/ \E t \in Threads : hand[t] = j /\ h = <<"worker", t>>
           \/ \E c \in Clients : new[c] = j /\ h = <<"client", c>>
<1> DEFINE Q == UNION {{<<"queue", q, i>> : i \in {i \in DOMAIN queues[q] : queues[q][i] = j}}
                         : q \in QueueIds}
           S == {<<"slot", r>> : r \in {r \in Reserved : job_res[r] = j}}
           W == {<<"worker", t>> : t \in {t \in Threads : hand[t] = j}}
           C == {<<"client", c>> : c \in {c \in Clients : new[c] = j}}
<1>1. \A h : h \in Q <=> \E q \in QueueIds : \E i \in DOMAIN queues[q] :
                           queues[q][i] = j /\ h = <<"queue", q, i>>
  OBVIOUS
<1>2. /\ \A h : h \in S <=> \E r \in Reserved : job_res[r] = j /\ h = <<"slot", r>>
      /\ \A h : h \in W <=> \E t \in Threads : hand[t] = j /\ h = <<"worker", t>>
      /\ \A h : h \in C <=> \E c \in Clients : new[c] = j /\ h = <<"client", c>>
  OBVIOUS
<1>3. Holders(j) = Q \cup S \cup W \cup C
  BY DEF Holders
<1> HIDE DEF Q, S, W, C
<1> QED BY <1>1, <1>2, <1>3

LEMMA OneHolder ==
  ASSUME Types, PlaceInv, ~StrayWrites, NEW j \in Jobs, state[j] # "FREED"
  PROVE  \E h : Holders(j) = {h}
<1>n. j # None
  BY ConstantsAssumption
<1>r. \A q \in QueueIds : j \in Range(queues[q]) <=> \E i \in DOMAIN queues[q] : queues[q][i] = j
  BY DEF Range
<1>1. ASSUME NEW q \in QueueIds, j \in Range(queues[q])
      PROVE  \E h : Holders(j) = {h}
  <2>1. PICK i \in DOMAIN queues[q] : queues[q][i] = j
    BY <1>1, <1>r
  <2>2. /\ QueueOf[j] = q /\ ~IsReserved(j) /\ Unheld(j)
        /\ \A p \in QueueIds : j \in Range(queues[p]) => p = q
        /\ \A r \in Reserved : job_res[r] # j
    BY <1>1, <1>n DEF PlaceInv, QueueInv, SlotInv
  <2>3. \A k \in DOMAIN queues[q] : queues[q][k] = j => k = i
    <3>1. queues[q] \in Seq(Jobs) /\ Distinct(queues[q])
      BY DEF Types, PlaceInv, QueueInv
    <3>2. DOMAIN queues[q] = 1 .. Len(queues[q])
      BY <3>1
    <3> QED BY <2>1, <3>1, <3>2 DEF Distinct
  <2>4. \A h : h \in Holders(j) <=> h = <<"queue", q, i>>
    BY <1>r, <2>1, <2>2, <2>3, HoldersFacts DEF Unheld
  <2>5. Holders(j) = {<<"queue", q, i>>}
    BY <2>4
  <2> QED BY <2>5
<1>2. ASSUME NEW r \in Reserved, job_res[r] = j
      PROVE  \E h : Holders(j) = {h}
  <2>1. /\ Unheld(j) /\ \A q \in QueueIds : j \notin Range(queues[q])
        /\ \A s \in Reserved : job_res[s] = j => s = r
    BY <1>2, <1>n DEF PlaceInv, QueueInv, SlotInv
  <2>2. \A h : h \in Holders(j) <=> h = <<"slot", r>>
    BY <1>2, <1>r, <2>1, HoldersFacts DEF Unheld
  <2>3. Holders(j) = {<<"slot", r>>}
    BY <2>2
  <2> QED BY <2>3
<1>3. ASSUME NEW t \in Threads, hand[t] = j
      PROVE  \E h : Holders(j) = {h}
  <2>1. /\ \A q \in QueueIds : j \notin Range(queues[q])
        /\ \A s \in Reserved : job_res[s] # j
        /\ \A u \in Threads : hand[u] = j => u = t
        /\ \A c \in Clients : new[c] # j
    BY <1>3, <1>n DEF PlaceInv, QueueInv, SlotInv, HandInv, Unheld
  <2>2. \A h : h \in Holders(j) <=> h = <<"worker", t>>
    BY <1>3, <1>r, <2>1, HoldersFacts
  <2>3. Holders(j) = {<<"worker", t>>}
    BY <2>2
  <2> QED BY <2>3
<1>4. ASSUME NEW c \in Clients, new[c] = j
      PROVE  \E h : Holders(j) = {h}
  <2>1. /\ \A q \in QueueIds : j \notin Range(queues[q])
        /\ \A s \in Reserved : job_res[s] # j
        /\ \A t \in Threads : hand[t] # j
        /\ \A d \in Clients : new[d] = j => d = c
    BY <1>4, <1>n DEF PlaceInv, QueueInv, SlotInv, HandInv, ClientInv, Unheld
  <2>2. \A h : h \in Holders(j) <=> h = <<"client", c>>
    BY <1>4, <1>r, <2>1, HoldersFacts
  <2>3. Holders(j) = {<<"client", c>>}
    BY <2>2
  <2> QED BY <2>3
<1>5. Somewhere(j)
  BY DEF PlaceInv, OwnedInv
<1> QED BY <1>1, <1>2, <1>3, <1>4, <1>5 DEF Somewhere

(* A job has one owner from its creation to its disposal. *)
LEMMA PlacesGiveOneOwner ==
  ASSUME Types, PlaceInv, ~StrayWrites
  PROVE  OneOwner
<1> SUFFICES ASSUME NEW j \in Jobs
             PROVE  Cardinality(Holders(j)) = IF state[j] = "FREED" THEN 0 ELSE 1
  BY DEF OneOwner
<1>1. CASE state[j] = "FREED"
  <2>1. j # None
    BY ConstantsAssumption
  <2>2. /\ \A q \in QueueIds : \A i \in DOMAIN queues[q] : queues[q][i] # j
        /\ \A r \in Reserved : job_res[r] # j
        /\ \A t \in Threads : hand[t] # j
        /\ \A c \in Clients : new[c] # j
    BY <1>1, <2>1 DEF PlaceInv, QueueInv, SlotInv, HandInv, ClientInv, Range
  <2>3. Holders(j) = {}
    BY <2>2, HoldersFacts
  <2> QED BY <1>1, <2>3, FS_EmptySet
<1>2. CASE state[j] # "FREED"
  BY <1>2, OneHolder, FS_Singleton
<1> QED BY <1>1, <1>2

(* Neither a duplicate, the overflow of the stack, the replacement in a    *)
(* slot nor the disposal after a run leaks a job, or lets two threads hold *)
(* the same one: any thread that frees or runs a job is its only owner.    *)
(* Nor does a click on a cancel button, whenever it is carried out, as     *)
(* long as the cancellation of a job freed meanwhile writes nothing there. *)
THEOREM JobsHaveOneOwner == ASSUME StrayWrites = FALSE PROVE Spec => []OneOwner
<1>1. Types /\ PlaceInv => OneOwner
  BY PlacesGiveOneOwner
<1> QED BY <1>1, PlacesHold, PTL

-----------------------------------------------------------------------------
(* control->job has what a worker holds from when it takes a job to when   *)
(* it clears the entry; export_scheduled says whether an export is there.  *)
Recorded == {"taken", "execute", "running", "clear"}

Exports(w) == job[w] # None /\ QueueOf[job[w]] = USER_EXPORT

RecordInv ==
  /\ \A w \in Workers : job[w] = IF wpc[w] \in Recorded THEN hand[w] ELSE None
  /\ export_scheduled <=> \E w \in Workers : Exports(w)
  /\ \A v, w \in Workers : Exports(v) /\ Exports(w) => v = w

LEMMA RecordQuiet ==
  ASSUME Types, RecordInv, UNCHANGED <<job, export_scheduled>>,
         \A w \in Workers : /\ wpc'[w] \in Recorded <=> wpc[w] \in Recorded
                            /\ wpc[w] \in Recorded => hand'[w] = hand[w]
  PROVE  RecordInv'
BY DEF Types, RecordInv, Exports

LEMMA ScheduleRecord ==
  ASSUME Types, PlaceInv, RecordInv, NEW w \in Threads, Schedule(w)
  PROVE  RecordInv'
<1>1. PICK q \in QueueIds :
        /\ Wins(q)
        /\ export_scheduled' = (export_scheduled \/ q = USER_EXPORT)
        /\ job' = [job EXCEPT ![w] = Head(queues[q])]
        /\ hand' = [hand EXCEPT ![w] = Head(queues[q])]
  BY DEF Schedule
<1> DEFINE j == Head(queues[q])
<1>2. /\ queues[q] # <<>> /\ queues[q] \in Seq(Jobs)
      /\ q = USER_EXPORT => ~export_scheduled
  BY <1>1 DEF Wins, Eligible, Types
<1>3. j \in Range(queues[q])
  BY <1>2, TailFacts
<1>4. QueueOf[j] = q /\ j \in Jobs /\ j # None
  BY <1>2, <1>3, RangeFacts, ConstantsAssumption DEF PlaceInv, QueueInv
<1>5. /\ w \in Workers /\ wpc[w] = "schedule"
      /\ \A v \in Workers : job'[v] = IF v = w THEN j ELSE job[v]
      /\ \A v \in Workers : hand'[v] = IF v = w THEN j ELSE hand[v]
      /\ \A v \in Workers : wpc'[v] = IF v = w THEN "taken" ELSE wpc[v]
  BY <1>1 DEF Schedule, Goto, Types, Threads
<1>6. job[w] = None
  BY <1>5 DEF RecordInv, Recorded
<1> HIDE DEF j
<1>7. \A v \in Workers : Exports(v)' <=> IF v = w THEN q = USER_EXPORT ELSE Exports(v)
  BY <1>4, <1>5 DEF Exports
<1>8. \A v \in Workers : job'[v] = IF wpc'[v] \in Recorded THEN hand'[v] ELSE None
  BY <1>5 DEF RecordInv, Recorded
<1>9. ~Exports(w)
  BY <1>6 DEF Exports
<1>10. export_scheduled' <=> \E v \in Workers : Exports(v)'
  <2>1. export_scheduled' <=> export_scheduled \/ q = USER_EXPORT
    BY <1>1
  <2> QED BY <1>5, <1>7, <1>9, <2>1 DEF RecordInv
<1>11. \A u, v \in Workers : Exports(u)' /\ Exports(v)' => u = v
  BY <1>2, <1>7, <1>9 DEF RecordInv
<1> QED BY <1>8, <1>10, <1>11 DEF RecordInv

LEMMA ClearRecord ==
  ASSUME Types, PlaceInv, RecordInv, NEW t \in Threads, Clear(t)
  PROVE  RecordInv'
<1>1. /\ wpc[t] = "clear" /\ UNCHANGED hand
      /\ \A w \in Workers : job'[w] = IF w = t THEN None ELSE job[w]
      /\ \A w \in Workers : wpc'[w] = IF w = t THEN "free" ELSE wpc[w]
      /\ export_scheduled' <=> /\ export_scheduled
                               /\ ~(t \in Workers /\ QueueOf[hand[t]] = USER_EXPORT)
  BY DEF Clear, Goto, Types, Threads
<1>2. t \in Workers => job[t] = hand[t] /\ hand[t] # None
  BY <1>1 DEF RecordInv, Recorded, PlaceInv, HandInv, Handling
<1>3. \A w \in Workers : Exports(w)' <=> Exports(w) /\ w # t
  BY <1>1 DEF Exports
<1>4. t \in Workers => (Exports(t) <=> QueueOf[hand[t]] = USER_EXPORT)
  BY <1>2 DEF Exports
<1>5. \A w \in Workers : job'[w] = IF wpc'[w] \in Recorded THEN hand'[w] ELSE None
  BY <1>1 DEF RecordInv, Recorded
<1>6. export_scheduled' <=> \E w \in Workers : Exports(w)'
  BY <1>1, <1>3, <1>4 DEF RecordInv
<1>7. \A v, w \in Workers : Exports(v)' /\ Exports(w)' => v = w
  BY <1>3 DEF RecordInv
<1> QED BY <1>5, <1>6, <1>7 DEF RecordInv

LEMMA RecordStep ==
  ASSUME Types, PlaceInv, RecordInv, [Next]_vars
  PROVE  RecordInv'
<1>1. ASSUME NEW c \in Clients, Submit(c) \/ \E j \in Jobs : Create(c, j)
      PROVE  RecordInv'
  <2>1. UNCHANGED <<job, export_scheduled, hand>> /\ (wpc' = wpc \/ wpc' = Broadcast(wpc))
    <3>1. CASE \/ AddSynchronous(c) \/ ReturnSynchronous(c) \/ TestRunning(c)
               \/ AddScheduledAlready(c)
      BY <3>1 DEF AddSynchronous, ReturnSynchronous, TestRunning, AddScheduledAlready, shared,
                  UnchangedWorkers
    <3>2. CASE DiscardDuplicate(c) \/ AddQueuedAlready(c) \/ AddOnTop(c) \/ AddReserved(c)
      BY <3>2 DEF DiscardDuplicate, AddQueuedAlready, AddOnTop, AddReserved, shared,
                  UnchangedWorkers
    <3>3. CASE Notify(c) \/ DropDuplicate(c)
      BY <3>3 DEF Notify, DropDuplicate, shared, UnchangedWorkers
    <3>4. CASE (\E q \in QueueIds : AddFifo(c, q)) \/ \E j \in Jobs : Create(c, j)
      BY <3>4 DEF AddFifo, Create, shared, UnchangedWorkers
    <3> QED BY <1>1, <3>1, <3>2, <3>3, <3>4 DEF Submit
  <2>2. \A w \in Workers : wpc'[w] \in Recorded <=> wpc[w] \in Recorded
    BY <2>1, BroadcastFacts DEF Recorded, Threads
  <2> QED BY <2>1, <2>2, RecordQuiet
<1>2. ASSUME NEW t \in Threads, Worker(t)
      PROVE  RecordInv'
  <2>1. CASE CheckRunning(t) \/ ScheduleNothing(t) \/ TestQueued(t) \/ Sleep(t)
    <3>1. UNCHANGED <<job, export_scheduled, hand>>
      BY <2>1 DEF CheckRunning, ScheduleNothing, TestQueued, Sleep, shared
    <3>2. \A w \in Workers : wpc'[w] \in Recorded <=> wpc[w] \in Recorded
      BY <2>1 DEF CheckRunning, ScheduleNothing, TestQueued, Sleep, Goto, Recorded, Types, Threads
    <3> QED BY <3>1, <3>2, RecordQuiet
  <2>2. CASE Execute(t) \/ Return(t)
    <3>1. UNCHANGED <<job, export_scheduled, hand>>
      BY <2>2 DEF Execute, Return, shared
    <3>2. \A w \in Workers : wpc'[w] \in Recorded <=> wpc[w] \in Recorded
      BY <2>2 DEF Execute, Return, Goto, Recorded, Types, Threads
    <3> QED BY <3>1, <3>2, RecordQuiet
  <2>3. CASE TakeReserved(t) \/ Free(t)
    <3>1. /\ UNCHANGED <<job, export_scheduled>>
          /\ \A w \in Workers : w # t => hand'[w] = hand[w] /\ wpc'[w] = wpc[w]
      BY <2>3 DEF TakeReserved, Free, Goto, shared, Types, Threads
    <3>2. t \in Workers => wpc[t] = "free" /\ wpc'[t] = "check"
      BY <2>3, ConstantsAssumption DEF TakeReserved, Free, Goto, Types, Threads
    <3> QED BY <3>1, <3>2, RecordQuiet DEF Recorded
  <2> QED BY <1>2, <2>1, <2>2, <2>3, ScheduleRecord, ClearRecord DEF Worker
<1>3. CASE Gui \/ Kicker \/ Quit \/ Shutdown \/ Joined
  <2>1. UNCHANGED <<job, export_scheduled, hand>> /\ (wpc' = wpc \/ wpc' = Broadcast(wpc))
    BY <1>3 DEF Gui, Cancel, HideButton, Kicker, KickerCheck, Kick, Quit, Shutdown, Joined, shared, actors
  <2>2. \A w \in Workers : wpc'[w] \in Recorded <=> wpc[w] \in Recorded
    BY <2>1, BroadcastFacts DEF Recorded, Threads
  <2> QED BY <2>1, <2>2, RecordQuiet
<1>4. CASE UNCHANGED vars
  <2>1. UNCHANGED <<job, export_scheduled, hand, wpc>>
    BY <1>4 DEF vars, shared, actors
  <2> QED BY <2>1, RecordQuiet
<1> QED BY <1>1, <1>2, <1>3, <1>4 DEF Next

THEOREM RecordsHold == Spec => [](Types /\ PlaceInv /\ RecordInv)
<1>1. Init => Types /\ PlaceInv /\ RecordInv
  <2>1. Init => RecordInv
    BY DEF Init, RecordInv, Recorded, Exports, Threads
  <2> QED BY <2>1, InitPlace
<1>2. (Types /\ PlaceInv /\ RecordInv) /\ [Next]_vars => (Types /\ PlaceInv /\ RecordInv)'
  BY TypesPlaceStep, RecordStep
<1> QED BY <1>1, <1>2, PTL DEF Spec

(* At most one worker has an export at a time, and export_scheduled is set *)
(* exactly while one has: it is never left behind, nor taken back early.   *)
THEOREM OneExportRuns == Spec => []ExportsOneAtATime
<1>1. RecordInv => ExportsOneAtATime
  <2> SUFFICES ASSUME RecordInv PROVE ExportsOneAtATime
    OBVIOUS
  <2> DEFINE E == {w \in Workers : Exports(w)}
  <2>1. CASE export_scheduled
    <3>1. PICK w \in Workers : Exports(w)
      BY <2>1 DEF RecordInv
    <3>2. E = {w}
      BY <3>1 DEF RecordInv
    <3>3. Cardinality(E) = 1
      BY <3>2, FS_Singleton
    <3> QED BY <2>1, <3>3 DEF ExportsOneAtATime, Exports
  <2>2. CASE ~export_scheduled
    <3>1. E = {}
      BY <2>2 DEF RecordInv
    <3>2. Cardinality(E) = 0
      BY <3>1, FS_EmptySet
    <3> QED BY <2>2, <3>2 DEF ExportsOneAtATime, Exports
  <2> QED BY <2>1, <2>2
<1> QED BY <1>1, RecordsHold, PTL

-----------------------------------------------------------------------------
(* pending_jobs counts the jobs in the queues, in the hands of workers, and *)
(* those a client found to be duplicates and has not discarded yet.         *)
Counted(j) == \/ \E q \in QueueIds : j \in Range(queues[q])
              \/ \E w \in Workers : hand[w] = j
              \/ \E c \in Clients : new[c] = j /\ cpc[c] = "discard"

CountedJobs == {j \in Jobs : Counted(j)}

CountInv == pending_jobs = Cardinality(CountedJobs)

LEMMA CountedFinite ==
  IsFiniteSet(CountedJobs) /\ Cardinality(CountedJobs) \in Nat
BY FS_Subset, FS_CardinalityType, ConstantsAssumption DEF CountedJobs

LEMMA CountQuiet ==
  ASSUME CountInv, UNCHANGED pending_jobs, \A j \in Jobs : Counted(j)' <=> Counted(j)
  PROVE  CountInv'
<1>1. CountedJobs' = CountedJobs
  BY DEF CountedJobs
<1> QED BY <1>1 DEF CountInv

LEMMA CountMore ==
  ASSUME CountInv, NEW i \in Jobs, ~Counted(i), pending_jobs' = pending_jobs + 1,
         \A j \in Jobs : Counted(j)' <=> Counted(j) \/ j = i
  PROVE  CountInv'
<1>1. CountedJobs' = CountedJobs \cup {i} /\ i \notin CountedJobs
  BY DEF CountedJobs
<1>2. Cardinality(CountedJobs \cup {i}) = Cardinality(CountedJobs) + 1
  BY <1>1, CountedFinite, FS_AddElement
<1> QED BY <1>1, <1>2 DEF CountInv

LEMMA CountFewer ==
  ASSUME CountInv, NEW i \in Jobs, Counted(i), pending_jobs' = pending_jobs - 1,
         \A j \in Jobs : Counted(j)' <=> Counted(j) /\ j # i
  PROVE  CountInv'
<1>1. CountedJobs' = CountedJobs \ {i} /\ i \in CountedJobs
  BY DEF CountedJobs
<1>2. Cardinality(CountedJobs \ {i}) = Cardinality(CountedJobs) - 1
  BY <1>1, CountedFinite, FS_RemoveElement
<1> QED BY <1>1, <1>2 DEF CountInv

LEMMA AddOnTopCount ==
  ASSUME Types, PlaceInv, CountInv, NEW c \in Clients, AddOnTop(c)
  PROVE  CountInv'
<1> DEFINE j     == new[c]
           stack == <<j>> \o queues[SYSTEM_FG]
           over  == Len(stack) > StackLimit
           Out   == IF over THEN {Last(stack)} ELSE {}
           fit   == IF over THEN Front(stack) ELSE stack
<1>0. SYSTEM_FG \in QueueIds
  BY DEF QueueIds, USER_FG, SYSTEM_FG, SYSTEM_BG
<1>1. /\ cpc[c] \in Carrying /\ cpc[c] # "discard"
      /\ queues' = [queues EXCEPT ![SYSTEM_FG] = fit]
      /\ pending_jobs' = IF over THEN pending_jobs ELSE pending_jobs + 1
      /\ LetsGo(c, "notify")
      /\ UNCHANGED hand
  BY DEF AddOnTop, MayAdd, Carrying, UnchangedWorkers
<1>2. /\ j \in Jobs /\ None \notin Jobs
      /\ \A p \in QueueIds : j \notin Range(queues[p]) /\ Range(queues[p]) \subseteq Jobs
      /\ \A t \in Threads : hand[t] # j
      /\ \A d \in Clients : d # c => new[d] # j
  BY <1>1, GivenFacts
<1>3. /\ Range(fit) = (Range(queues[SYSTEM_FG]) \cup {j}) \ Out
      /\ Out \subseteq Range(queues[SYSTEM_FG])
  BY <1>0, <1>2, StackFacts
<1>5. /\ \A p \in QueueIds : queues'[p] = IF p = SYSTEM_FG THEN fit ELSE queues[p]
      /\ \A d \in Clients : new'[d] = IF d = c THEN None ELSE new[d]
      /\ \A d \in Clients : cpc'[d] = IF d = c THEN "notify" ELSE cpc[d]
      /\ UNCHANGED hand
  BY <1>0, <1>1 DEF Types, LetsGo, Moves
<1>6. \A i \in Out : QueueOf[i] = SYSTEM_FG /\ Unheld(i)
  BY <1>0, <1>3 DEF PlaceInv, QueueInv
<1> HIDE DEF fit
<1>7. ~Counted(j)
  BY <1>1, <1>2 DEF Counted, Threads
<1>8. \A i \in Jobs : Counted(i)' <=> (Counted(i) \/ i = j) /\ i \notin Out
  <2> SUFFICES ASSUME NEW i \in Jobs
               PROVE  Counted(i)' <=> (Counted(i) \/ i = j) /\ i \notin Out
    OBVIOUS
  <2>1. (\E q \in QueueIds : i \in Range(queues'[q]))
          <=> ((\E q \in QueueIds : i \in Range(queues[q])) \/ i = j) /\ i \notin Out
    <3>1. /\ i \in Range(queues'[SYSTEM_FG])
                <=> (i \in Range(queues[SYSTEM_FG]) \/ i = j) /\ i \notin Out
          /\ \A q \in QueueIds \ {SYSTEM_FG} : Range(queues'[q]) = Range(queues[q])
      BY <1>0, <1>3, <1>5
    <3>2. i \in Out => \A q \in QueueIds \ {SYSTEM_FG} : i \notin Range(queues[q])
      BY <1>6 DEF PlaceInv, QueueInv
    <3> QED BY <1>0, <3>1, <3>2
  <2>2. (\E d \in Clients : new'[d] = i /\ cpc'[d] = "discard")
          <=> \E d \in Clients : new[d] = i /\ cpc[d] = "discard"
    BY <1>1, <1>2, <1>5
  <2>3. i \in Out => Unheld(i)
    BY <1>6
  <2> QED BY <1>5, <2>1, <2>2, <2>3 DEF Counted, Unheld, Threads
<1>9. CASE over
  <2> DEFINE k == Last(stack)
  <2>1. Out = {k}
    BY <1>9
  <2>2. k \in Range(queues[SYSTEM_FG]) /\ k \in Jobs
    BY <1>0, <1>2, <1>3, <2>1
  <2>3. Counted(k) /\ k # j
    BY <1>0, <1>7, <2>2 DEF Counted
  <2> HIDE DEF k, j, Out
  <2>4. CountedJobs' = (CountedJobs \cup {j}) \ {k}
    BY <1>8, <1>2, <2>1 DEF CountedJobs
  <2>5. /\ IsFiniteSet(CountedJobs \cup {j})
        /\ Cardinality(CountedJobs \cup {j}) = Cardinality(CountedJobs) + 1
    BY <1>2, <1>7, CountedFinite, FS_AddElement DEF CountedJobs
  <2>6. k \in CountedJobs \cup {j}
    BY <2>2, <2>3 DEF CountedJobs
  <2>7. Cardinality((CountedJobs \cup {j}) \ {k}) = Cardinality(CountedJobs)
    <3>1. \A X : IsFiniteSet(X) /\ k \in X => Cardinality(X \ {k}) = Cardinality(X) - 1
      BY FS_RemoveElement
    <3> HIDE DEF CountedJobs
    <3> QED BY <2>5, <2>6, <3>1, CountedFinite
  <2> QED BY <1>1, <1>9, <2>4, <2>7 DEF CountInv
<1>10. CASE ~over
  <2>1. \A i \in Jobs : Counted(i)' <=> Counted(i) \/ i = j
    BY <1>8, <1>10
  <2>2. pending_jobs' = pending_jobs + 1
    BY <1>1, <1>10
  <2> QED BY <1>2, <1>7, <2>1, <2>2, CountMore
<1> QED BY <1>9, <1>10

LEMMA SubmitCount ==
  ASSUME Types, PlaceInv, CountInv, NEW c \in Clients,
         Submit(c) \/ \E j \in Jobs : Create(c, j)
  PROVE  CountInv'
<1>n. None \notin Jobs
  BY ConstantsAssumption
<1>1. ASSUME NEW j \in Jobs, Create(c, j)
      PROVE  CountInv'
  <2>1. /\ UNCHANGED <<queues, hand, pending_jobs>>
        /\ \A d \in Clients : new'[d] = IF d = c THEN j ELSE new[d]
        /\ \A d \in Clients : cpc'[d] = IF d = c THEN "adding" ELSE cpc[d]
        /\ cpc[c] = "idle"
    BY <1>1 DEF Create, Moves, UnchangedWorkers, shared, Types
  <2> QED BY <2>1, CountQuiet DEF Counted
<1>2. CASE AddSynchronous(c) \/ ReturnSynchronous(c) \/ TestRunning(c) \/ DropDuplicate(c)
  <2>1. /\ UNCHANGED <<queues, hand, pending_jobs>>
        /\ \A d \in Clients : d # c => new'[d] = new[d] /\ cpc'[d] = cpc[d]
        /\ cpc[c] # "discard" /\ cpc'[c] # "discard"
    BY <1>2 DEF AddSynchronous, ReturnSynchronous, TestRunning, DropDuplicate, LetsGo,
                Moves, UnchangedWorkers, shared, Types
  <2> QED BY <2>1, CountQuiet DEF Counted
<1>3. CASE AddReserved(c) \/ Notify(c)
  <2>1. /\ UNCHANGED <<queues, hand, pending_jobs>>
        /\ \A d \in Clients : d # c => new'[d] = new[d] /\ cpc'[d] = cpc[d]
        /\ cpc[c] # "discard" /\ cpc'[c] # "discard"
    BY <1>3 DEF AddReserved, Notify, LetsGo, Moves, UnchangedWorkers, shared, Types
  <2> QED BY <2>1, CountQuiet DEF Counted
<1>4. ASSUME NEW q \in QueueIds, AddFifo(c, q)
      PROVE  CountInv'
  <2> DEFINE j == new[c]
  <2>1. /\ cpc[c] = "queueing" /\ pending_jobs' = pending_jobs + 1 /\ UNCHANGED hand
        /\ \A p \in QueueIds : queues'[p] = IF p = q THEN Append(queues[q], j) ELSE queues[p]
        /\ \A d \in Clients : new'[d] = IF d = c THEN None ELSE new[d]
        /\ \A d \in Clients : cpc'[d] = IF d = c THEN "notify" ELSE cpc[d]
    BY <1>4 DEF AddFifo, MayAdd, LetsGo, Moves, UnchangedWorkers, Types
  <2>2. /\ j \in Jobs
        /\ \A p \in QueueIds : j \notin Range(queues[p]) /\ Range(queues[p]) \subseteq Jobs
        /\ \A t \in Threads : hand[t] # j
        /\ \A d \in Clients : d # c => new[d] # j
    BY <2>1, GivenFacts DEF Carrying
  <2> HIDE DEF j
  <2>3. Range(Append(queues[q], j)) = Range(queues[q]) \cup {j}
    BY <2>2, AppendFacts DEF Types
  <2>4. \A i \in Jobs : (\E p \in QueueIds : i \in Range(queues'[p]))
                          <=> (\E p \in QueueIds : i \in Range(queues[p])) \/ i = j
    BY <2>1, <2>3
  <2>5. \A i \in Jobs : Counted(i)' <=> Counted(i) \/ i = j
    BY <2>1, <2>4 DEF Counted
  <2>6. ~Counted(j)
    BY <2>1, <2>2 DEF Counted, Threads
  <2> QED BY <2>1, <2>2, <2>5, <2>6, CountMore
<1>5. CASE AddScheduledAlready(c)
  <2> DEFINE j == new[c]
  <2>1. /\ cpc[c] = "queueing" /\ pending_jobs' = pending_jobs + 1 /\ UNCHANGED <<queues, hand, new>>
        /\ \A d \in Clients : cpc'[d] = IF d = c THEN "discard" ELSE cpc[d]
    BY <1>5 DEF AddScheduledAlready, MayAdd, Moves, UnchangedWorkers, Types
  <2>2. /\ j \in Jobs
        /\ \A p \in QueueIds : j \notin Range(queues[p])
        /\ \A t \in Threads : hand[t] # j
        /\ \A d \in Clients : d # c => new[d] # j
    BY <2>1, GivenFacts DEF Carrying
  <2>3. \A i \in Jobs : Counted(i)' <=> Counted(i) \/ i = j
    BY <2>1 DEF Counted
  <2>4. ~Counted(j)
    BY <2>1, <2>2 DEF Counted, Threads
  <2> QED BY <2>1, <2>2, <2>3, <2>4, CountMore
<1>6. CASE DiscardDuplicate(c)
  <2> DEFINE j == new[c]
  <2>1. /\ cpc[c] = "discard" /\ pending_jobs' = pending_jobs - 1 /\ UNCHANGED <<queues, hand>>
        /\ \A d \in Clients : new'[d] = IF d = c THEN None ELSE new[d]
        /\ \A d \in Clients : cpc'[d] = IF d = c THEN "idle" ELSE cpc[d]
    BY <1>6 DEF DiscardDuplicate, LetsGo, Moves, UnchangedWorkers, Types
  <2>2. /\ j \in Jobs
        /\ \A p \in QueueIds : j \notin Range(queues[p])
        /\ \A t \in Threads : hand[t] # j
        /\ \A d \in Clients : d # c => new[d] # j
    BY <2>1, GivenFacts DEF Carrying
  <2>3. \A i \in Jobs : Counted(i)' <=> Counted(i) /\ i # j
    BY <2>1, <2>2 DEF Counted, Threads
  <2>4. Counted(j)
    BY <2>1 DEF Counted
  <2> QED BY <2>1, <2>2, <2>3, <2>4, CountFewer
<1>7. CASE AddQueuedAlready(c)
  <2>1. PICK i \in SameInQueue(new[c]) :
          queues' = [queues EXCEPT ![SYSTEM_FG] = <<i>> \o RemoveFirst(@, i)]
    BY <1>7 DEF AddQueuedAlready
  <2>2. SYSTEM_FG \in QueueIds
    BY DEF QueueIds, USER_FG, SYSTEM_FG, SYSTEM_BG
  <2>3. /\ i \in Range(queues[SYSTEM_FG]) /\ i \in Jobs /\ queues[SYSTEM_FG] \in Seq(Jobs)
        /\ Distinct(queues[SYSTEM_FG])
    BY <2>2, RangeFacts DEF SameInQueue, PlaceInv, QueueInv, Types
  <2> DEFINE rest == RemoveFirst(queues[SYSTEM_FG], i)
  <2>4. rest \in Seq(Jobs) /\ Range(rest) = Range(queues[SYSTEM_FG]) \ {i}
    BY <2>3, RemoveFirstFacts
  <2>5. \A p \in QueueIds : queues'[p] = IF p = SYSTEM_FG THEN <<i>> \o rest ELSE queues[p]
    BY <2>1, <2>2 DEF Types
  <2> HIDE DEF rest
  <2>6. Range(<<i>> \o rest) = Range(rest) \cup {i}
    BY <2>3, <2>4, ConsFacts
  <2>7. \A p \in QueueIds : Range(queues'[p]) = Range(queues[p])
    BY <2>3, <2>4, <2>5, <2>6
  <2>8. /\ UNCHANGED <<hand, new, pending_jobs>> /\ cpc[c] = "queueing"
        /\ \A d \in Clients : cpc'[d] = IF d = c THEN "notify_drop" ELSE cpc[d]
    BY <1>7 DEF AddQueuedAlready, MayAdd, Moves, UnchangedWorkers, Types
  <2> QED BY <2>7, <2>8, CountQuiet DEF Counted
<1> QED BY <1>1, <1>2, <1>3, <1>4, <1>5, <1>6, <1>7, AddOnTopCount DEF Submit

LEMMA WorkerCount ==
  ASSUME Types, PlaceInv, CountInv, NEW t \in Threads, Worker(t)
  PROVE  CountInv'
<1>n. None \notin Jobs
  BY ConstantsAssumption
<1>1. CASE CheckRunning(t) \/ ScheduleNothing(t) \/ TestQueued(t) \/ Sleep(t)
  <2>1. UNCHANGED <<queues, hand, pending_jobs, cpc, new>>
    BY <1>1 DEF CheckRunning, ScheduleNothing, TestQueued, Sleep, shared
  <2> QED BY <2>1, CountQuiet DEF Counted
<1>2. CASE Execute(t) \/ Return(t) \/ Clear(t)
  <2>1. UNCHANGED <<queues, hand, pending_jobs, cpc, new>>
    BY <1>2 DEF Execute, Return, Clear, shared
  <2> QED BY <2>1, CountQuiet DEF Counted
<1>3. CASE TakeReserved(t)
  <2>1. /\ UNCHANGED <<queues, pending_jobs, cpc, new>>
        /\ \A w \in Workers : hand'[w] = hand[w]
    BY <1>3, ConstantsAssumption DEF TakeReserved, shared, Types, Threads
  <2> QED BY <2>1, CountQuiet DEF Counted
<1>4. CASE Schedule(t)
  <2>1. PICK q \in QueueIds :
          /\ Wins(q)
          /\ queues' = [queues EXCEPT ![q] = Tail(@)]
          /\ hand' = [hand EXCEPT ![t] = Head(queues[q])]
    BY <1>4 DEF Schedule
  <2> DEFINE j == Head(queues[q])
  <2>2. queues[q] \in Seq(Jobs) /\ queues[q] # <<>>
    BY <2>1 DEF Wins, Eligible, Types
  <2>3. Range(queues[q]) = Range(Tail(queues[q])) \cup {j}
    BY <2>2, TailFacts
  <2>4. /\ t \in Workers /\ hand[t] = None
        /\ \A p \in QueueIds : queues'[p] = IF p = q THEN Tail(queues[q]) ELSE queues[p]
        /\ \A w \in Workers : hand'[w] = IF w = t THEN j ELSE hand[w]
        /\ UNCHANGED <<pending_jobs, cpc, new>>
    BY <1>4, <2>1 DEF Schedule, Types, Threads, PlaceInv, HandInv, Handling
  <2> HIDE DEF j
  <2>5. \A i \in Jobs : (\E p \in QueueIds : i \in Range(queues[p]))
                          <=> (\E p \in QueueIds : i \in Range(queues'[p])) \/ i = j
    BY <2>3, <2>4
  <2>6. \A i \in Jobs : (\E w \in Workers : hand'[w] = i)
                          <=> (\E w \in Workers : hand[w] = i) \/ i = j
    BY <2>4, <1>n
  <2> QED BY <2>4, <2>5, <2>6, CountQuiet DEF Counted
<1>5. CASE Free(t)
  <2> DEFINE j == hand[t]
  <2>1. /\ UNCHANGED <<queues, cpc, new>> /\ wpc[t] = "free"
        /\ \A w \in Threads : hand'[w] = IF w = t THEN None ELSE hand[w]
        /\ pending_jobs' = IF t \in Workers THEN pending_jobs - 1 ELSE pending_jobs
    BY <1>5 DEF Free, Types
  <2>2. /\ j \in Jobs /\ j # None
        /\ \A u \in Threads : hand[u] = j => u = t
        /\ \A c \in Clients : new[c] # j
        /\ \A q \in QueueIds : j \notin Range(queues[q])
    BY <2>1 DEF Types, PlaceInv, HandInv, Handling, QueueInv, Unheld
  <2>3. CASE t \in Workers
    <3>1. Counted(j)
      BY <2>3 DEF Counted
    <3>2. \A i \in Jobs : Counted(i)' <=> Counted(i) /\ i # j
      BY <1>n, <2>1, <2>2, <2>3 DEF Counted, Threads
    <3>3. pending_jobs' = pending_jobs - 1
      BY <2>1, <2>3
    <3> QED BY <2>2, <3>1, <3>2, <3>3, CountFewer
  <2>4. CASE t \notin Workers
    <3>1. UNCHANGED pending_jobs /\ \A w \in Workers : hand'[w] = hand[w]
      BY <2>1, <2>4 DEF Threads
    <3> QED BY <2>1, <3>1, CountQuiet DEF Counted
  <2> QED BY <2>3, <2>4
<1> QED BY <1>1, <1>2, <1>3, <1>4, <1>5 DEF Worker

LEMMA CountStep ==
  ASSUME Types, PlaceInv, CountInv, [Next]_vars
  PROVE  CountInv'
<1>1. CASE Gui \/ Kicker \/ Quit \/ Shutdown \/ Joined
  <2>1. UNCHANGED <<queues, hand, pending_jobs, cpc, new>>
    BY <1>1 DEF Gui, Cancel, HideButton, Kicker, KickerCheck, Kick, Quit, Shutdown, Joined, shared, actors
  <2> QED BY <2>1, CountQuiet DEF Counted
<1>2. CASE UNCHANGED vars
  <2>1. UNCHANGED <<queues, hand, pending_jobs, cpc, new>>
    BY <1>2 DEF vars, shared, actors
  <2> QED BY <2>1, CountQuiet DEF Counted
<1> QED BY <1>1, <1>2, SubmitCount, WorkerCount DEF Next

(* As many workers, or clients, as jobs they hold. *)
LEMMA HeldCardinality ==
  ASSUME NEW S, NEW f, \A x \in S : f[x] \in Jobs,
         \A x, y \in S : f[x] = f[y] => x = y
  PROVE  LET H == {j \in Jobs : \E x \in S : f[x] = j}
         IN  IsFiniteSet(H) /\ Cardinality(H) = Cardinality(S)
<1> DEFINE H == {j \in Jobs : \E x \in S : f[x] = j}
           g == [x \in S |-> f[x]]
<1>1. IsFiniteSet(H)
  BY FS_Subset, ConstantsAssumption
<1>2. g \in Bijection(S, H)
  BY DEF Bijection, Injection, Surjection, IsInjective
<1>3. ExistsBijection(S, H)
  BY <1>2 DEF ExistsBijection
<1>4. ExistsBijection(H, S)
  BY <1>3, Fun_ExistsBijSymmetric
<1>5. Cardinality(S) = Cardinality(H)
  BY <1>1, <1>4, FS_Bijection
<1> QED BY <1>1, <1>5

LEMMA CountGivesPending ==
  ASSUME Types, PlaceInv, CountInv
  PROVE  PendingExact /\ pending_jobs \in 0 .. Cardinality(Jobs)
<1> DEFINE Q == {j \in Jobs : \E q \in QueueIds : j \in Range(queues[q])}
           W == {w \in Workers : hand[w] # None}
           C == {c \in Clients : cpc[c] = "discard"}
           H == {j \in Jobs : \E w \in W : hand[w] = j}
           D == {j \in Jobs : \E c \in C : new[c] = j}
<1>n. None \notin Jobs /\ IsFiniteSet(Jobs)
  BY ConstantsAssumption
<1>1. IsFiniteSet(H) /\ Cardinality(H) = Cardinality(W)
  <2>1. \A w \in W : hand[w] \in Jobs
    BY DEF Types, Threads
  <2>2. \A v, w \in W : hand[v] = hand[w] => v = w
    BY DEF PlaceInv, HandInv, Threads
  <2> HIDE DEF W
  <2> QED BY <2>1, <2>2, HeldCardinality
<1>2. IsFiniteSet(D) /\ Cardinality(D) = Cardinality(C)
  <2>1. \A c \in C : new[c] \in Jobs /\ new[c] # None
    BY DEF Types, PlaceInv, ClientInv, Carrying
  <2>2. \A c, d \in C : new[c] = new[d] => c = d
    BY <2>1 DEF PlaceInv, ClientInv
  <2> HIDE DEF C
  <2> QED BY <2>1, <2>2, HeldCardinality
<1>3. IsFiniteSet(Q)
  BY <1>n, FS_Subset
<1>4. Q \cap H = {} /\ (Q \cup H) \cap D = {}
  BY <1>n DEF PlaceInv, QueueInv, HandInv, Unheld, Threads
<1>5. CountedJobs = (Q \cup H) \cup D
  BY <1>n DEF CountedJobs, Counted
<1>6. CountedJobs \subseteq Jobs
  BY DEF CountedJobs
<1> HIDE DEF Q, H, D, W, C
<1>7. /\ IsFiniteSet(Q \cup H)
      /\ Cardinality(Q \cup H) = Cardinality(Q) + Cardinality(H) - Cardinality({})
  BY <1>1, <1>3, <1>4, FS_Union
<1>8. Cardinality((Q \cup H) \cup D) = Cardinality(Q \cup H) + Cardinality(D) - Cardinality({})
  BY <1>2, <1>4, <1>7, FS_Union
<1>9. /\ Cardinality({}) = 0
      /\ Cardinality(Q) \in Nat /\ Cardinality(H) \in Nat /\ Cardinality(D) \in Nat
  BY <1>1, <1>2, <1>3, FS_EmptySet, FS_CardinalityType
<1>10. pending_jobs = Cardinality(Q) + Cardinality(W) + Cardinality(C)
  BY <1>1, <1>2, <1>5, <1>7, <1>8, <1>9 DEF CountInv
<1>11. /\ Cardinality(Jobs) \in Nat /\ Cardinality(CountedJobs) \in Nat
       /\ Cardinality(CountedJobs) <= Cardinality(Jobs)
  BY <1>n, <1>6, FS_Subset, FS_CardinalityType
<1>12. pending_jobs \in 0 .. Cardinality(Jobs)
  BY <1>11 DEF CountInv
<1> QED BY <1>10, <1>12 DEF PendingExact, Q, W, C

-----------------------------------------------------------------------------
(* The thumbnail jobs that are queued or with a worker differ in content.   *)
Thumbnails == Range(queues[SYSTEM_FG])
              \cup {i \in Range(job) \ {None} : QueueOf[i] = SYSTEM_FG}

LEMMA ThumbnailsFacts ==
  \A i : i \in Thumbnails <=>
    \/ i \in Range(queues[SYSTEM_FG])
    \/ i # None /\ QueueOf[i] = SYSTEM_FG /\ \E w \in DOMAIN job : job[w] = i
BY DEF Thumbnails, Range

LEMMA DuplicatesQuiet ==
  ASSUME NoDuplicates, Thumbnails' \subseteq Thumbnails
  PROVE  NoDuplicates'
BY DEF NoDuplicates, Thumbnails

LEMMA SubmitDuplicates ==
  ASSUME Types, PlaceInv, NoDuplicates, NEW c \in Clients,
         Submit(c) \/ \E j \in Jobs : Create(c, j)
  PROVE  NoDuplicates'
<1>0. SYSTEM_FG \in QueueIds
  BY DEF QueueIds, USER_FG, SYSTEM_FG, SYSTEM_BG
<1>1. CASE \/ AddSynchronous(c) \/ ReturnSynchronous(c) \/ TestRunning(c)
           \/ AddScheduledAlready(c) \/ Notify(c)
  <2>1. UNCHANGED <<queues, job>>
    BY <1>1 DEF AddSynchronous, ReturnSynchronous, TestRunning, AddScheduledAlready, Notify,
                shared
  <2> QED BY <2>1, DuplicatesQuiet DEF Thumbnails
<1>2. CASE DiscardDuplicate(c) \/ AddReserved(c) \/ DropDuplicate(c) \/ \E j \in Jobs : Create(c, j)
  <2>1. UNCHANGED <<queues, job>>
    BY <1>2 DEF DiscardDuplicate, AddReserved, DropDuplicate, Create, shared
  <2> QED BY <2>1, DuplicatesQuiet DEF Thumbnails
<1>3. CASE \E q \in QueueIds : AddFifo(c, q)
  <2>1. queues'[SYSTEM_FG] = queues[SYSTEM_FG] /\ UNCHANGED job
    BY <1>0, <1>3 DEF AddFifo, Types
  <2> QED BY <2>1, DuplicatesQuiet DEF Thumbnails
<1>4. CASE AddQueuedAlready(c)
  <2>1. PICK i \in SameInQueue(new[c]) :
          queues' = [queues EXCEPT ![SYSTEM_FG] = <<i>> \o RemoveFirst(@, i)]
    BY <1>4 DEF AddQueuedAlready
  <2>3. /\ i \in Range(queues[SYSTEM_FG]) /\ i \in Jobs /\ queues[SYSTEM_FG] \in Seq(Jobs)
        /\ Distinct(queues[SYSTEM_FG])
    BY <1>0, RangeFacts DEF SameInQueue, PlaceInv, QueueInv, Types
  <2> DEFINE rest == RemoveFirst(queues[SYSTEM_FG], i)
  <2>4. rest \in Seq(Jobs) /\ Range(rest) = Range(queues[SYSTEM_FG]) \ {i}
    BY <2>3, RemoveFirstFacts
  <2>5. queues'[SYSTEM_FG] = <<i>> \o rest /\ UNCHANGED job
    BY <1>0, <1>4, <2>1 DEF Types, AddQueuedAlready
  <2> HIDE DEF rest
  <2>6. Range(<<i>> \o rest) = Range(rest) \cup {i}
    BY <2>3, <2>4, ConsFacts
  <2>7. Range(queues'[SYSTEM_FG]) = Range(queues[SYSTEM_FG])
    BY <2>3, <2>4, <2>5, <2>6
  <2> QED BY <2>5, <2>7, DuplicatesQuiet DEF Thumbnails
<1>5. CASE AddOnTop(c)
  <2> DEFINE j     == new[c]
             stack == <<j>> \o queues[SYSTEM_FG]
             over  == Len(stack) > StackLimit
             Out   == IF over THEN {Last(stack)} ELSE {}
             fit   == IF over THEN Front(stack) ELSE stack
  <2>1. /\ cpc[c] \in Carrying /\ UNCHANGED job
        /\ queues' = [queues EXCEPT ![SYSTEM_FG] = fit]
        /\ ~Scheduled(j) /\ SameInQueue(j) = {} /\ QueueOf[j] = SYSTEM_FG
    BY <1>5 DEF AddOnTop, MayAdd, Carrying
  <2>2. j \in Jobs /\ j \notin Range(queues[SYSTEM_FG])
    BY <1>0, <2>1, GivenFacts
  <2>3. Range(fit) \subseteq Range(queues[SYSTEM_FG]) \cup {j}
    BY <1>0, <2>2, StackFacts
  <2>4. queues'[SYSTEM_FG] = fit
    BY <1>0, <2>1 DEF Types
  <2>5. Thumbnails' \subseteq Thumbnails \cup {j}
    BY <2>1, <2>3, <2>4 DEF Thumbnails
  <2>6. \A i \in Thumbnails : Content[i] # Content[j]
    <3> SUFFICES ASSUME NEW i \in Thumbnails, Content[i] = Content[j] PROVE FALSE
      OBVIOUS
    <3>1. i \notin Range(queues[SYSTEM_FG])
      BY <2>1 DEF SameInQueue
    <3>2. PICK w \in DOMAIN job : job[w] = i /\ i # None /\ QueueOf[i] = SYSTEM_FG
      BY <3>1, ThumbnailsFacts
    <3> QED BY <2>1, <3>2 DEF Scheduled, Types
  <2>7. \A h, i \in Thumbnails : Content[h] = Content[i] => h = i
    BY DEF NoDuplicates, Thumbnails
  <2> HIDE DEF j
  <2>8. \A h, i \in Thumbnails' : Content[h] = Content[i] => h = i
    BY <2>5, <2>6, <2>7
  <2> QED BY <2>8 DEF NoDuplicates, Thumbnails
<1> QED BY <1>1, <1>2, <1>3, <1>4, <1>5 DEF Submit

LEMMA DuplicatesStep ==
  ASSUME Types, PlaceInv, RecordInv, NoDuplicates, [Next]_vars
  PROVE  NoDuplicates'
<1>0. SYSTEM_FG \in QueueIds
  BY DEF QueueIds, USER_FG, SYSTEM_FG, SYSTEM_BG
<1>1. CASE Gui \/ Kicker \/ Quit \/ Shutdown \/ Joined
  <2>1. UNCHANGED <<queues, job>>
    BY <1>1 DEF Gui, Cancel, HideButton, Kicker, KickerCheck, Kick, Quit, Shutdown, Joined, shared
  <2> QED BY <2>1, DuplicatesQuiet DEF Thumbnails
<1>2. CASE UNCHANGED vars
  <2>1. UNCHANGED <<queues, job>>
    BY <1>2 DEF vars, shared
  <2> QED BY <2>1, DuplicatesQuiet DEF Thumbnails
<1>3. ASSUME NEW t \in Threads, Worker(t)
      PROVE  NoDuplicates'
  <2>1. CASE CheckRunning(t) \/ ScheduleNothing(t) \/ TestQueued(t) \/ Sleep(t)
    <3>1. UNCHANGED <<queues, job>>
      BY <2>1 DEF CheckRunning, ScheduleNothing, TestQueued, Sleep, shared
    <3> QED BY <3>1, DuplicatesQuiet DEF Thumbnails
  <2>2. CASE Execute(t) \/ Return(t) \/ TakeReserved(t) \/ Free(t)
    <3>1. UNCHANGED <<queues, job>>
      BY <2>2 DEF Execute, Return, TakeReserved, Free, shared
    <3> QED BY <3>1, DuplicatesQuiet DEF Thumbnails
  <2>3. CASE Clear(t)
    <3>1. /\ UNCHANGED queues
          /\ \A w \in Workers : job'[w] = IF w = t THEN None ELSE job[w]
          /\ DOMAIN job' = Workers /\ DOMAIN job = Workers
      BY <2>3 DEF Clear, Types
    <3>2. \A i \in Thumbnails' :
            \/ i \in Range(queues'[SYSTEM_FG])
            \/ i # None /\ QueueOf[i] = SYSTEM_FG /\ \E w \in DOMAIN job' : job'[w] = i
      BY DEF Thumbnails, Range
    <3>3. Thumbnails' \subseteq Thumbnails
      BY <3>1, <3>2, ThumbnailsFacts
    <3> QED BY <3>3, DuplicatesQuiet
  <2>4. CASE Schedule(t)
    <3>1. PICK q \in QueueIds :
            /\ Wins(q)
            /\ queues' = [queues EXCEPT ![q] = Tail(@)]
            /\ job' = [job EXCEPT ![t] = Head(queues[q])]
      BY <2>4 DEF Schedule
    <3> DEFINE j == Head(queues[q])
    <3>2. queues[q] \in Seq(Jobs) /\ queues[q] # <<>>
      BY <3>1 DEF Wins, Eligible, Types
    <3>3. Range(queues[q]) = Range(Tail(queues[q])) \cup {j}
      BY <3>2, TailFacts
    <3>4. QueueOf[j] = q
      BY <3>3 DEF PlaceInv, QueueInv
    <3>5. /\ \A p \in QueueIds : queues'[p] = IF p = q THEN Tail(queues[q]) ELSE queues[p]
          /\ \A w \in Workers : job'[w] = IF w = t THEN j ELSE job[w]
          /\ DOMAIN job' = Workers /\ DOMAIN job = Workers
      BY <3>1 DEF Types
    <3>6. \A i \in Thumbnails' :
            \/ i \in Range(queues'[SYSTEM_FG])
            \/ i # None /\ QueueOf[i] = SYSTEM_FG /\ \E w \in DOMAIN job' : job'[w] = i
      BY DEF Thumbnails, Range
    <3> HIDE DEF j
    <3>7. Thumbnails' \subseteq Thumbnails
      BY <1>0, <3>3, <3>4, <3>5, <3>6, ThumbnailsFacts
    <3> QED BY <3>7, DuplicatesQuiet
  <2> QED BY <1>3, <2>1, <2>2, <2>3, <2>4 DEF Worker
<1> QED BY <1>1, <1>2, <1>3, SubmitDuplicates DEF Next

THEOREM CountsHold == Spec => [](Types /\ PlaceInv /\ RecordInv /\ CountInv /\ NoDuplicates)
<1> DEFINE I == Types /\ PlaceInv /\ RecordInv /\ CountInv /\ NoDuplicates
<1>1. ASSUME Init PROVE CountInv /\ NoDuplicates
  <2>1. \A q \in QueueIds : Range(queues[q]) = {}
    BY <1>1 DEF Init, Range
  <2>2. SYSTEM_FG \in QueueIds /\ None \notin Jobs
    BY ConstantsAssumption DEF QueueIds, USER_FG, SYSTEM_FG, SYSTEM_BG
  <2>3. CountedJobs = {}
    BY <1>1, <2>1, <2>2 DEF Init, CountedJobs, Counted, Threads
  <2>4. CountInv
    BY <1>1, <2>3, FS_EmptySet DEF CountInv, Init
  <2>5. Thumbnails = {}
    BY <1>1, <2>1, <2>2, ThumbnailsFacts DEF Init
  <2>6. NoDuplicates
    BY <2>5 DEF NoDuplicates, Thumbnails
  <2> QED BY <2>4, <2>6
<1>2. Init => RecordInv
  BY DEF Init, RecordInv, Recorded, Exports, Threads
<1>3. Init => I
  BY <1>1, <1>2, InitPlace
<1>4. I /\ [Next]_vars => I'
  BY TypesPlaceStep, RecordStep, CountStep, DuplicatesStep
<1> QED BY <1>3, <1>4, PTL DEF Spec

(* pending_jobs, which the end of the program waits on, counts the jobs on *)
(* their way exactly, and no two equal thumbnail jobs are on their way.    *)
THEOREM QueuesAreWellFormed == Spec => []WellFormed
<1>1. Types /\ PlaceInv /\ RecordInv /\ CountInv /\ NoDuplicates => WellFormed
  BY CountGivesPending DEF WellFormed, TypeOK, Types
<1> QED BY <1>1, CountsHold, PTL

-----------------------------------------------------------------------------
(* The priorities.  A FIFO job's grows only at the head of its queue, and  *)
(* one above FG_PRIORITY has a known number of rivals: whatever is ahead   *)
(* of it runs or stays ahead, and what arrives later comes behind it.      *)
Fifo == QueueIds \ {SYSTEM_FG}

Ahead(q) == {j \in Jobs : /\ \E p \in QueueIds \ {q} : j \in Range(queues[p])
                          /\ priority[j] >= HeadPriority(q)}

StackInv == Len(queues[SYSTEM_FG]) <= StackLimit

BehindInv == \A q \in Fifo : \A i \in 2 .. Len(queues[q]) :
               priority[queues[q][i]] <= FG_PRIORITY

AheadInv == \A q \in Fifo \ {USER_EXPORT} :
              queues[q] # <<>> /\ HeadPriority(q) > FG_PRIORITY
                => HeadPriority(q) + Cardinality(Ahead(q)) <= PassedOver

PriorityInv == StackInv /\ BehindInv /\ AheadInv

LEMMA FifoFacts ==
  /\ SYSTEM_FG \in QueueIds /\ SYSTEM_FG \notin Fifo /\ USER_EXPORT \in QueueIds
  /\ Fifo \subseteq QueueIds
  /\ \A q \in QueueIds : q = SYSTEM_FG \/ q \in Fifo
BY DEF Fifo, QueueIds, USER_FG, SYSTEM_FG, USER_EXPORT, SYSTEM_BG

LEMMA AheadFinite ==
  ASSUME NEW q
  PROVE  IsFiniteSet(Ahead(q)) /\ Cardinality(Ahead(q)) \in Nat
BY FS_Subset, FS_CardinalityType, ConstantsAssumption DEF Ahead

LEMMA UsedFacts ==
  /\ IsFiniteSet(UsedQueues) /\ IsFiniteSet(UsedQueues \ {SYSTEM_FG})
  /\ UsedQueues \subseteq QueueIds
  /\ Cardinality(UsedQueues \ {SYSTEM_FG}) \in Nat
  /\ PassedOver \in Int
<1>1. UsedQueues \subseteq QueueIds
  BY QueueOfIn DEF UsedQueues
<1>2. IsFiniteSet(QueueIds)
  <2>1. \A a, b \in Int : IsFiniteSet(a .. b)
    BY FS_Interval
  <2>2. USER_FG \in Int /\ SYSTEM_BG \in Int
    BY DEF USER_FG, SYSTEM_BG
  <2>3. IsFiniteSet(USER_FG .. SYSTEM_BG)
    BY <2>1, <2>2
  <2> QED BY <2>3 DEF QueueIds
<1>3. IsFiniteSet(UsedQueues) /\ IsFiniteSet(UsedQueues \ {SYSTEM_FG})
  BY <1>1, <1>2, FS_Subset
<1>4. Cardinality(UsedQueues \ {SYSTEM_FG}) \in Nat
  BY <1>3, FS_CardinalityType
<1>5. StackLimit \in Nat
  BY ConstantsAssumption
<1> QED BY <1>1, <1>3, <1>4, <1>5 DEF PassedOver, FG_PRIORITY

LEMMA UsedByJob ==
  ASSUME Types, PlaceInv, NEW q \in QueueIds, queues[q] # <<>>
  PROVE  q \in UsedQueues
<1>1. Head(queues[q]) \in Range(queues[q]) /\ queues[q] \in Seq(Jobs)
  BY TailFacts DEF Types
<1>2. Head(queues[q]) \in Jobs
  BY <1>1, RangeFacts
<1> QED BY <1>1, <1>2 DEF PlaceInv, QueueInv, UsedQueues

LEMMA PriorityGivesServed ==
  ASSUME Types, PlaceInv, PriorityInv
  PROVE  HeadsAreServed
<1> SUFFICES ASSUME NEW q \in QueueIds \ {SYSTEM_FG, USER_EXPORT}, queues[q] # <<>>
             PROVE  HeadPriority(q) <= PassedOver
  BY DEF HeadsAreServed
<1>1. q \in Fifo \ {USER_EXPORT} /\ q \in QueueIds
  BY DEF Fifo
<1>2. Head(queues[q]) \in Jobs
  BY <1>1 DEF Types
<1>3. HeadPriority(q) \in Nat
  BY <1>2 DEF Types, HeadPriority
<1>4. CASE HeadPriority(q) > FG_PRIORITY
  BY <1>1, <1>3, <1>4, AheadFinite, UsedFacts DEF PriorityInv, AheadInv
<1>5. CASE HeadPriority(q) <= FG_PRIORITY
  <2> DEFINE U == UsedQueues \ {SYSTEM_FG}
  <2>1. q \in U
    BY <1>1, UsedByJob
  <2>2. Cardinality(U) # 0 /\ Cardinality(U) \in Nat
    BY <2>1, UsedFacts, FS_EmptySet
  <2>3. StackLimit \in Nat
    BY ConstantsAssumption
  <2> QED BY <1>3, <1>5, <2>2, <2>3 DEF PassedOver, FG_PRIORITY
<1>6. FG_PRIORITY \in Nat
  BY DEF FG_PRIORITY
<1> QED BY <1>3, <1>4, <1>5, <1>6

(* Steps that leave priorities above FG_PRIORITY, and their places, alone. *)
LEMMA PriorityQuiet ==
  ASSUME Types, Types', PriorityInv, StackInv',
         \A q \in Fifo : \A i \in 1 .. Len(queues'[q]) :
           priority'[queues'[q][i]] > FG_PRIORITY
             => i \in 1 .. Len(queues[q]) /\ queues'[q][i] = queues[q][i],
         \A p \in QueueIds : \A j \in Range(queues'[p]) :
           priority'[j] > FG_PRIORITY
             => j \in Range(queues[p]) /\ priority'[j] = priority[j]
  PROVE  PriorityInv'
<1>f. FG_PRIORITY \in Nat
  BY DEF FG_PRIORITY
<1>t. \A q \in QueueIds : /\ queues[q] \in Seq(Jobs) /\ queues'[q] \in Seq(Jobs)
                          /\ \A i \in 1 .. Len(queues'[q]) :
                               /\ queues'[q][i] \in Range(queues'[q])
                               /\ queues'[q][i] \in Jobs
  BY RangeFacts DEF Types
<1>p. \A j \in Jobs : priority[j] \in Nat /\ priority'[j] \in Nat
  BY DEF Types
<1>1. BehindInv'
  <2> SUFFICES ASSUME NEW q \in Fifo, NEW i \in 2 .. Len(queues'[q]),
                      priority'[queues'[q][i]] > FG_PRIORITY
               PROVE  FALSE
    BY <1>f, <1>p, <1>t, FifoFacts DEF BehindInv
  <2>1. q \in QueueIds /\ i \in 1 .. Len(queues'[q])
    BY FifoFacts
  <2>2. i \in 2 .. Len(queues[q]) /\ queues'[q][i] = queues[q][i]
    BY <2>1
  <2>3. priority'[queues'[q][i]] = priority[queues[q][i]]
    BY <1>t, <2>1, <2>2
  <2>4. priority[queues[q][i]] <= FG_PRIORITY
    BY <2>2 DEF PriorityInv, BehindInv
  <2>5. queues'[q][i] \in Jobs
    BY <1>t, <2>1
  <2> QED BY <1>f, <1>p, <2>3, <2>4, <2>5
<1>2. AheadInv'
  <2> SUFFICES ASSUME NEW q \in Fifo \ {USER_EXPORT}, queues'[q] # <<>>,
                      HeadPriority(q)' > FG_PRIORITY
               PROVE  HeadPriority(q)' + Cardinality(Ahead(q))' <= PassedOver
    BY DEF AheadInv
  <2>0. q \in Fifo /\ q \in QueueIds
    BY FifoFacts
  <2>1. /\ queues'[q] \in Seq(Jobs) /\ 1 \in 1 .. Len(queues'[q])
        /\ Head(queues'[q]) = queues'[q][1]
    BY <1>t, <2>0
  <2>2. /\ 1 \in 1 .. Len(queues[q]) /\ queues'[q][1] = queues[q][1]
        /\ priority'[queues'[q][1]] = priority[queues[q][1]]
    BY <1>t, <2>0, <2>1 DEF HeadPriority
  <2>3. HeadPriority(q)' = HeadPriority(q) /\ queues[q] # <<>>
    BY <1>t, <2>0, <2>1, <2>2 DEF HeadPriority
  <2>4. Ahead(q)' \subseteq Ahead(q)
    <3> SUFFICES ASSUME NEW j \in Jobs, NEW p \in QueueIds \ {q}, j \in Range(queues'[p]),
                        priority'[j] >= HeadPriority(q)'
                 PROVE  j \in Ahead(q)
      BY DEF Ahead
    <3>1. queues'[q][1] \in Jobs
      BY <1>t, <2>0, <2>1
    <3>2. HeadPriority(q)' \in Nat
      BY <1>p, <2>1, <3>1 DEF HeadPriority
    <3>3. priority'[j] > FG_PRIORITY
      BY <1>f, <1>p, <3>2
    <3>4. j \in Range(queues[p]) /\ priority'[j] = priority[j]
      BY <3>3
    <3> QED BY <2>3, <3>4 DEF Ahead
  <2>5. Cardinality(Ahead(q))' <= Cardinality(Ahead(q)) /\ Cardinality(Ahead(q))' \in Nat
    BY <2>4, AheadFinite, FS_Subset, FS_CardinalityType
  <2>6. HeadPriority(q) \in Nat
    <3>1. queues[q][1] \in Jobs
      BY <1>t, <2>0, <2>1, <2>2
    <3> QED BY <1>p, <1>t, <2>0, <2>2, <3>1 DEF HeadPriority
  <2>7. HeadPriority(q) + Cardinality(Ahead(q)) <= PassedOver
    BY <2>3 DEF PriorityInv, AheadInv
  <2> QED BY <2>3, <2>5, <2>6, <2>7, AheadFinite, UsedFacts
<1> QED BY <1>1, <1>2 DEF PriorityInv

(* No queue changes, and of the jobs queued at most one loses its priority. *)
LEMMA PrioritySame ==
  ASSUME Types, Types', PriorityInv, UNCHANGED queues,
         \A q \in QueueIds : \A j \in Range(queues[q]) :
           priority'[j] = priority[j] \/ priority'[j] <= FG_PRIORITY
  PROVE  PriorityInv'
<1>1. StackInv'
  BY DEF PriorityInv, StackInv
<1>2. \A q \in QueueIds : \A j \in Range(queues[q]) : j \in Jobs
  BY RangeFacts DEF Types
<1>3. \A j \in Jobs : priority'[j] <= FG_PRIORITY => ~(priority'[j] > FG_PRIORITY)
  BY DEF Types, FG_PRIORITY
<1> QED BY <1>1, <1>2, <1>3, PriorityQuiet

LEMMA SubmitPriority ==
  ASSUME Types, Types', PlaceInv, PriorityInv, NEW c \in Clients,
         Submit(c) \/ \E j \in Jobs : Create(c, j)
  PROVE  PriorityInv'
<1>f. FG_PRIORITY \in Nat /\ 0 <= FG_PRIORITY
  BY DEF FG_PRIORITY
<1>j. \A q \in QueueIds : /\ queues[q] \in Seq(Jobs)
                          /\ \A j \in Range(queues[q]) : j \in Jobs
                          /\ \A i \in 1 .. Len(queues[q]) : queues[q][i] \in Range(queues[q])
  BY RangeFacts DEF Types
<1>1. CASE \/ AddSynchronous(c) \/ TestRunning(c) \/ AddReserved(c) \/ Notify(c)
           \/ \E j \in Jobs : Create(c, j)
  <2>1. UNCHANGED <<queues, priority>>
    BY <1>1 DEF AddSynchronous, TestRunning, AddReserved, Notify, Create, shared, objects
  <2> QED BY <2>1, PrioritySame
<1>2. CASE ReturnSynchronous(c) \/ DropDuplicate(c) \/ DiscardDuplicate(c)
  <2>1. UNCHANGED queues /\ priority' = [priority EXCEPT ![new[c]] = 0]
    BY <1>2 DEF ReturnSynchronous, DropDuplicate, DiscardDuplicate, Dispose, shared
  <2>2. \A j \in Jobs : priority'[j] = priority[j] \/ priority'[j] <= FG_PRIORITY
    BY <1>f, <2>1 DEF Types
  <2> QED BY <1>j, <2>1, <2>2, PrioritySame
<1>3. CASE AddScheduledAlready(c)
  <2>1. UNCHANGED queues /\ priority' = [priority EXCEPT ![new[c]] = FG_PRIORITY]
    BY <1>3 DEF AddScheduledAlready
  <2>2. \A j \in Jobs : priority'[j] = priority[j] \/ priority'[j] <= FG_PRIORITY
    BY <1>f, <2>1 DEF Types
  <2> QED BY <1>j, <2>1, <2>2, PrioritySame
<1>4. ASSUME NEW q \in QueueIds, AddFifo(c, q)
      PROVE  PriorityInv'
  <2> DEFINE j == new[c]
  <2>1. /\ cpc[c] \in Carrying /\ q # SYSTEM_FG
        /\ queues' = [queues EXCEPT ![q] = Append(@, j)]
        /\ priority' = [priority EXCEPT ![j] = IF q = USER_FG THEN FG_PRIORITY ELSE 0]
    BY <1>4 DEF AddFifo, MayAdd, Carrying
  <2>2. j \in Jobs
    BY <2>1, GivenFacts
  <2>3. /\ \A p \in QueueIds : queues'[p] = IF p = q THEN Append(queues[q], j) ELSE queues[p]
        /\ \A i \in Jobs : i # j => priority'[i] = priority[i]
        /\ ~(priority'[j] > FG_PRIORITY)
    BY <1>f, <2>1, <2>2 DEF Types
  <2> HIDE DEF j
  <2>4. /\ Range(Append(queues[q], j)) = Range(queues[q]) \cup {j}
        /\ Len(Append(queues[q], j)) = Len(queues[q]) + 1
        /\ \A i \in 1 .. Len(queues[q]) : Append(queues[q], j)[i] = queues[q][i]
        /\ Append(queues[q], j)[Len(queues[q]) + 1] = j /\ Len(queues[q]) \in Nat
    BY <1>j, <2>2, AppendFacts
  <2>5. StackInv'
    BY <2>1, <2>3, FifoFacts DEF PriorityInv, StackInv
  <2>6. ASSUME NEW p \in Fifo, NEW i \in 1 .. Len(queues'[p]),
               priority'[queues'[p][i]] > FG_PRIORITY
        PROVE  i \in 1 .. Len(queues[p]) /\ queues'[p][i] = queues[p][i]
    <3>1. CASE p = q
      <4>1. i # Len(queues[q]) + 1
        BY <2>3, <2>4, <2>6, <3>1
      <4>2. queues'[p] = Append(queues[q], j)
        BY <2>3, <3>1
      <4>3. i \in 1 .. Len(queues[q])
        BY <2>4, <4>1, <4>2
      <4> QED BY <2>4, <3>1, <4>2, <4>3
    <3>2. CASE p # q
      BY <2>3, <3>2, FifoFacts
    <3> QED BY <3>1, <3>2
  <2>7. ASSUME NEW p \in QueueIds, NEW i \in Range(queues'[p]), priority'[i] > FG_PRIORITY
        PROVE  i \in Range(queues[p]) /\ priority'[i] = priority[i]
    BY <1>j, <2>3, <2>4, <2>7
  <2> QED BY <2>5, <2>6, <2>7, PriorityQuiet
<1>5. CASE AddQueuedAlready(c)
  <2>1. PICK i \in SameInQueue(new[c]) :
          queues' = [queues EXCEPT ![SYSTEM_FG] = <<i>> \o RemoveFirst(@, i)]
    BY <1>5 DEF AddQueuedAlready
  <2>3. /\ i \in Range(queues[SYSTEM_FG]) /\ i \in Jobs /\ queues[SYSTEM_FG] \in Seq(Jobs)
        /\ Distinct(queues[SYSTEM_FG])
    BY <1>j, FifoFacts DEF SameInQueue, PlaceInv, QueueInv
  <2> DEFINE rest == RemoveFirst(queues[SYSTEM_FG], i)
  <2>4. rest \in Seq(Jobs) /\ Distinct(rest) /\ Range(rest) = Range(queues[SYSTEM_FG]) \ {i}
    BY <2>3, RemoveFirstFacts
  <2>5. \A p \in QueueIds : queues'[p] = IF p = SYSTEM_FG THEN <<i>> \o rest ELSE queues[p]
    BY <2>1, FifoFacts DEF Types
  <2> HIDE DEF rest
  <2>6. /\ Range(<<i>> \o rest) = Range(rest) \cup {i} /\ <<i>> \o rest \in Seq(Jobs)
        /\ Distinct(<<i>> \o rest)
    BY <2>3, <2>4, ConsFacts
  <2>7. \A p \in QueueIds : Range(queues'[p]) = Range(queues[p])
    BY <2>3, <2>4, <2>5, <2>6
  <2>8. Len(queues'[SYSTEM_FG]) = Len(queues[SYSTEM_FG])
    <3>1. Cardinality(Range(queues[SYSTEM_FG])) = Len(queues[SYSTEM_FG])
      BY <2>3, DistinctCardinality
    <3>2. Cardinality(Range(<<i>> \o rest)) = Len(<<i>> \o rest)
      BY <2>6, DistinctCardinality
    <3> QED BY <2>5, <2>7, <3>1, <3>2, FifoFacts
  <2>9. \A j \in Jobs : priority'[j] > FG_PRIORITY => priority'[j] = priority[j]
    BY <1>f, <1>5 DEF AddQueuedAlready, Types
  <2>10. StackInv'
    BY <2>8 DEF PriorityInv, StackInv
  <2>11. \A p \in Fifo : queues'[p] = queues[p]
    BY <2>5, FifoFacts
  <2> QED BY <1>j, <2>7, <2>9, <2>10, <2>11, PriorityQuiet
<1>6. CASE AddOnTop(c)
  <2> DEFINE j     == new[c]
             stack == <<j>> \o queues[SYSTEM_FG]
             over  == Len(stack) > StackLimit
             Out   == IF over THEN {Last(stack)} ELSE {}
             fit   == IF over THEN Front(stack) ELSE stack
  <2>1. /\ cpc[c] \in Carrying
        /\ queues' = [queues EXCEPT ![SYSTEM_FG] = fit]
        /\ priority' = [i \in Jobs |-> CASE i = j     -> FG_PRIORITY
                                         [] i \in Out -> 0
                                         [] OTHER     -> priority[i]]
    BY <1>6 DEF AddOnTop, MayAdd, Carrying
  <2>2. j \in Jobs /\ j \notin Range(queues[SYSTEM_FG])
    BY <2>1, GivenFacts, FifoFacts
  <2>3. /\ Range(fit) = (Range(queues[SYSTEM_FG]) \cup {j}) \ Out
        /\ Out \subseteq Range(queues[SYSTEM_FG])
        /\ Len(queues[SYSTEM_FG]) <= StackLimit => Len(fit) <= StackLimit
    BY <2>2, StackFacts
  <2>4. \A p \in QueueIds : queues'[p] = IF p = SYSTEM_FG THEN fit ELSE queues[p]
    BY <2>1 DEF Types
  <2>5. \A i \in Jobs : priority'[i] = IF i = j THEN FG_PRIORITY
                                       ELSE IF i \in Out THEN 0 ELSE priority[i]
    BY <2>1, <2>2, <2>3
  <2> HIDE DEF j, Out, fit
  <2>6. \A i \in Jobs : priority'[i] > FG_PRIORITY => priority'[i] = priority[i] /\ i # j
    BY <1>f, <2>5
  <2>7. StackInv'
    BY <2>3, <2>4, FifoFacts DEF PriorityInv, StackInv
  <2>8. \A p \in QueueIds : \A i \in Range(queues'[p]) : i \in Range(queues[p]) \/ i = j
    BY <2>3, <2>4
  <2>9. \A p \in Fifo : queues'[p] = queues[p]
    BY <2>4, FifoFacts
  <2> QED BY <1>j, <2>2, <2>6, <2>7, <2>8, <2>9, PriorityQuiet
<1> QED BY <1>1, <1>2, <1>3, <1>4, <1>5, <1>6 DEF Submit

(* The winner is taken, and the heads of the other queues gain one. *)
LEMMA SchedulePriority ==
  ASSUME Types, Types', PlaceInv, PriorityInv, NEW w \in Threads, Schedule(w)
  PROVE  PriorityInv'
<1>1. PICK v \in QueueIds :
        /\ Wins(v)
        /\ queues' = [queues EXCEPT ![v] = Tail(@)]
        /\ priority' = Promoted(v)
  BY DEF Schedule
<1>f. /\ FG_PRIORITY \in Nat /\ PriorityLimit \in Nat \ {0}
      /\ PassedOver \in Int /\ PassedOver < PriorityLimit
  BY ConstantsAssumption, UsedFacts, PriorityIsWide DEF FG_PRIORITY
<1>p. \A j \in Jobs : priority[j] \in Nat /\ priority'[j] \in Nat
  BY DEF Types
<1>t. \A q \in QueueIds : /\ queues[q] \in Seq(Jobs) /\ Len(queues[q]) \in Nat
                          /\ \A j \in Range(queues[q]) : j \in Jobs
                          /\ \A i \in 1 .. Len(queues[q]) : queues[q][i] \in Range(queues[q])
                          /\ \A j \in Range(queues[q]) : \E i \in 1 .. Len(queues[q]) :
                               queues[q][i] = j
  BY RangeFacts DEF Types
<1>d. \A p, q \in QueueIds : \A j : j \in Range(queues[p]) /\ j \in Range(queues[q]) => p = q
  BY DEF PlaceInv, QueueInv
<1> DEFINE win == Head(queues[v])
<1>2. /\ queues[v] # <<>> /\ win = queues[v][1] /\ win \in Range(queues[v]) /\ win \in Jobs
      /\ Range(queues[v]) = Range(Tail(queues[v])) \cup {win}
      /\ win \notin Range(Tail(queues[v]))
      /\ Tail(queues[v]) \in Seq(Jobs) /\ Len(Tail(queues[v])) = Len(queues[v]) - 1
      /\ \A i \in 1 .. Len(Tail(queues[v])) : Tail(queues[v])[i] = queues[v][i + 1]
  <2>1. queues[v] # <<>> /\ queues[v] \in Seq(Jobs) /\ Distinct(queues[v])
    BY <1>1, <1>t DEF Wins, Eligible, PlaceInv, QueueInv
  <2> QED BY <1>t, <2>1, TailFacts
<1>3. \A q \in QueueIds : queues'[q] = IF q = v THEN Tail(queues[v]) ELSE queues[q]
  BY <1>1 DEF Types
<1>4. \A q \in QueueIds : \A j \in Range(queues'[q]) : j \in Range(queues[q]) /\ j # win
  BY <1>2, <1>3, <1>d
(* Only a head of another queue gains anything. *)
<1>5. \A j \in Jobs : j \in Losers(v) <=>
        \E q \in QueueIds \ {v} : queues[q] # <<>> /\ j = Head(queues[q])
  BY DEF Losers
<1>6. \A j \in Jobs : /\ j \notin Losers(v) => priority'[j] = priority[j]
                      /\ j \in Losers(v) => priority'[j] = (priority[j] + 1) % PriorityLimit
  BY <1>1 DEF Promoted
<1>7. \A j \in Jobs : priority'[j] <= priority[j] + 1
  <2> TAKE j \in Jobs
  <2>1. priority[j] + 1 \in Nat
    BY <1>p
  <2>2. (priority[j] + 1) % PriorityLimit <= priority[j] + 1
    BY <1>f, <2>1, ModFacts
  <2> QED BY <1>p, <1>6, <2>2
<1> HIDE DEF win
<1>8. StackInv'
  <2>1. Len(queues'[SYSTEM_FG]) <= Len(queues[SYSTEM_FG])
    <3>1. CASE SYSTEM_FG = v
      <4>1. queues'[SYSTEM_FG] = Tail(queues[v])
        BY <1>3, <3>1
      <4> QED BY <1>2, <1>t, <3>1, <4>1
    <3>2. CASE SYSTEM_FG # v
      BY <1>3, <1>t, <3>2, FifoFacts
    <3> QED BY <3>1, <3>2
  <2>2. Len(queues'[SYSTEM_FG]) \in Nat /\ StackLimit \in Nat
    BY <1>2, <1>3, <1>t, FifoFacts, ConstantsAssumption
  <2> QED BY <2>1, <2>2, <1>t, FifoFacts DEF PriorityInv, StackInv
(* No job behind a FIFO head, nor the one that becomes head, gains. *)
<1>9. \A q \in Fifo : \A i \in 2 .. Len(queues[q]) :
        /\ queues[q][i] \in Jobs
        /\ priority'[queues[q][i]] = priority[queues[q][i]]
        /\ priority[queues[q][i]] <= FG_PRIORITY
  <2> SUFFICES ASSUME NEW q \in Fifo, NEW i \in 2 .. Len(queues[q])
               PROVE  /\ queues[q][i] \in Jobs
                      /\ priority'[queues[q][i]] = priority[queues[q][i]]
                      /\ priority[queues[q][i]] <= FG_PRIORITY
    OBVIOUS
  <2>1. /\ q \in QueueIds /\ i \in 1 .. Len(queues[q]) /\ 1 \in 1 .. Len(queues[q]) /\ i # 1
        /\ queues[q][i] \in Range(queues[q]) /\ queues[q][i] \in Jobs
    BY <1>t, FifoFacts
  <2>2. queues[q][i] # queues[q][1]
    BY <2>1 DEF PlaceInv, QueueInv, Distinct
  <2>3. queues[q][i] \notin Losers(v)
    <3> SUFFICES ASSUME NEW p \in QueueIds \ {v}, queues[p] # <<>>,
                        queues[q][i] = Head(queues[p])
                 PROVE  FALSE
      BY <1>5, <2>1
    <3>1. Head(queues[p]) = queues[p][1] /\ Head(queues[p]) \in Range(queues[p])
      BY <1>t, TailFacts
    <3>2. p = q
      BY <1>d, <2>1, <3>1
    <3> QED BY <2>2, <3>1, <3>2
  <2>4. priority[queues[q][i]] <= FG_PRIORITY
    BY DEF PriorityInv, BehindInv
  <2> QED BY <1>6, <2>1, <2>3, <2>4
<1>10. BehindInv'
  <2> SUFFICES ASSUME NEW q \in Fifo, NEW i \in 2 .. Len(queues'[q])
               PROVE  priority'[queues'[q][i]] <= FG_PRIORITY
    BY DEF BehindInv
  <2>1. CASE q = v
    <3>0. queues'[q] = Tail(queues[v])
      BY <1>3, <2>1
    <3>1. i + 1 \in 2 .. Len(queues[q]) /\ queues'[q][i] = queues[q][i + 1]
      BY <1>2, <1>t, <2>1, <3>0
    <3> QED BY <1>9, <3>1
  <2>2. CASE q # v
    <3>1. queues'[q] = queues[q]
      BY <1>3, <2>2, FifoFacts
    <3> QED BY <1>9, <3>1
  <2> QED BY <2>1, <2>2
<1>11. AheadInv'
  <2> SUFFICES ASSUME NEW q \in Fifo \ {USER_EXPORT}, queues'[q] # <<>>,
                      HeadPriority(q)' > FG_PRIORITY
               PROVE  HeadPriority(q)' + Cardinality(Ahead(q)') <= PassedOver
    BY DEF AheadInv
  <2> DEFINE h == HeadPriority(q)
             j == Head(queues[q])
             U == UsedQueues \ {SYSTEM_FG}
             K == IF SYSTEM_FG \in UsedQueues THEN StackLimit ELSE 0
  <2>0. q \in QueueIds /\ q \in Fifo /\ q # SYSTEM_FG
    BY FifoFacts
  <2>1. q # v
    <3> SUFFICES ASSUME q = v PROVE FALSE
      OBVIOUS
    <3>0. queues'[q] = Tail(queues[q])
      BY <1>3
    <3>1. 1 \in 1 .. Len(Tail(queues[q]))
      BY <1>2, <1>t, <3>0
    <3>2. Head(queues'[q]) = queues[q][2] /\ 2 \in 2 .. Len(queues[q])
      BY <1>2, <1>t, <3>0, <3>1
    <3>3. priority'[queues[q][2]] <= FG_PRIORITY /\ priority'[queues[q][2]] \in Nat
      BY <1>9, <1>p, <2>0, <3>2
    <3> QED BY <1>f, <3>2, <3>3 DEF HeadPriority
  <2>2. /\ queues'[q] = queues[q] /\ queues[q] # <<>>
        /\ j \in Range(queues[q]) /\ j \in Jobs /\ h = priority[j] /\ HeadPriority(q)' = priority'[j]
    BY <1>3, <1>t, <2>0, <2>1, TailFacts DEF HeadPriority
  <2>3. h <= priority[win] /\ h \in Nat
    <3>1. q \in Eligible
      BY <2>0, <2>2 DEF Eligible
    <3>2. HeadPriority(v) = priority[win] /\ HeadPriority(v) \in Nat /\ h \in Nat
      BY <1>2, <1>p, <2>2 DEF HeadPriority, win
    <3> QED BY <1>1, <3>1, <3>2 DEF Wins
  <2>4. priority'[j] = (h + 1) % PriorityLimit
    BY <1>5, <1>6, <2>0, <2>1, <2>2
  <2>5. h + 1 > FG_PRIORITY
    BY <1>7, <1>p, <1>f, <2>2, <2>3
  <2> HIDE DEF h, j
  <2>6. h > FG_PRIORITY => /\ h + Cardinality(Ahead(q)) <= PassedOver
                           /\ win \in Ahead(q) /\ Cardinality(Ahead(q)) \in Nat \ {0}
    <3> SUFFICES ASSUME h > FG_PRIORITY
                 PROVE  /\ h + Cardinality(Ahead(q)) <= PassedOver
                        /\ win \in Ahead(q) /\ Cardinality(Ahead(q)) \in Nat \ {0}
      OBVIOUS
    <3>1. h + Cardinality(Ahead(q)) <= PassedOver
      BY <2>2 DEF PriorityInv, AheadInv, h
    <3>2. win \in Ahead(q)
      BY <1>2, <1>p, <2>1, <2>3 DEF Ahead, h
    <3>3. Cardinality(Ahead(q)) # 0
      BY <3>2, AheadFinite, FS_EmptySet
    <3> QED BY <3>1, <3>2, <3>3, AheadFinite
  <2>7. HeadPriority(q)' = h + 1
    <3>1. h + 1 < PriorityLimit
      <4>1. CASE h > FG_PRIORITY
        BY <1>f, <2>3, <2>6, <4>1
      <4>2. CASE ~(h > FG_PRIORITY)
        BY <2>3, <4>2, ConstantsAssumption DEF FG_PRIORITY
      <4> QED BY <4>1, <4>2
    <3>2. h + 1 \in Nat
      BY <2>3
    <3> QED BY <1>f, <2>2, <2>4, <3>1, <3>2, ModFacts
  (* Who is ahead now was queued before, did not win, and is a head or in *)
  (* the stack.                                                           *)
  <2>8. ASSUME NEW i \in Ahead(q)'
        PROVE  /\ i \in Jobs /\ i # win /\ priority[i] >= h
               /\ \E p \in QueueIds \ {q} :
                    /\ i \in Range(queues[p]) /\ i \in Range(queues'[p])
                    /\ \/ p = SYSTEM_FG
                       \/ p \in Fifo \ {v} /\ i = Head(queues[p])
    <3>1. PICK p \in QueueIds \ {q} : i \in Range(queues'[p])
      BY <2>8 DEF Ahead
    <3>2. i \in Jobs /\ priority'[i] >= h + 1
      BY <2>7, <2>8 DEF Ahead
    <3>3. i \in Range(queues[p]) /\ i # win
      BY <1>4, <3>1
    <3>4. priority[i] >= h
      BY <1>7, <1>p, <2>3, <3>2
    <3>5. p \in Fifo => p # v /\ i = Head(queues[p])
      <4> SUFFICES ASSUME p \in Fifo PROVE p # v /\ i = Head(queues[p])
        OBVIOUS
      <4>1. PICK k \in 1 .. Len(queues[p]) : queues[p][k] = i
        BY <1>t, <3>3
      <4>2. k \notin 2 .. Len(queues[p])
        BY <1>9, <1>f, <1>p, <2>3, <2>5, <3>2, <4>1
      <4>3. k = 1
        BY <1>t, <4>1, <4>2
      <4>4. i = Head(queues[p])
        BY <1>t, <4>1, <4>3
      <4> QED BY <3>3, <4>4 DEF win
    <3> QED BY <3>1, <3>2, <3>3, <3>4, <3>5, FifoFacts
  <2>9. CASE h > FG_PRIORITY
    <3>1. Ahead(q)' \subseteq Ahead(q) \ {win}
      BY <2>8 DEF Ahead, h
    <3>2. \A X : IsFiniteSet(X) /\ win \in X =>
                   IsFiniteSet(X \ {win}) /\ Cardinality(X \ {win}) = Cardinality(X) - 1
      BY FS_RemoveElement
    <3>3. /\ IsFiniteSet(Ahead(q) \ {win})
          /\ Cardinality(Ahead(q) \ {win}) = Cardinality(Ahead(q)) - 1
      BY <2>6, <2>9, <3>2, AheadFinite
    <3>4. /\ Cardinality(Ahead(q)') <= Cardinality(Ahead(q) \ {win})
          /\ Cardinality(Ahead(q)') \in Nat
      BY <3>1, <3>3, FS_Subset, FS_CardinalityType
    <3> QED BY <1>f, <2>3, <2>6, <2>7, <2>9, <3>3, <3>4
  <2>10. CASE ~(h > FG_PRIORITY)
    <3> DEFINE R == {p \in Fifo \ {q, v} : queues[p] # <<>>}
               H == {Head(queues[p]) : p \in R}
               S == Range(queues'[SYSTEM_FG])
    <3>1. Ahead(q)' \subseteq S \cup H
      <4> SUFFICES ASSUME NEW i \in Ahead(q)' PROVE i \in S \cup H
        OBVIOUS
      <4>1. PICK p \in QueueIds \ {q} :
              /\ i \in Range(queues[p]) /\ i \in Range(queues'[p])
              /\ \/ p = SYSTEM_FG
                 \/ p \in Fifo \ {v} /\ i = Head(queues[p])
        BY <2>8
      <4>2. CASE p = SYSTEM_FG
        BY <4>1, <4>2
      <4>3. CASE p \in Fifo \ {v} /\ i = Head(queues[p])
        <5>1. queues[p] # <<>>
          BY <4>1 DEF Range
        <5> QED BY <4>1, <4>3, <5>1
      <4> QED BY <4>1, <4>2, <4>3
    <3>2. R \subseteq (U \ {q}) \ {v}
      BY UsedByJob, FifoFacts
    <3>3. q \in U /\ v \in UsedQueues
      BY <1>2, <2>0, <2>2, UsedByJob
    <3>4. /\ IsFiniteSet(U \ {q}) /\ Cardinality(U \ {q}) = Cardinality(U) - 1
          /\ IsFiniteSet((U \ {q}) \ {v})
          /\ Cardinality((U \ {q}) \ {v}) = IF v \in U THEN Cardinality(U) - 2
                                                       ELSE Cardinality(U) - 1
      <4>1. \A X, x : IsFiniteSet(X) =>
              /\ IsFiniteSet(X \ {x})
              /\ Cardinality(X \ {x}) = IF x \in X THEN Cardinality(X) - 1 ELSE Cardinality(X)
        BY FS_RemoveElement
      <4>2. IsFiniteSet(U) /\ Cardinality(U) \in Nat
        BY UsedFacts
      <4>3. IsFiniteSet(U \ {q}) /\ Cardinality(U \ {q}) = Cardinality(U) - 1
        BY <3>3, <4>1, <4>2
      <4>4. v \in U \ {q} <=> v \in U
        BY <2>1
      <4> HIDE DEF U
      <4>5. /\ IsFiniteSet((U \ {q}) \ {v})
            /\ Cardinality((U \ {q}) \ {v}) = IF v \in U \ {q} THEN Cardinality(U \ {q}) - 1
                                                               ELSE Cardinality(U \ {q})
        BY <4>1, <4>3
      <4> QED BY <4>2, <4>3, <4>4, <4>5
    <3>5. IsFiniteSet(R) /\ Cardinality(R) <= Cardinality((U \ {q}) \ {v}) /\ Cardinality(R) \in Nat
      BY <3>2, <3>4, FS_Subset, FS_CardinalityType
    <3>6. IsFiniteSet(H) /\ Cardinality(H) <= Cardinality(R) /\ Cardinality(H) \in Nat
      <4> HIDE DEF R
      <4> DEFINE g == [p \in R |-> Head(queues[p])]
      <4>1. g \in Surjection(R, H)
        BY DEF Surjection
      <4> HIDE DEF g, H
      <4> QED BY <3>5, <4>1, FS_Surjection, FS_CardinalityType
    <3>7. IsFiniteSet(S) /\ Cardinality(S) = Len(queues'[SYSTEM_FG])
      <4>1. queues'[SYSTEM_FG] \in Seq(Jobs) /\ Distinct(queues'[SYSTEM_FG])
        <5>1. \A p \in QueueIds : queues[p] \in Seq(Jobs) /\ Distinct(queues[p])
          BY <1>t DEF PlaceInv, QueueInv
        <5>2. Distinct(Tail(queues[v]))
          BY <1>2, <5>1, TailFacts
        <5> QED BY <1>2, <1>3, <5>1, <5>2, FifoFacts
      <4> QED BY <4>1, DistinctCardinality
    <3>8. /\ Len(queues'[SYSTEM_FG]) \in Nat
          /\ Len(queues'[SYSTEM_FG]) <= IF v \in U THEN K ELSE K - 1
      <4>1. Len(queues[SYSTEM_FG]) <= StackLimit /\ StackLimit \in Nat
        BY ConstantsAssumption DEF PriorityInv, StackInv
      <4>2. queues[SYSTEM_FG] # <<>> => SYSTEM_FG \in UsedQueues
        BY UsedByJob, FifoFacts
      <4>3. CASE v \in U
        <5>1. queues'[SYSTEM_FG] = queues[SYSTEM_FG]
          BY <1>3, <4>3, FifoFacts
        <5>2. CASE queues[SYSTEM_FG] = <<>>
          BY <4>1, <4>3, <5>1, <5>2
        <5>3. CASE queues[SYSTEM_FG] # <<>>
          BY <1>t, <4>1, <4>2, <4>3, <5>1, <5>3, FifoFacts
        <5> QED BY <5>2, <5>3
      <4>4. CASE v \notin U
        <5>1. v = SYSTEM_FG
          BY <3>3, <4>4
        <5>2. queues'[SYSTEM_FG] = Tail(queues[v]) /\ SYSTEM_FG \in UsedQueues
          BY <1>3, <3>3, <5>1, FifoFacts
        <5> QED BY <1>2, <1>t, <4>1, <4>4, <5>1, <5>2, FifoFacts
      <4> QED BY <4>3, <4>4
    <3> HIDE DEF S, H, R
    <3>9. IsFiniteSet(S \cup H) /\ Cardinality(S \cup H) <= Cardinality(S) + Cardinality(H)
      <4>1. IsFiniteSet(S \cap H) /\ Cardinality(S \cap H) \in Nat
        BY <3>6, <3>7, FS_Intersection, FS_CardinalityType
      <4>2. /\ IsFiniteSet(S \cup H)
            /\ Cardinality(S \cup H) = Cardinality(S) + Cardinality(H) - Cardinality(S \cap H)
        BY <3>6, <3>7, FS_Union
      <4> QED BY <3>6, <3>7, <3>8, <4>1, <4>2
    <3>10. Cardinality(Ahead(q)') <= Cardinality(S \cup H) /\ Cardinality(Ahead(q)') \in Nat
           /\ Cardinality(S \cup H) \in Nat
      BY <3>1, <3>9, FS_Subset, FS_CardinalityType
    <3>11. Cardinality(U) \in Nat /\ K \in Nat /\ PassedOver = FG_PRIORITY - 1 + Cardinality(U) + K
      BY UsedFacts, ConstantsAssumption DEF PassedOver
    <3> HIDE DEF U, K
    <3>12. Cardinality(Ahead(q)') <= Cardinality(U) + K - 2
      <4>1. CASE v \in U
        BY <3>4, <3>5, <3>6, <3>7, <3>8, <3>9, <3>10, <3>11, <4>1
      <4>2. CASE v \notin U
        BY <3>4, <3>5, <3>6, <3>7, <3>8, <3>9, <3>10, <3>11, <4>2
      <4> QED BY <4>1, <4>2
    <3> QED BY <1>f, <2>3, <2>5, <2>7, <2>10, <3>10, <3>11, <3>12
  <2> QED BY <2>9, <2>10
<1> QED BY <1>8, <1>10, <1>11 DEF PriorityInv

LEMMA PriorityStep ==
  ASSUME Types, Types', PlaceInv, PriorityInv, [Next]_vars
  PROVE  PriorityInv'
<1>1. ASSUME NEW t \in Threads, Worker(t)
      PROVE  PriorityInv'
  <2>1. CASE CheckRunning(t) \/ ScheduleNothing(t) \/ TestQueued(t) \/ Sleep(t)
    <3>1. UNCHANGED <<queues, priority>>
      BY <2>1 DEF CheckRunning, ScheduleNothing, TestQueued, Sleep, shared, objects
    <3> QED BY <3>1, PrioritySame
  <2>2. CASE Execute(t) \/ Return(t) \/ TakeReserved(t) \/ Clear(t)
    <3>1. UNCHANGED <<queues, priority>>
      BY <2>2 DEF Execute, Return, TakeReserved, Clear, shared, objects
    <3> QED BY <3>1, PrioritySame
  <2>3. CASE Free(t)
    <3>1. UNCHANGED queues /\ priority' = [priority EXCEPT ![hand[t]] = 0]
      BY <2>3 DEF Free, Dispose
    <3>2. \A j \in Jobs : priority'[j] = priority[j] \/ priority'[j] <= FG_PRIORITY
      BY <3>1 DEF Types, FG_PRIORITY
    <3>3. \A q \in QueueIds : \A j \in Range(queues[q]) : j \in Jobs
      BY RangeFacts DEF Types
    <3> QED BY <3>1, <3>2, <3>3, PrioritySame
  <2> QED BY <1>1, <2>1, <2>2, <2>3, SchedulePriority DEF Worker
<1>2. CASE Gui \/ Kicker \/ Quit \/ Shutdown \/ Joined
  <2>1. UNCHANGED <<queues, priority>>
    BY <1>2 DEF Gui, Cancel, HideButton, Kicker, KickerCheck, Kick, Quit, Shutdown, Joined, shared, objects
  <2> QED BY <2>1, PrioritySame
<1>3. CASE UNCHANGED vars
  <2>1. UNCHANGED <<queues, priority>>
    BY <1>3 DEF vars, shared, objects
  <2> QED BY <2>1, PrioritySame
<1> QED BY <1>1, <1>2, <1>3, SubmitPriority DEF Next

(* The head of a FIFO queue is passed over at most PassedOver times,       *)
(* whatever else arrives, and its priority, an unsigned char, never wraps. *)
THEOREM HeadsAreServedInTurn == Spec => []HeadsAreServed
<1> DEFINE I == Types /\ PlaceInv /\ PriorityInv
<1>1. ASSUME Init PROVE PriorityInv
  <2>1. \A q \in QueueIds : queues[q] = <<>>
    BY <1>1 DEF Init
  <2>2. StackInv
    BY <2>1, ConstantsAssumption, FifoFacts DEF StackInv
  <2>3. BehindInv
    BY <2>1, FifoFacts DEF BehindInv
  <2>4. AheadInv
    BY <2>1, FifoFacts DEF AheadInv
  <2> QED BY <2>2, <2>3, <2>4 DEF PriorityInv
<1>2. Init => I
  BY <1>1, InitPlace
<1>3. I /\ [Next]_vars => I'
  BY TypesPlaceStep, PriorityStep
<1>4. I => HeadsAreServed
  BY PriorityGivesServed
<1> QED BY <1>2, <1>3, <1>4, PTL DEF Spec
=============================================================================
