-------------------------- MODULE ExportQueueProofs --------------------------
(***************************************************************************)
(* For every set of requests, targets, workers and clients: a key has one  *)
(* job, one call works on a job at a time, retries are bounded, a commit   *)
(* is never replaced, a cancelled job publishes nothing, a succeeded one   *)
(* is published, and no job is left in process.                            *)
(***************************************************************************)
EXTENDS ExportQueue, FiniteSetTheorems, WellFoundedInduction, TLAPS

(* The records are numbered from 1 without a gap, and no client holds an     *)
(* identifier beyond the next one.                                           *)
DenseInv ==
  \E n \in 0..Cardinality(Request) :
    /\ \A j \in Job : Exists(j) <=> j =< n
    /\ \A c \in Client : newId[c] =< n + 1

RecordInv == \A j \in Job : Exists(j) => request[j] \in Request

(* A call owns its job from its claim to its end, and its job's retry, too,  *)
(* when it failed for a reason that allows one.  A call that was refused the *)
(* claim fails for good, and owns nothing.                                   *)
Committed == {"look", "mark", "rename", "sync", "succeed"}
Claimed == {"open", "stage", "encode", "create", "copy", "check", "startCommit"} \cup Committed
Owns(w) == pc[w] \in Claimed \/ (pc[w] \in {"error", "fail"} /\ error[w] = "retryable")

CallInv ==
  \A w \in Worker :
    /\ phase # "up" => pc[w] = "idle"
    /\ pc[w] # "idle" => Exists(job[w])
    /\ canRetry[w] => pc[w] = "fail" /\ error[w] = "retryable"

(* Nobody can claim an owned job: it is not queued, nor can it become so.    *)
OwnerInv ==
  /\ \A v, w \in Worker : Owns(v) /\ Owns(w) /\ job[v] = job[w] => v = w
  /\ \A w \in Worker : Owns(w) =>
       StateOf(w) \in InProcess \cup {"FailedPermanent", "Cancelled"}

(* From its commit on a job can no longer be cancelled. *)
CommitInv ==
  \A w \in Worker : pc[w] \in Committed => StateOf(w) \in {"Committing", "FailedPermanent"}

FilesInv ==
  /\ \A g \in Target : bundle[g] # NoBundle => bundle[g].content = "marked"
  /\ \A w \in Worker : pc[w] = "rename" => staging[job[w]] = "marked"
  /\ \A w \in Worker : pc[w] \in {"sync", "succeed"} =>
       bundle[TargetFor(w)] = [key |-> request[job[w]], content |-> "marked"]

(* While no read fails, a retry is decided on an attempt count that no other *)
(* call raises before the failure is recorded.                               *)
AttemptInv ==
  /\ \A j \in Job : attempt[j] =< RetryLimit + (IF state[j] = "FailedPermanent" THEN 1 ELSE 0)
  /\ \A w \in Worker : canRetry[w] =>
       attempt[job[w]] < RetryLimit \/ StateOf(w) = "FailedPermanent"

IInv ==
  /\ TypeOK /\ DenseInv /\ RecordInv /\ IndexAgrees /\ CallInv /\ OwnerInv /\ CommitInv
  /\ FilesInv

-----------------------------------------------------------------------------
(* Numbers of jobs. *)

(* The sets 0..x, for x in S, have one that contains no other. *)
LEMMA MinOfNaturals ==
  ASSUME NEW S, S \subseteq Nat, S # {}
  PROVE  Min(S) \in S
<1> DEFINE T == {0..x : x \in S}
<1>1. T \subseteq FiniteSubsetsOf(Nat) /\ T # {}
  <2>1. \A x \in S : IsFiniteSet(0..x) /\ 0..x \subseteq Nat
    BY FS_Interval
  <2> QED
    BY <2>1 DEF FiniteSubsetsOf
<1>2. PICK I \in T : \A J \in T : ~(<<J, I>> \in StrictSubsetOrdering(Nat))
  BY <1>1, FS_StrictSubsetOrderingWellFounded, WFMin
<1>3. PICK x \in S : I = 0..x
  OBVIOUS
<1>4. ASSUME NEW y \in S, y < x PROVE FALSE
  <2>1. 0..y \in T /\ 0..y \subseteq 0..x /\ x \in 0..x /\ x \notin 0..y
    BY <1>4
  <2>2. ~(<<0..y, 0..x>> \in StrictSubsetOrdering(Nat))
    BY <2>1, <1>2, <1>3
  <2>3. 0..y \in SUBSET Nat /\ 0..x \in SUBSET Nat /\ 0..y # 0..x
    BY <2>1
  <2> QED
    BY <2>1, <2>2, <2>3 DEF StrictSubsetOrdering
<1>5. \A y \in S : x =< y
  BY <1>4
<1> QED
  BY <1>5 DEF Min

LEMMA RequestsCounted == Cardinality(Request) \in Nat \ {0}
  BY QueueConstants, FS_CardinalityType, FS_EmptySet

LEMMA NextIdFollows ==
  ASSUME NEW n \in 0..Cardinality(Request), \A j \in Job : Exists(j) <=> j =< n
  PROVE  NextId = n + 1
<1> DEFINE S == {j \in Job : Exists(j)} \cup {0}
<1>1. S \subseteq 0..n /\ n \in S
  BY RequestsCounted DEF Job
<1>2. Max(S) = n
  BY <1>1 DEF Max
<1> QED
  BY <1>2 DEF NextId

(* As long as a key has no job, there is room for one more. *)
LEMMA RoomForJob ==
  ASSUME NEW n \in 0..Cardinality(Request), \A j \in Job : Exists(j) <=> j =< n,
         NEW r \in Request, index[r] = 0, RecordInv, IndexAgrees
  PROVE  n + 1 \in Job
<1> DEFINE T == Request \ {r}
<1> DEFINE f == [j \in 1..n |-> request[j]]
<1>1. IsFiniteSet(T) /\ Cardinality(T) = Cardinality(Request) - 1
  BY QueueConstants, FS_RemoveElement
<1>2. IsFiniteSet(1..n) /\ Cardinality(1..n) = n
  BY FS_Interval
<1>3. f \in [1..n -> T]
  <2> SUFFICES ASSUME NEW j \in 1..n PROVE request[j] \in T
    OBVIOUS
  <2>1. j \in Job /\ Exists(j)
    BY RequestsCounted DEF Job
  <2> QED
    BY <2>1, RequestsCounted DEF RecordInv, IndexAgrees, Job
<1>4. \A i, j \in 1..n : request[i] = request[j] => i = j
  <2>1. \A j \in 1..n : index[request[j]] = j
    BY RequestsCounted DEF IndexAgrees, Job
  <2> QED
    BY <2>1
<1>5. ~(Cardinality(T) < Cardinality(1..n))
  <2> SUFFICES ASSUME Cardinality(T) < Cardinality(1..n) PROVE FALSE
    OBVIOUS
  <2>1. PICK i, j \in 1..n : i # j /\ f[i] = f[j]
    <3> HIDE DEF T, f
    <3> QED
      BY <1>1, <1>2, <1>3, FS_PigeonHole
  <2> QED
    BY <2>1, <1>4
<1> QED
  BY <1>1, <1>2, <1>5, RequestsCounted DEF Job

(* The identifier a client inserts its job under is the next one, and is one *)
(* of a job.                                                                 *)
LEMMA InsertIsNext ==
  ASSUME IInv, NEW c \in Client, EnqueueInsert(c)
  PROVE  \E n \in 0..Cardinality(Request) :
           /\ \A j \in Job : Exists(j) <=> j =< n
           /\ \A d \in Client : newId[d] =< n + 1
           /\ n + 1 \in Job /\ FreshId(newId[c]) = n + 1
<1>1. PICK n \in 0..Cardinality(Request) :
        /\ \A j \in Job : Exists(j) <=> j =< n
        /\ \A d \in Client : newId[d] =< n + 1
  BY DEF IInv, DenseInv
<1>2. n + 1 \in Job
  BY <1>1, RoomForJob DEF IInv, TypeOK, EnqueueInsert
<1>3. newId[c] \in 1..(n + 1) /\ NextId = n + 1
  BY <1>1, NextIdFollows, RequestsCounted DEF IInv, TypeOK
<1>4. FreshId(newId[c]) = n + 1
  BY <1>1, <1>2, <1>3, RequestsCounted DEF FreshId, Job
<1> QED
  BY <1>1, <1>2, <1>4

LEMMA OneIsJob == 1 \in Job /\ 1 \in 1..(Cardinality(Request) + 1)
  BY RequestsCounted DEF Job

LEMMA CallHasJob ==
  ASSUME IInv, NEW w \in Worker, pc[w] # "idle"
  PROVE  /\ job[w] \in Job /\ Exists(job[w])
         /\ request[job[w]] \in Request /\ TargetFor(w) \in Target
BY QueueConstants DEF IInv, TypeOK, CallInv, RecordInv, TargetFor

-----------------------------------------------------------------------------
(* Types. *)

LEMMA TypeStep ==
  ASSUME IInv, [Next]_vars
  PROVE  TypeOK'
<1> USE DEF IInv
<1>1. ASSUME NEW c \in Client, NEW r \in Request, EnqueueReadId(c, r) PROVE TypeOK'
  <2>1. NextId \in 1..(Cardinality(Request) + 1)
    BY NextIdFollows, RequestsCounted DEF DenseInv
  <2> QED
    BY <1>1, <2>1 DEF TypeOK, EnqueueReadId, storeVars, diskVars, workerVars
<1>2. ASSUME NEW c \in Client, EnqueueKnown(c) PROVE TypeOK'
  BY <1>2, OneIsJob DEF TypeOK, EnqueueKnown, ClientReturns, storeVars,
       diskVars, workerVars, clientVars, State, PC, Staging
<1>3. ASSUME NEW c \in Client, EnqueueInsert(c) PROVE TypeOK'
  <2>1. FreshId(newId[c]) \in Job
    BY <1>3, InsertIsNext
  <2> QED
    BY <1>3, <2>1, OneIsJob
    DEF TypeOK, EnqueueInsert, ClientReturns, SetState, State, diskVars, workerVars
<1>4. ASSUME NEW c \in Client, EnqueueFails(c) PROVE TypeOK'
  BY <1>4, OneIsJob DEF TypeOK, EnqueueFails, ClientReturns, storeVars,
       diskVars, workerVars, clientVars, State, PC, Staging
<1>5. ASSUME NEW j \in Job, Cancel(j) PROVE TypeOK'
  BY <1>5 DEF TypeOK, Cancel, SetState, storeVars, diskVars, workerVars,
       clientVars, State, PC, Staging
<1>6. ASSUME NEW j \in Job, Retry(j) PROVE TypeOK'
  BY <1>6 DEF TypeOK, Retry, SetState, storeVars, diskVars, workerVars,
       clientVars, State, PC, Staging
<1>7. ASSUME NEW w \in Worker, NEW j \in Job, Execute(w, j) PROVE TypeOK'
  BY <1>7 DEF TypeOK, Execute, Goto, At, storeVars, diskVars, workerVars,
       clientVars, State, PC, Staging
<1>8. ASSUME NEW w \in Worker, Begin(w) PROVE TypeOK'
  BY <1>8 DEF TypeOK, Begin, At, Continue, Raise, Goto, storeVars, diskVars,
       workerVars, clientVars, State, PC, Staging
<1>9. ASSUME NEW w \in Worker, Prepare(w) PROVE TypeOK'
  BY <1>9 DEF TypeOK, Prepare, Advance, SetState, At, Continue, Raise, Goto,
       storeVars, diskVars, workerVars, clientVars, State, PC, Staging
<1>10. ASSUME NEW w \in Worker, OpenSource(w) PROVE TypeOK'
  BY <1>10 DEF TypeOK, OpenSource, At, Continue, Raise, Goto, storeVars,
       diskVars, workerVars, clientVars, State, PC, Staging
<1>11. ASSUME NEW w \in Worker, PrepareStaging(w) PROVE TypeOK'
  BY <1>11 DEF TypeOK, PrepareStaging, At, Continue, Raise, Goto, storeVars,
       diskVars, workerVars, clientVars, State, PC, Staging
<1>12. ASSUME NEW w \in Worker, StartEncoding(w) PROVE TypeOK'
  BY <1>12 DEF TypeOK, StartEncoding, Advance, SetState, At, Continue, Raise,
       Goto, storeVars, diskVars, workerVars, clientVars, State, PC, Staging
<1>13. ASSUME NEW w \in Worker, CreateOutput(w) PROVE TypeOK'
  BY <1>13 DEF TypeOK, CreateOutput, At, Continue, Raise, Goto, storeVars,
       diskVars, workerVars, clientVars, State, PC, Staging
<1>14. ASSUME NEW w \in Worker, CopyOutput(w) PROVE TypeOK'
  <2>1. \E s \in Staging : staging' = [staging EXCEPT ![job[w]] = s]
    BY <1>14 DEF CopyOutput, Staging
  <2>2. pc' \in [Worker -> PC] /\ error' \in [Worker -> {"none", "retryable", "permanent"}]
    BY <1>14 DEF TypeOK, CopyOutput, Continue, Raise, Goto, PC
  <2> QED
    BY <1>14, <2>1, <2>2
    DEF TypeOK, CopyOutput, Continue, Raise, storeVars, clientVars
<1>15. ASSUME NEW w \in Worker, CheckCancelled(w) PROVE TypeOK'
  BY <1>15 DEF TypeOK, CheckCancelled, SeesActive, At, Continue, Raise, Goto,
       storeVars, diskVars, workerVars, clientVars, State, PC, Staging
<1>16. ASSUME NEW w \in Worker, StartCommit(w) PROVE TypeOK'
  BY <1>16 DEF TypeOK, StartCommit, Advance, SetState, At, Continue, Raise,
       Goto, storeVars, diskVars, workerVars, clientVars, State, PC, Staging
<1>17. ASSUME NEW w \in Worker, LookAtTarget(w) PROVE TypeOK'
  BY <1>17 DEF TypeOK, LookAtTarget, At, Continue, Raise, Goto, storeVars,
       diskVars, workerVars, clientVars, State, PC, Staging
<1>18. ASSUME NEW w \in Worker, WriteMarker(w) PROVE TypeOK'
  BY <1>18 DEF TypeOK, WriteMarker, At, Continue, Raise, Goto, storeVars,
       diskVars, workerVars, clientVars, State, PC, Staging
<1>19. ASSUME NEW w \in Worker, Rename(w) PROVE TypeOK'
  <2>1. request[job[w]] \in Request /\ TargetFor(w) \in Target
    BY <1>19, CallHasJob DEF Rename, At
  <2>2. bundle' \in [Target -> [key : Request, content : Staging] \cup {NoBundle}]
    BY <1>19, <2>1 DEF TypeOK, Rename, diskVars
  <2> QED
    BY <1>19, <2>1, <2>2
    DEF TypeOK, Rename, Continue, Raise, Goto, storeVars, diskVars, clientVars, PC, Staging
<1>20. ASSUME NEW w \in Worker, SyncParent(w) PROVE TypeOK'
  <2>1. TargetFor(w) \in Target
    BY <1>20, CallHasJob DEF SyncParent, At
  <2> QED
    BY <1>20, <2>1
    DEF TypeOK, SyncParent, Continue, Raise, Goto, storeVars, clientVars, PC
<1>21. ASSUME NEW w \in Worker, Succeed(w) PROVE TypeOK'
  BY <1>21, OneIsJob DEF TypeOK, Succeed, At, SetState, ReturnCall, Raise,
       Goto, storeVars, diskVars, workerVars, clientVars, State, PC, Staging
<1>22. ASSUME NEW w \in Worker, HandleError(w) PROVE TypeOK'
  BY <1>22, OneIsJob DEF TypeOK, HandleError, At, SeesActive, AttemptsRead,
       MayRetry, ReturnCall, Goto, storeVars, diskVars, workerVars,
       clientVars, State, PC, Staging
<1>23. ASSUME NEW w \in Worker, Fail(w) PROVE TypeOK'
  <2>1. state' \in [Job -> State] /\ attempt' \in [Job -> Nat]
    BY <1>23, CallHasJob DEF TypeOK, Fail, At, SetState, State
  <2> QED
    BY <1>23, <2>1, OneIsJob
    DEF TypeOK, Fail, ReturnCall, Goto, diskVars, clientVars, PC
<1>24. CASE Stop
  <2>1. bundle' \in [Target -> [key : Request, content : Staging] \cup {NoBundle}]
    BY <1>24 DEF TypeOK, Stop
  <2> QED
    BY <1>24, <2>1, OneIsJob DEF TypeOK, Stop, storeVars, PC
<1>25. CASE Start
  BY <1>25 DEF TypeOK, Start, storeVars, diskVars, workerVars, clientVars,
       State, PC, Staging
<1>26. CASE RecoverJob
  BY <1>26 DEF TypeOK, RecoverJob, SetState, storeVars, diskVars, workerVars,
       clientVars, State, PC, Staging
<1>27. CASE OpenFails
  BY <1>27 DEF TypeOK, OpenFails, storeVars, diskVars, workerVars, clientVars,
       State, PC, Staging
<1>28. CASE OpenReturns
  BY <1>28 DEF TypeOK, OpenReturns, storeVars, diskVars, workerVars,
       clientVars, State, PC, Staging
<1>29. CASE UNCHANGED vars
  BY <1>29 DEF TypeOK, vars
<1> QED
  BY <1>1, <1>2, <1>3, <1>4, <1>5, <1>6, <1>7, <1>8, <1>9, <1>10, <1>11,
       <1>12, <1>13, <1>14, <1>15, <1>16, <1>17, <1>18, <1>19, <1>20,
       <1>21, <1>22, <1>23, <1>24, <1>25, <1>26, <1>27, <1>28, <1>29 DEF
       Next, Run

-----------------------------------------------------------------------------
(* Records and index.  Only the two transactions of an enqueue are of        *)
(* interest: every other step leaves the set of jobs alone.                  *)

KeepsJobs ==
  /\ request' = request /\ index' = index /\ \A j \in Job : Exists(j)' <=> Exists(j)
  /\ \A c \in Client : newId'[c] \in {newId[c], 1}

LEMMA RecoverPicks ==
  ASSUME ToRecover # {}
  PROVE  Min(ToRecover) \in Job /\ state[Min(ToRecover)] \in InProcess
<1>1. ToRecover \subseteq Nat
  BY RequestsCounted DEF ToRecover, Job
<1>2. Min(ToRecover) \in ToRecover
  BY <1>1, MinOfNaturals
<1> QED
  BY <1>2 DEF ToRecover

LEMMA KeepsJobsStep ==
  ASSUME TypeOK, [Next]_vars,
         ~(\E c \in Client : EnqueueInsert(c) \/ \E r \in Request : EnqueueReadId(c, r))
  PROVE  KeepsJobs
<1>1. ASSUME NEW c \in Client, EnqueueKnown(c) PROVE KeepsJobs
  BY <1>1 DEF TypeOK, KeepsJobs, Exists, EnqueueKnown, ClientReturns,
       storeVars, workerVars, clientVars
<1>2. ASSUME NEW c \in Client, EnqueueFails(c) PROVE KeepsJobs
  BY <1>2 DEF TypeOK, KeepsJobs, Exists, EnqueueFails, ClientReturns,
       storeVars, workerVars, clientVars
<1>3. ASSUME NEW j \in Job, Cancel(j) PROVE KeepsJobs
  BY <1>3 DEF TypeOK, KeepsJobs, Exists, Cancel, SetState, ValidTransition,
       StateOf, storeVars, workerVars, clientVars
<1>4. ASSUME NEW j \in Job, Retry(j) PROVE KeepsJobs
  BY <1>4 DEF TypeOK, KeepsJobs, Exists, Retry, SetState, ValidTransition,
       StateOf, storeVars, workerVars, clientVars
<1>5. ASSUME NEW w \in Worker, NEW j \in Job, Execute(w, j) PROVE KeepsJobs
  BY <1>5 DEF TypeOK, KeepsJobs, Exists, Execute, Goto, At, storeVars,
       workerVars, clientVars
<1>6. ASSUME NEW w \in Worker, Begin(w) PROVE KeepsJobs
  BY <1>6 DEF TypeOK, KeepsJobs, Exists, Begin, At, Continue, Raise, Goto,
       storeVars, workerVars, clientVars
<1>7. ASSUME NEW w \in Worker, Prepare(w) PROVE KeepsJobs
  BY <1>7 DEF TypeOK, KeepsJobs, Exists, Prepare, Advance, SetState, At,
       Continue, Raise, Goto, ValidTransition, StateOf, storeVars, workerVars,
       clientVars
<1>8. ASSUME NEW w \in Worker, OpenSource(w) PROVE KeepsJobs
  BY <1>8 DEF TypeOK, KeepsJobs, Exists, OpenSource, At, Continue, Raise,
       Goto, storeVars, workerVars, clientVars
<1>9. ASSUME NEW w \in Worker, PrepareStaging(w) PROVE KeepsJobs
  BY <1>9 DEF TypeOK, KeepsJobs, Exists, PrepareStaging, At, Continue, Raise,
       Goto, storeVars, workerVars, clientVars
<1>10. ASSUME NEW w \in Worker, StartEncoding(w) PROVE KeepsJobs
  BY <1>10 DEF TypeOK, KeepsJobs, Exists, StartEncoding, Advance, SetState,
       At, Continue, Raise, Goto, ValidTransition, StateOf, storeVars,
       workerVars, clientVars
<1>11. ASSUME NEW w \in Worker, CreateOutput(w) PROVE KeepsJobs
  BY <1>11 DEF TypeOK, KeepsJobs, Exists, CreateOutput, At, Continue, Raise,
       Goto, storeVars, workerVars, clientVars
<1>12. ASSUME NEW w \in Worker, CopyOutput(w) PROVE KeepsJobs
  BY <1>12 DEF TypeOK, KeepsJobs, Exists, CopyOutput, At, Continue, Raise,
       Goto, storeVars, workerVars, clientVars
<1>13. ASSUME NEW w \in Worker, CheckCancelled(w) PROVE KeepsJobs
  BY <1>13 DEF TypeOK, KeepsJobs, Exists, CheckCancelled, SeesActive, At,
       Continue, Raise, Goto, storeVars, workerVars, clientVars
<1>14. ASSUME NEW w \in Worker, StartCommit(w) PROVE KeepsJobs
  BY <1>14 DEF TypeOK, KeepsJobs, Exists, StartCommit, Advance, SetState, At,
       Continue, Raise, Goto, ValidTransition, StateOf, storeVars, workerVars,
       clientVars
<1>15. ASSUME NEW w \in Worker, LookAtTarget(w) PROVE KeepsJobs
  BY <1>15 DEF TypeOK, KeepsJobs, Exists, LookAtTarget, At, Continue, Raise,
       Goto, storeVars, workerVars, clientVars
<1>16. ASSUME NEW w \in Worker, WriteMarker(w) PROVE KeepsJobs
  BY <1>16 DEF TypeOK, KeepsJobs, Exists, WriteMarker, At, Continue, Raise,
       Goto, storeVars, workerVars, clientVars
<1>17. ASSUME NEW w \in Worker, Rename(w) PROVE KeepsJobs
  BY <1>17 DEF TypeOK, KeepsJobs, Exists, Rename, At, Continue, Raise, Goto,
       storeVars, workerVars, clientVars
<1>18. ASSUME NEW w \in Worker, SyncParent(w) PROVE KeepsJobs
  BY <1>18 DEF TypeOK, KeepsJobs, Exists, SyncParent, At, Continue, Raise,
       Goto, storeVars, workerVars, clientVars
<1>19. ASSUME NEW w \in Worker, Succeed(w) PROVE KeepsJobs
  BY <1>19 DEF TypeOK, KeepsJobs, Exists, Succeed, At, SetState, ReturnCall,
       Raise, Goto, ValidTransition, StateOf, storeVars, workerVars,
       clientVars
<1>20. ASSUME NEW w \in Worker, HandleError(w) PROVE KeepsJobs
  BY <1>20 DEF TypeOK, KeepsJobs, Exists, HandleError, At, SeesActive,
       AttemptsRead, MayRetry, ReturnCall, Goto, storeVars, workerVars,
       clientVars
<1>21. ASSUME NEW w \in Worker, Fail(w) PROVE KeepsJobs
  BY <1>21 DEF TypeOK, KeepsJobs, Exists, Fail, At, ReturnCall, SetState,
       Goto, ValidTransition, StateOf, storeVars, workerVars, clientVars
<1>22. CASE Stop
  BY <1>22 DEF TypeOK, KeepsJobs, Exists, Stop, storeVars, workerVars,
       clientVars
<1>23. CASE Start
  BY <1>23 DEF TypeOK, KeepsJobs, Exists, Start, storeVars, workerVars,
       clientVars
<1>24. CASE RecoverJob
  BY <1>24, RecoverPicks DEF TypeOK, KeepsJobs, Exists, RecoverJob, SetState,
       InProcess, storeVars, workerVars, clientVars
<1>25. CASE OpenFails
  BY <1>25 DEF TypeOK, KeepsJobs, Exists, OpenFails, storeVars, workerVars,
       clientVars
<1>26. CASE OpenReturns
  BY <1>26 DEF TypeOK, KeepsJobs, Exists, OpenReturns, storeVars, workerVars,
       clientVars
<1>27. CASE UNCHANGED vars
  BY <1>27 DEF KeepsJobs, Exists, vars
<1> QED
  BY <1>1, <1>2, <1>3, <1>4, <1>5, <1>6, <1>7, <1>8, <1>9, <1>10, <1>11,
       <1>12, <1>13, <1>14, <1>15, <1>16, <1>17, <1>18, <1>19, <1>20, <1>21,
       <1>22, <1>23, <1>24, <1>25, <1>26, <1>27 DEF Next, Run

LEMMA InsertKeepsIndex ==
  ASSUME TypeOK, IndexAgrees, RecordInv,
         NEW id \in Job, id # 0, ~Exists(id), NEW r \in Request, index[r] = 0,
         request' = [request EXCEPT ![id] = r], index' = [index EXCEPT ![r] = id],
         state' = [state EXCEPT ![id] = "Queued"]
  PROVE  IndexAgrees'
<1>1. ASSUME NEW q \in Request, index'[q] # 0
      PROVE  request'[index'[q]] = q /\ state'[index'[q]] # "None"
  <2>1. CASE q = r
    BY <2>1 DEF TypeOK
  <2>2. CASE q # r
    BY <1>1, <2>2 DEF TypeOK, IndexAgrees, Exists
  <2> QED
    BY <2>1, <2>2
<1>2. ASSUME NEW j \in Job, state'[j] # "None" PROVE index'[request'[j]] = j
  <2>1. CASE j = id
    BY <2>1 DEF TypeOK
  <2>2. CASE j # id
    <3>1. j # 0
      BY RequestsCounted DEF Job
    <3>2. request[j] \in Request /\ index[request[j]] = j /\ request[j] # r
      BY <1>2, <2>2, <3>1 DEF TypeOK, IndexAgrees, RecordInv, Exists
    <3> QED
      BY <2>2, <3>2 DEF TypeOK
  <2> QED
    BY <2>1, <2>2
<1> QED
  BY <1>1, <1>2 DEF IndexAgrees, Exists

LEMMA JobsStep ==
  ASSUME IInv, [Next]_vars
  PROVE  DenseInv' /\ RecordInv' /\ IndexAgrees'
<1>1. ASSUME KeepsJobs PROVE DenseInv' /\ RecordInv' /\ IndexAgrees'
  <2>1. RecordInv' /\ IndexAgrees'
    BY <1>1 DEF IInv, TypeOK, KeepsJobs, RecordInv, IndexAgrees
  <2>2. DenseInv'
    BY <1>1, RequestsCounted DEF IInv, TypeOK, KeepsJobs, DenseInv
  <2> QED
    BY <2>1, <2>2
<1>2. ASSUME NEW c \in Client, NEW r \in Request, EnqueueReadId(c, r)
      PROVE  DenseInv' /\ RecordInv' /\ IndexAgrees'
  <2>1. RecordInv' /\ IndexAgrees'
    BY <1>2 DEF IInv, EnqueueReadId, storeVars, RecordInv, IndexAgrees, Exists
  <2>2. PICK n \in 0..Cardinality(Request) :
          /\ \A j \in Job : Exists(j) <=> j =< n
          /\ \A d \in Client : newId[d] =< n + 1
    BY DEF IInv, DenseInv
  <2>3. \A d \in Client : newId'[d] =< n + 1
    BY <1>2, <2>2, NextIdFollows, RequestsCounted DEF IInv, TypeOK, EnqueueReadId
  <2> QED
    BY <1>2, <2>1, <2>2, <2>3 DEF EnqueueReadId, storeVars, DenseInv, Exists
<1>3. ASSUME NEW c \in Client, EnqueueInsert(c)
      PROVE  DenseInv' /\ RecordInv' /\ IndexAgrees'
  <2>1. PICK n \in 0..Cardinality(Request) :
          /\ \A j \in Job : Exists(j) <=> j =< n
          /\ \A d \in Client : newId[d] =< n + 1
          /\ n + 1 \in Job /\ FreshId(newId[c]) = n + 1
    BY <1>3, InsertIsNext
  <2>2. /\ wants[c] \in Request /\ index[wants[c]] = 0
        /\ request' = [request EXCEPT ![n + 1] = wants[c]]
        /\ index' = [index EXCEPT ![wants[c]] = n + 1]
        /\ state' = [state EXCEPT ![n + 1] = "Queued"]
    BY <1>3, <2>1 DEF IInv, TypeOK, EnqueueInsert, SetState
  <2>3. \A j \in Job : Exists(j)' <=> Exists(j) \/ j = n + 1
    BY <2>1, <2>2 DEF IInv, TypeOK, Exists
  <2>4. RecordInv'
    BY <2>1, <2>2, <2>3 DEF IInv, TypeOK, RecordInv
  <2>5. n + 1 # 0 /\ ~Exists(n + 1)
    BY <2>1, RequestsCounted
  <2>6. IndexAgrees'
    BY <2>1, <2>2, <2>5, InsertKeepsIndex DEF IInv
  <2>7. DenseInv'
    <3>1. n + 1 \in 0..Cardinality(Request) /\ \A j \in Job : Exists(j)' <=> j =< n + 1
      BY <2>1, <2>3, RequestsCounted DEF Job
    <3>2. \A d \in Client : newId'[d] =< n + 2
      BY <1>3, <2>1, RequestsCounted DEF IInv, TypeOK, EnqueueInsert, ClientReturns
    <3> QED
      BY <3>1, <3>2 DEF DenseInv
  <2> QED
    BY <2>4, <2>6, <2>7
<1> QED
  BY <1>1, <1>2, <1>3, KeepsJobsStep DEF IInv

LEMMA InsertElsewhere ==
  ASSUME IInv, NEW c \in Client, EnqueueInsert(c), NEW j \in Job, Exists(j)
  PROVE  state'[j] = state[j] /\ request'[j] = request[j] /\ attempt'[j] = attempt[j]
<1>1. PICK n \in 0..Cardinality(Request) :
        (\A i \in Job : Exists(i) <=> i =< n) /\ FreshId(newId[c]) = n + 1
  BY InsertIsNext
<1>2. j # n + 1
  BY <1>1, RequestsCounted
<1> QED
  BY <1>1, <1>2 DEF IInv, TypeOK, EnqueueInsert, SetState

(* A record, once written, stays, with its request. *)
LEMMA JobsStay ==
  ASSUME IInv, [Next]_vars, NEW j \in Job, Exists(j)
  PROVE  state'[j] # "None" /\ request'[j] = request[j]
<1>1. CASE \E c \in Client : EnqueueInsert(c)
  BY <1>1, InsertElsewhere DEF Exists
<1>2. CASE \E c \in Client, r \in Request : EnqueueReadId(c, r)
  BY <1>2 DEF EnqueueReadId, storeVars, Exists
<1>3. CASE KeepsJobs
  BY <1>3 DEF KeepsJobs, Exists
<1> QED
  BY <1>1, <1>2, <1>3, KeepsJobsStep DEF IInv

-----------------------------------------------------------------------------
(* The calls of execute_copy. *)

LEMMA CallStep ==
  ASSUME IInv, [Next]_vars
  PROVE  CallInv'
<1> USE DEF IInv
<1>a. \A j \in Job : Exists(j) => state'[j] # "None"
  BY JobsStay
<1>1. ASSUME NEW c \in Client, NEW r \in Request, EnqueueReadId(c, r) PROVE CallInv'
  BY <1>1, <1>a DEF TypeOK, CallInv, Exists, EnqueueReadId, storeVars,
       diskVars, workerVars, clientVars
<1>2. ASSUME NEW c \in Client, EnqueueKnown(c) PROVE CallInv'
  BY <1>2, <1>a DEF TypeOK, CallInv, Exists, EnqueueKnown, ClientReturns,
       storeVars, diskVars, workerVars, clientVars
<1>3. ASSUME NEW c \in Client, EnqueueInsert(c) PROVE CallInv'
  BY <1>3, <1>a DEF TypeOK, CallInv, Exists, EnqueueInsert, ClientReturns,
       SetState, ValidTransition, storeVars, diskVars, workerVars, clientVars
<1>4. ASSUME NEW c \in Client, EnqueueFails(c) PROVE CallInv'
  BY <1>4, <1>a DEF TypeOK, CallInv, Exists, EnqueueFails, ClientReturns,
       storeVars, diskVars, workerVars, clientVars
<1>5. ASSUME NEW j \in Job, Cancel(j) PROVE CallInv'
  BY <1>5, <1>a DEF TypeOK, CallInv, Exists, Cancel, SetState,
       ValidTransition, storeVars, diskVars, workerVars, clientVars
<1>6. ASSUME NEW j \in Job, Retry(j) PROVE CallInv'
  BY <1>6, <1>a DEF TypeOK, CallInv, Exists, Retry, SetState, ValidTransition,
       storeVars, diskVars, workerVars, clientVars
<1>7. ASSUME NEW w \in Worker, NEW j \in Job, Execute(w, j) PROVE CallInv'
  BY <1>7, <1>a DEF TypeOK, CallInv, Exists, Execute, Goto, At, storeVars,
       diskVars, workerVars, clientVars
<1>8. ASSUME NEW w \in Worker, Begin(w) PROVE CallInv'
  BY <1>8, <1>a DEF TypeOK, CallInv, Exists, Begin, At, Continue, Raise, Goto,
       storeVars, diskVars, workerVars, clientVars
<1>9. ASSUME NEW w \in Worker, Prepare(w) PROVE CallInv'
  BY <1>9, <1>a DEF TypeOK, CallInv, Exists, Prepare, Advance, SetState, At,
       Continue, Raise, Goto, ValidTransition, storeVars, diskVars,
       workerVars, clientVars
<1>10. ASSUME NEW w \in Worker, OpenSource(w) PROVE CallInv'
  BY <1>10, <1>a DEF TypeOK, CallInv, Exists, OpenSource, At, Continue, Raise,
       Goto, storeVars, diskVars, workerVars, clientVars
<1>11. ASSUME NEW w \in Worker, PrepareStaging(w) PROVE CallInv'
  BY <1>11, <1>a DEF TypeOK, CallInv, Exists, PrepareStaging, At, Continue,
       Raise, Goto, storeVars, diskVars, workerVars, clientVars
<1>12. ASSUME NEW w \in Worker, StartEncoding(w) PROVE CallInv'
  BY <1>12, <1>a DEF TypeOK, CallInv, Exists, StartEncoding, Advance,
       SetState, At, Continue, Raise, Goto, ValidTransition, storeVars,
       diskVars, workerVars, clientVars
<1>13. ASSUME NEW w \in Worker, CreateOutput(w) PROVE CallInv'
  BY <1>13, <1>a DEF TypeOK, CallInv, Exists, CreateOutput, At, Continue,
       Raise, Goto, storeVars, diskVars, workerVars, clientVars
<1>14. ASSUME NEW w \in Worker, CopyOutput(w) PROVE CallInv'
  BY <1>14, <1>a DEF TypeOK, CallInv, Exists, CopyOutput, At, Continue, Raise,
       Goto, storeVars, diskVars, workerVars, clientVars
<1>15. ASSUME NEW w \in Worker, CheckCancelled(w) PROVE CallInv'
  BY <1>15, <1>a DEF TypeOK, CallInv, Exists, CheckCancelled, SeesActive, At,
       Continue, Raise, Goto, storeVars, diskVars, workerVars, clientVars
<1>16. ASSUME NEW w \in Worker, StartCommit(w) PROVE CallInv'
  BY <1>16, <1>a DEF TypeOK, CallInv, Exists, StartCommit, Advance, SetState,
       At, Continue, Raise, Goto, ValidTransition, storeVars, diskVars,
       workerVars, clientVars
<1>17. ASSUME NEW w \in Worker, LookAtTarget(w) PROVE CallInv'
  BY <1>17, <1>a DEF TypeOK, CallInv, Exists, LookAtTarget, At, Continue,
       Raise, Goto, storeVars, diskVars, workerVars, clientVars
<1>18. ASSUME NEW w \in Worker, WriteMarker(w) PROVE CallInv'
  BY <1>18, <1>a DEF TypeOK, CallInv, Exists, WriteMarker, At, Continue,
       Raise, Goto, storeVars, diskVars, workerVars, clientVars
<1>19. ASSUME NEW w \in Worker, Rename(w) PROVE CallInv'
  BY <1>19, <1>a DEF TypeOK, CallInv, Exists, Rename, At, Continue, Raise,
       Goto, storeVars, diskVars, workerVars, clientVars
<1>20. ASSUME NEW w \in Worker, SyncParent(w) PROVE CallInv'
  BY <1>20, <1>a DEF TypeOK, CallInv, Exists, SyncParent, At, Continue, Raise,
       Goto, storeVars, diskVars, workerVars, clientVars
<1>21. ASSUME NEW w \in Worker, Succeed(w) PROVE CallInv'
  BY <1>21, <1>a DEF TypeOK, CallInv, Exists, Succeed, At, SetState,
       ReturnCall, Raise, Goto, ValidTransition, storeVars, diskVars,
       workerVars, clientVars
<1>22. ASSUME NEW w \in Worker, HandleError(w) PROVE CallInv'
  BY <1>22, <1>a DEF TypeOK, CallInv, Exists, HandleError, At, SeesActive,
       AttemptsRead, MayRetry, ReturnCall, Goto, storeVars, diskVars,
       workerVars, clientVars
<1>23. ASSUME NEW w \in Worker, Fail(w) PROVE CallInv'
  BY <1>23, <1>a DEF TypeOK, CallInv, Exists, Fail, At, ReturnCall, SetState,
       Goto, ValidTransition, storeVars, diskVars, workerVars, clientVars
<1>24. CASE Stop
  BY <1>24, <1>a DEF TypeOK, CallInv, Exists, Stop, storeVars, diskVars,
       workerVars, clientVars
<1>25. CASE Start
  BY <1>25, <1>a DEF TypeOK, CallInv, Exists, Start, storeVars, diskVars,
       workerVars, clientVars
<1>26. CASE RecoverJob
  BY <1>26, <1>a DEF TypeOK, CallInv, Exists, RecoverJob, SetState,
       ValidTransition, storeVars, diskVars, workerVars, clientVars
<1>27. CASE OpenFails
  BY <1>27, <1>a DEF TypeOK, CallInv, Exists, OpenFails, storeVars, diskVars,
       workerVars, clientVars
<1>28. CASE OpenReturns
  BY <1>28, <1>a DEF TypeOK, CallInv, Exists, OpenReturns, storeVars,
       diskVars, workerVars, clientVars
<1>29. CASE UNCHANGED vars
  BY <1>29, <1>a DEF TypeOK, CallInv, Exists, vars
<1> QED
  BY <1>1, <1>2, <1>3, <1>4, <1>5, <1>6, <1>7, <1>8, <1>9, <1>10, <1>11,
       <1>12, <1>13, <1>14, <1>15, <1>16, <1>17, <1>18, <1>19, <1>20,
       <1>21, <1>22, <1>23, <1>24, <1>25, <1>26, <1>27, <1>28, <1>29 DEF
       Next, Run

LEMMA OwnerStep ==
  ASSUME IInv, [Next]_vars
  PROVE  OwnerInv'
<1> USE DEF IInv
<1>1. ASSUME NEW c \in Client, NEW r \in Request, EnqueueReadId(c, r) PROVE OwnerInv'
  BY <1>1 DEF TypeOK, OwnerInv, CallInv, Owns, Claimed, Committed, StateOf,
       InProcess, EnqueueReadId, storeVars, diskVars, workerVars, clientVars
<1>2. ASSUME NEW c \in Client, EnqueueKnown(c) PROVE OwnerInv'
  BY <1>2 DEF TypeOK, OwnerInv, CallInv, Owns, Claimed, Committed, StateOf,
       InProcess, EnqueueKnown, ClientReturns, storeVars, diskVars,
       workerVars, clientVars
<1>3. ASSUME NEW c \in Client, EnqueueInsert(c) PROVE OwnerInv'
  <2>1. \A w \in Worker : pc[w] # "idle" => state'[job[w]] = state[job[w]]
    BY <1>3, CallHasJob, InsertElsewhere
  <2> QED
    BY <1>3, <2>1 DEF TypeOK, OwnerInv, Owns, Claimed, Committed, StateOf, InProcess,
         EnqueueInsert, workerVars
<1>4. ASSUME NEW c \in Client, EnqueueFails(c) PROVE OwnerInv'
  BY <1>4 DEF TypeOK, OwnerInv, CallInv, Owns, Claimed, Committed, StateOf,
       InProcess, EnqueueFails, ClientReturns, storeVars, diskVars,
       workerVars, clientVars
<1>5. ASSUME NEW j \in Job, Cancel(j) PROVE OwnerInv'
  BY <1>5 DEF TypeOK, OwnerInv, CallInv, Owns, Claimed, Committed, StateOf,
       InProcess, Cancel, SetState, ValidTransition, storeVars, diskVars,
       workerVars, clientVars
<1>6. ASSUME NEW j \in Job, Retry(j) PROVE OwnerInv'
  BY <1>6 DEF TypeOK, OwnerInv, CallInv, Owns, Claimed, Committed, StateOf,
       InProcess, Retry, SetState, ValidTransition, storeVars, diskVars,
       workerVars, clientVars
<1>7. ASSUME NEW w \in Worker, NEW j \in Job, Execute(w, j) PROVE OwnerInv'
  BY <1>7 DEF TypeOK, OwnerInv, CallInv, Owns, Claimed, Committed, StateOf,
       InProcess, Execute, Goto, At, storeVars, diskVars, workerVars,
       clientVars
<1>8. ASSUME NEW w \in Worker, Begin(w) PROVE OwnerInv'
  BY <1>8 DEF TypeOK, OwnerInv, CallInv, Owns, Claimed, Committed, StateOf,
       InProcess, Begin, At, Continue, Raise, Goto, storeVars, diskVars,
       workerVars, clientVars
<1>9. ASSUME NEW w \in Worker, Prepare(w) PROVE OwnerInv'
  BY <1>9 DEF TypeOK, OwnerInv, CallInv, Owns, Claimed, Committed, StateOf,
       InProcess, Prepare, Advance, SetState, At, Continue, Raise, Goto,
       ValidTransition, storeVars, diskVars, workerVars, clientVars
<1>10. ASSUME NEW w \in Worker, OpenSource(w) PROVE OwnerInv'
  BY <1>10 DEF TypeOK, OwnerInv, CallInv, Owns, Claimed, Committed, StateOf,
       InProcess, OpenSource, At, Continue, Raise, Goto, storeVars, diskVars,
       workerVars, clientVars
<1>11. ASSUME NEW w \in Worker, PrepareStaging(w) PROVE OwnerInv'
  BY <1>11 DEF TypeOK, OwnerInv, CallInv, Owns, Claimed, Committed, StateOf,
       InProcess, PrepareStaging, At, Continue, Raise, Goto, storeVars,
       diskVars, workerVars, clientVars
<1>12. ASSUME NEW w \in Worker, StartEncoding(w) PROVE OwnerInv'
  BY <1>12 DEF TypeOK, OwnerInv, CallInv, Owns, Claimed, Committed, StateOf,
       InProcess, StartEncoding, Advance, SetState, At, Continue, Raise, Goto,
       ValidTransition, storeVars, diskVars, workerVars, clientVars
<1>13. ASSUME NEW w \in Worker, CreateOutput(w) PROVE OwnerInv'
  BY <1>13 DEF TypeOK, OwnerInv, CallInv, Owns, Claimed, Committed, StateOf,
       InProcess, CreateOutput, At, Continue, Raise, Goto, storeVars,
       diskVars, workerVars, clientVars
<1>14. ASSUME NEW w \in Worker, CopyOutput(w) PROVE OwnerInv'
  BY <1>14 DEF TypeOK, OwnerInv, CallInv, Owns, Claimed, Committed, StateOf,
       InProcess, CopyOutput, At, Continue, Raise, Goto, storeVars, diskVars,
       workerVars, clientVars
<1>15. ASSUME NEW w \in Worker, CheckCancelled(w) PROVE OwnerInv'
  BY <1>15 DEF TypeOK, OwnerInv, CallInv, Owns, Claimed, Committed, StateOf,
       InProcess, CheckCancelled, SeesActive, At, Continue, Raise, Goto,
       storeVars, diskVars, workerVars, clientVars
<1>16. ASSUME NEW w \in Worker, StartCommit(w) PROVE OwnerInv'
  BY <1>16 DEF TypeOK, OwnerInv, CallInv, Owns, Claimed, Committed, StateOf,
       InProcess, StartCommit, Advance, SetState, At, Continue, Raise, Goto,
       ValidTransition, storeVars, diskVars, workerVars, clientVars
<1>17. ASSUME NEW w \in Worker, LookAtTarget(w) PROVE OwnerInv'
  BY <1>17 DEF TypeOK, OwnerInv, CallInv, Owns, Claimed, Committed, StateOf,
       InProcess, LookAtTarget, At, Continue, Raise, Goto, storeVars,
       diskVars, workerVars, clientVars
<1>18. ASSUME NEW w \in Worker, WriteMarker(w) PROVE OwnerInv'
  BY <1>18 DEF TypeOK, OwnerInv, CallInv, Owns, Claimed, Committed, StateOf,
       InProcess, WriteMarker, At, Continue, Raise, Goto, storeVars, diskVars,
       workerVars, clientVars
<1>19. ASSUME NEW w \in Worker, Rename(w) PROVE OwnerInv'
  BY <1>19 DEF TypeOK, OwnerInv, CallInv, Owns, Claimed, Committed, StateOf,
       InProcess, Rename, At, Continue, Raise, Goto, storeVars, diskVars,
       workerVars, clientVars
<1>20. ASSUME NEW w \in Worker, SyncParent(w) PROVE OwnerInv'
  BY <1>20 DEF TypeOK, OwnerInv, CallInv, Owns, Claimed, Committed, StateOf,
       InProcess, SyncParent, At, Continue, Raise, Goto, storeVars, diskVars,
       workerVars, clientVars
<1>21. ASSUME NEW w \in Worker, Succeed(w) PROVE OwnerInv'
  BY <1>21 DEF TypeOK, OwnerInv, CallInv, Owns, Claimed, Committed, StateOf,
       InProcess, Succeed, At, SetState, ReturnCall, Raise, Goto,
       ValidTransition, storeVars, diskVars, workerVars, clientVars
<1>22. ASSUME NEW w \in Worker, HandleError(w) PROVE OwnerInv'
  BY <1>22 DEF TypeOK, OwnerInv, CallInv, Owns, Claimed, Committed, StateOf,
       InProcess, HandleError, At, SeesActive, AttemptsRead, MayRetry,
       ReturnCall, Goto, storeVars, diskVars, workerVars, clientVars
<1>23. ASSUME NEW w \in Worker, Fail(w) PROVE OwnerInv'
  BY <1>23 DEF TypeOK, OwnerInv, CallInv, Owns, Claimed, Committed, StateOf,
       InProcess, Fail, At, ReturnCall, SetState, Goto, ValidTransition,
       storeVars, diskVars, workerVars, clientVars
<1>24. CASE Stop
  BY <1>24 DEF TypeOK, OwnerInv, CallInv, Owns, Claimed, Committed, StateOf,
       InProcess, Stop, storeVars, diskVars, workerVars, clientVars
<1>25. CASE Start
  BY <1>25 DEF TypeOK, OwnerInv, CallInv, Owns, Claimed, Committed, StateOf,
       InProcess, Start, storeVars, diskVars, workerVars, clientVars
<1>26. CASE RecoverJob
  BY <1>26 DEF TypeOK, OwnerInv, CallInv, Owns, Claimed, Committed, StateOf,
       InProcess, RecoverJob, SetState, ValidTransition, storeVars, diskVars,
       workerVars, clientVars
<1>27. CASE OpenFails
  BY <1>27 DEF TypeOK, OwnerInv, CallInv, Owns, Claimed, Committed, StateOf,
       InProcess, OpenFails, storeVars, diskVars, workerVars, clientVars
<1>28. CASE OpenReturns
  BY <1>28 DEF TypeOK, OwnerInv, CallInv, Owns, Claimed, Committed, StateOf,
       InProcess, OpenReturns, storeVars, diskVars, workerVars, clientVars
<1>29. CASE UNCHANGED vars
  BY <1>29 DEF TypeOK, OwnerInv, CallInv, Owns, Claimed, Committed, StateOf,
       InProcess, vars
<1> QED
  BY <1>1, <1>2, <1>3, <1>4, <1>5, <1>6, <1>7, <1>8, <1>9, <1>10, <1>11,
       <1>12, <1>13, <1>14, <1>15, <1>16, <1>17, <1>18, <1>19, <1>20,
       <1>21, <1>22, <1>23, <1>24, <1>25, <1>26, <1>27, <1>28, <1>29 DEF
       Next, Run

LEMMA CommitStep ==
  ASSUME IInv, [Next]_vars
  PROVE  CommitInv'
<1> USE DEF IInv
<1>1. ASSUME NEW c \in Client, NEW r \in Request, EnqueueReadId(c, r) PROVE CommitInv'
  BY <1>1 DEF TypeOK, OwnerInv, CallInv, CommitInv, Owns, Claimed, Committed,
       StateOf, EnqueueReadId, storeVars, diskVars, workerVars, clientVars
<1>2. ASSUME NEW c \in Client, EnqueueKnown(c) PROVE CommitInv'
  BY <1>2 DEF TypeOK, OwnerInv, CallInv, CommitInv, Owns, Claimed, Committed,
       StateOf, EnqueueKnown, ClientReturns, storeVars, diskVars, workerVars,
       clientVars
<1>3. ASSUME NEW c \in Client, EnqueueInsert(c) PROVE CommitInv'
  <2>1. \A w \in Worker : pc[w] # "idle" => state'[job[w]] = state[job[w]]
    BY <1>3, CallHasJob, InsertElsewhere
  <2> QED
    BY <1>3, <2>1 DEF TypeOK, CommitInv, Committed, StateOf, EnqueueInsert, workerVars
<1>4. ASSUME NEW c \in Client, EnqueueFails(c) PROVE CommitInv'
  BY <1>4 DEF TypeOK, OwnerInv, CallInv, CommitInv, Owns, Claimed, Committed,
       StateOf, EnqueueFails, ClientReturns, storeVars, diskVars, workerVars,
       clientVars
<1>5. ASSUME NEW j \in Job, Cancel(j) PROVE CommitInv'
  BY <1>5 DEF TypeOK, OwnerInv, CallInv, CommitInv, Owns, Claimed, Committed,
       StateOf, Cancel, SetState, ValidTransition, storeVars, diskVars,
       workerVars, clientVars
<1>6. ASSUME NEW j \in Job, Retry(j) PROVE CommitInv'
  BY <1>6 DEF TypeOK, OwnerInv, CallInv, CommitInv, Owns, Claimed, Committed,
       StateOf, Retry, SetState, ValidTransition, storeVars, diskVars,
       workerVars, clientVars
<1>7. ASSUME NEW w \in Worker, NEW j \in Job, Execute(w, j) PROVE CommitInv'
  BY <1>7 DEF TypeOK, OwnerInv, CallInv, CommitInv, Owns, Claimed, Committed,
       StateOf, Execute, Goto, At, storeVars, diskVars, workerVars, clientVars
<1>8. ASSUME NEW w \in Worker, Begin(w) PROVE CommitInv'
  BY <1>8 DEF TypeOK, OwnerInv, CallInv, CommitInv, Owns, Claimed, Committed,
       StateOf, Begin, At, Continue, Raise, Goto, storeVars, diskVars,
       workerVars, clientVars
<1>9. ASSUME NEW w \in Worker, Prepare(w) PROVE CommitInv'
  BY <1>9 DEF TypeOK, OwnerInv, CallInv, CommitInv, Owns, Claimed, Committed,
       StateOf, Prepare, Advance, SetState, At, Continue, Raise, Goto,
       ValidTransition, storeVars, diskVars, workerVars, clientVars
<1>10. ASSUME NEW w \in Worker, OpenSource(w) PROVE CommitInv'
  BY <1>10 DEF TypeOK, OwnerInv, CallInv, CommitInv, Owns, Claimed, Committed,
       StateOf, OpenSource, At, Continue, Raise, Goto, storeVars, diskVars,
       workerVars, clientVars
<1>11. ASSUME NEW w \in Worker, PrepareStaging(w) PROVE CommitInv'
  BY <1>11 DEF TypeOK, OwnerInv, CallInv, CommitInv, Owns, Claimed, Committed,
       StateOf, PrepareStaging, At, Continue, Raise, Goto, storeVars,
       diskVars, workerVars, clientVars
<1>12. ASSUME NEW w \in Worker, StartEncoding(w) PROVE CommitInv'
  BY <1>12 DEF TypeOK, OwnerInv, CallInv, CommitInv, Owns, Claimed, Committed,
       StateOf, StartEncoding, Advance, SetState, At, Continue, Raise, Goto,
       ValidTransition, storeVars, diskVars, workerVars, clientVars
<1>13. ASSUME NEW w \in Worker, CreateOutput(w) PROVE CommitInv'
  BY <1>13 DEF TypeOK, OwnerInv, CallInv, CommitInv, Owns, Claimed, Committed,
       StateOf, CreateOutput, At, Continue, Raise, Goto, storeVars, diskVars,
       workerVars, clientVars
<1>14. ASSUME NEW w \in Worker, CopyOutput(w) PROVE CommitInv'
  BY <1>14 DEF TypeOK, OwnerInv, CallInv, CommitInv, Owns, Claimed, Committed,
       StateOf, CopyOutput, At, Continue, Raise, Goto, storeVars, diskVars,
       workerVars, clientVars
<1>15. ASSUME NEW w \in Worker, CheckCancelled(w) PROVE CommitInv'
  BY <1>15 DEF TypeOK, OwnerInv, CallInv, CommitInv, Owns, Claimed, Committed,
       StateOf, CheckCancelled, SeesActive, At, Continue, Raise, Goto,
       storeVars, diskVars, workerVars, clientVars
<1>16. ASSUME NEW w \in Worker, StartCommit(w) PROVE CommitInv'
  BY <1>16 DEF TypeOK, OwnerInv, CallInv, CommitInv, Owns, Claimed, Committed,
       StateOf, StartCommit, Advance, SetState, At, Continue, Raise, Goto,
       ValidTransition, storeVars, diskVars, workerVars, clientVars
<1>17. ASSUME NEW w \in Worker, LookAtTarget(w) PROVE CommitInv'
  BY <1>17 DEF TypeOK, OwnerInv, CallInv, CommitInv, Owns, Claimed, Committed,
       StateOf, LookAtTarget, At, Continue, Raise, Goto, storeVars, diskVars,
       workerVars, clientVars
<1>18. ASSUME NEW w \in Worker, WriteMarker(w) PROVE CommitInv'
  BY <1>18 DEF TypeOK, OwnerInv, CallInv, CommitInv, Owns, Claimed, Committed,
       StateOf, WriteMarker, At, Continue, Raise, Goto, storeVars, diskVars,
       workerVars, clientVars
<1>19. ASSUME NEW w \in Worker, Rename(w) PROVE CommitInv'
  BY <1>19 DEF TypeOK, OwnerInv, CallInv, CommitInv, Owns, Claimed, Committed,
       StateOf, Rename, At, Continue, Raise, Goto, storeVars, diskVars,
       workerVars, clientVars
<1>20. ASSUME NEW w \in Worker, SyncParent(w) PROVE CommitInv'
  BY <1>20 DEF TypeOK, OwnerInv, CallInv, CommitInv, Owns, Claimed, Committed,
       StateOf, SyncParent, At, Continue, Raise, Goto, storeVars, diskVars,
       workerVars, clientVars
<1>21. ASSUME NEW w \in Worker, Succeed(w) PROVE CommitInv'
  BY <1>21 DEF TypeOK, OwnerInv, CallInv, CommitInv, Owns, Claimed, Committed,
       StateOf, Succeed, At, SetState, ReturnCall, Raise, Goto,
       ValidTransition, storeVars, diskVars, workerVars, clientVars
<1>22. ASSUME NEW w \in Worker, HandleError(w) PROVE CommitInv'
  BY <1>22 DEF TypeOK, OwnerInv, CallInv, CommitInv, Owns, Claimed, Committed,
       StateOf, HandleError, At, SeesActive, AttemptsRead, MayRetry,
       ReturnCall, Goto, storeVars, diskVars, workerVars, clientVars
<1>23. ASSUME NEW w \in Worker, Fail(w) PROVE CommitInv'
  BY <1>23 DEF TypeOK, OwnerInv, CallInv, CommitInv, Owns, Claimed, Committed,
       StateOf, Fail, At, ReturnCall, SetState, Goto, ValidTransition,
       storeVars, diskVars, workerVars, clientVars
<1>24. CASE Stop
  BY <1>24 DEF TypeOK, OwnerInv, CallInv, CommitInv, Owns, Claimed, Committed,
       StateOf, Stop, storeVars, diskVars, workerVars, clientVars
<1>25. CASE Start
  BY <1>25 DEF TypeOK, OwnerInv, CallInv, CommitInv, Owns, Claimed, Committed,
       StateOf, Start, storeVars, diskVars, workerVars, clientVars
<1>26. CASE RecoverJob
  BY <1>26 DEF TypeOK, OwnerInv, CallInv, CommitInv, Owns, Claimed, Committed,
       StateOf, RecoverJob, SetState, ValidTransition, storeVars, diskVars,
       workerVars, clientVars
<1>27. CASE OpenFails
  BY <1>27 DEF TypeOK, OwnerInv, CallInv, CommitInv, Owns, Claimed, Committed,
       StateOf, OpenFails, storeVars, diskVars, workerVars, clientVars
<1>28. CASE OpenReturns
  BY <1>28 DEF TypeOK, OwnerInv, CallInv, CommitInv, Owns, Claimed, Committed,
       StateOf, OpenReturns, storeVars, diskVars, workerVars, clientVars
<1>29. CASE UNCHANGED vars
  BY <1>29 DEF TypeOK, OwnerInv, CallInv, CommitInv, Owns, Claimed, Committed,
       StateOf, vars
<1> QED
  BY <1>1, <1>2, <1>3, <1>4, <1>5, <1>6, <1>7, <1>8, <1>9, <1>10, <1>11,
       <1>12, <1>13, <1>14, <1>15, <1>16, <1>17, <1>18, <1>19, <1>20,
       <1>21, <1>22, <1>23, <1>24, <1>25, <1>26, <1>27, <1>28, <1>29 DEF
       Next, Run

LEMMA FilesStep ==
  ASSUME IInv, [Next]_vars
  PROVE  FilesInv'
<1> USE DEF IInv
<1>1. ASSUME NEW c \in Client, NEW r \in Request, EnqueueReadId(c, r) PROVE FilesInv'
  BY <1>1 DEF TypeOK, FilesInv, OwnerInv, CallInv, Owns, Claimed, Committed,
       TargetFor, EnqueueReadId, storeVars, diskVars, workerVars, clientVars
<1>2. ASSUME NEW c \in Client, EnqueueKnown(c) PROVE FilesInv'
  BY <1>2 DEF TypeOK, FilesInv, OwnerInv, CallInv, Owns, Claimed, Committed,
       TargetFor, EnqueueKnown, ClientReturns, storeVars, diskVars,
       workerVars, clientVars
<1>3. ASSUME NEW c \in Client, EnqueueInsert(c) PROVE FilesInv'
  <2>1. \A w \in Worker : pc[w] # "idle" => request'[job[w]] = request[job[w]]
    BY <1>3, CallHasJob, InsertElsewhere
  <2> QED
    BY <1>3, <2>1 DEF TypeOK, FilesInv, TargetFor, EnqueueInsert, workerVars, diskVars
<1>4. ASSUME NEW c \in Client, EnqueueFails(c) PROVE FilesInv'
  BY <1>4 DEF TypeOK, FilesInv, OwnerInv, CallInv, Owns, Claimed, Committed,
       TargetFor, EnqueueFails, ClientReturns, storeVars, diskVars,
       workerVars, clientVars
<1>5. ASSUME NEW j \in Job, Cancel(j) PROVE FilesInv'
  BY <1>5 DEF TypeOK, FilesInv, OwnerInv, CallInv, Owns, Claimed, Committed,
       TargetFor, Cancel, SetState, ValidTransition, storeVars, diskVars,
       workerVars, clientVars
<1>6. ASSUME NEW j \in Job, Retry(j) PROVE FilesInv'
  BY <1>6 DEF TypeOK, FilesInv, OwnerInv, CallInv, Owns, Claimed, Committed,
       TargetFor, Retry, SetState, ValidTransition, storeVars, diskVars,
       workerVars, clientVars
<1>7. ASSUME NEW w \in Worker, NEW j \in Job, Execute(w, j) PROVE FilesInv'
  BY <1>7 DEF TypeOK, FilesInv, OwnerInv, CallInv, Owns, Claimed, Committed,
       TargetFor, Execute, Goto, At, storeVars, diskVars, workerVars,
       clientVars
<1>8. ASSUME NEW w \in Worker, Begin(w) PROVE FilesInv'
  BY <1>8 DEF TypeOK, FilesInv, OwnerInv, CallInv, Owns, Claimed, Committed,
       TargetFor, Begin, At, Continue, Raise, Goto, storeVars, diskVars,
       workerVars, clientVars
<1>9. ASSUME NEW w \in Worker, Prepare(w) PROVE FilesInv'
  BY <1>9 DEF TypeOK, FilesInv, OwnerInv, CallInv, Owns, Claimed, Committed,
       TargetFor, Prepare, Advance, SetState, At, Continue, Raise, Goto,
       ValidTransition, storeVars, diskVars, workerVars, clientVars
<1>10. ASSUME NEW w \in Worker, OpenSource(w) PROVE FilesInv'
  BY <1>10 DEF TypeOK, FilesInv, OwnerInv, CallInv, Owns, Claimed, Committed,
       TargetFor, OpenSource, At, Continue, Raise, Goto, storeVars, diskVars,
       workerVars, clientVars
<1>11. ASSUME NEW w \in Worker, PrepareStaging(w) PROVE FilesInv'
  BY <1>11 DEF TypeOK, FilesInv, OwnerInv, CallInv, Owns, Claimed, Committed,
       TargetFor, PrepareStaging, At, Continue, Raise, Goto, storeVars,
       diskVars, workerVars, clientVars
<1>12. ASSUME NEW w \in Worker, StartEncoding(w) PROVE FilesInv'
  BY <1>12 DEF TypeOK, FilesInv, OwnerInv, CallInv, Owns, Claimed, Committed,
       TargetFor, StartEncoding, Advance, SetState, At, Continue, Raise, Goto,
       ValidTransition, storeVars, diskVars, workerVars, clientVars
<1>13. ASSUME NEW w \in Worker, CreateOutput(w) PROVE FilesInv'
  BY <1>13 DEF TypeOK, FilesInv, OwnerInv, CallInv, Owns, Claimed, Committed,
       TargetFor, CreateOutput, At, Continue, Raise, Goto, storeVars,
       diskVars, workerVars, clientVars
<1>14. ASSUME NEW w \in Worker, CopyOutput(w) PROVE FilesInv'
  BY <1>14 DEF TypeOK, FilesInv, OwnerInv, CallInv, Owns, Claimed, Committed,
       TargetFor, CopyOutput, At, Continue, Raise, Goto, storeVars, diskVars,
       workerVars, clientVars
<1>15. ASSUME NEW w \in Worker, CheckCancelled(w) PROVE FilesInv'
  BY <1>15 DEF TypeOK, FilesInv, OwnerInv, CallInv, Owns, Claimed, Committed,
       TargetFor, CheckCancelled, SeesActive, At, Continue, Raise, Goto,
       storeVars, diskVars, workerVars, clientVars
<1>16. ASSUME NEW w \in Worker, StartCommit(w) PROVE FilesInv'
  BY <1>16 DEF TypeOK, FilesInv, OwnerInv, CallInv, Owns, Claimed, Committed,
       TargetFor, StartCommit, Advance, SetState, At, Continue, Raise, Goto,
       ValidTransition, storeVars, diskVars, workerVars, clientVars
<1>17. ASSUME NEW w \in Worker, LookAtTarget(w) PROVE FilesInv'
  <2> DEFINE there == bundle[TargetFor(w)]
  <2>1. CASE there # NoBundle /\ SameKey(there, w) /\ Continue(w, "succeed")
    <3>1. TargetFor(w) \in Target
      BY <1>17, CallHasJob DEF LookAtTarget, At
    <3>2. there = [key |-> request[job[w]], content |-> "marked"]
      BY <2>1, <3>1 DEF TypeOK, FilesInv, SameKey
    <3> QED
      BY <1>17, <2>1, <3>2
      DEF TypeOK, FilesInv, LookAtTarget, Continue, Goto, TargetFor, storeVars, diskVars
  <2>2. CASE Continue(w, "mark") \/ Raise(w, "permanent")
    BY <1>17, <2>2
    DEF TypeOK, FilesInv, LookAtTarget, Continue, Raise, Goto, TargetFor, storeVars, diskVars
  <2> QED
    BY <1>17, <2>1, <2>2 DEF LookAtTarget
<1>18. ASSUME NEW w \in Worker, WriteMarker(w) PROVE FilesInv'
  BY <1>18 DEF TypeOK, FilesInv, OwnerInv, CallInv, Owns, Claimed, Committed,
       TargetFor, WriteMarker, At, Continue, Raise, Goto, storeVars, diskVars,
       workerVars, clientVars
<1>19. ASSUME NEW w \in Worker, Rename(w) PROVE FilesInv'
  <2> DEFINE g == TargetFor(w)
  <2> DEFINE new == [key |-> request[job[w]], content |-> staging[job[w]]]
  <2>1. CASE Raise(w, "retryable") /\ UNCHANGED diskVars
    BY <1>19, <2>1 DEF TypeOK, FilesInv, Rename, Raise, Goto, TargetFor, storeVars, diskVars
  <2>2. CASE /\ bundle[g] = NoBundle /\ bundle' = [bundle EXCEPT ![g] = new]
             /\ staging' = [staging EXCEPT ![job[w]] = "absent"] /\ Continue(w, "sync")
    <3>1. /\ g \in Target /\ request[job[w]] \in Request /\ pc[w] = "rename"
          /\ staging[job[w]] = "marked"
      BY <1>19, CallHasJob DEF Rename, At, FilesInv
    <3>2. \A h \in Target : bundle'[h] # NoBundle => bundle'[h].content = "marked"
      BY <2>2, <3>1 DEF TypeOK, FilesInv
    <3>3. \A v \in Worker : pc'[v] = "rename" => staging'[job'[v]] = "marked"
      BY <2>2, <3>1 DEF TypeOK, FilesInv, OwnerInv, Owns, Claimed, Committed, Continue, Goto
    <3>4. ASSUME NEW v \in Worker, pc'[v] \in {"sync", "succeed"}
          PROVE  bundle'[TargetFor(v)] = [key |-> request[job[v]], content |-> "marked"]
      <4>1. CASE v = w
        BY <2>2, <3>1, <4>1 DEF TypeOK
      <4>2. CASE v # w
        <5>1. /\ pc[v] \in {"sync", "succeed"} /\ TargetFor(v) \in Target
              /\ request[job[v]] \in Request
          BY <2>2, <3>4, <4>2, CallHasJob DEF TypeOK, Continue, Goto
        <5>2. bundle[TargetFor(v)] = [key |-> request[job[v]], content |-> "marked"]
          BY <5>1 DEF FilesInv
        <5>3. bundle[TargetFor(v)] # NoBundle
          BY <5>1, <5>2, QueueConstants DEF Staging
        <5>4. TargetFor(v) # g
          BY <2>2, <5>3, QueueConstants
        <5> QED
          BY <2>2, <5>1, <5>2, <5>4 DEF TypeOK
      <4> QED
        BY <4>1, <4>2
    <3> QED
      BY <1>19, <2>2, <3>2, <3>3, <3>4
      DEF TypeOK, FilesInv, Rename, Continue, TargetFor, storeVars
  <2> QED
    BY <1>19, <2>1, <2>2 DEF Rename, MayRenameOnto
<1>20. ASSUME NEW w \in Worker, SyncParent(w) PROVE FilesInv'
  BY <1>20 DEF TypeOK, FilesInv, OwnerInv, CallInv, Owns, Claimed, Committed,
       TargetFor, SyncParent, At, Continue, Raise, Goto, storeVars, diskVars,
       workerVars, clientVars
<1>21. ASSUME NEW w \in Worker, Succeed(w) PROVE FilesInv'
  BY <1>21 DEF TypeOK, FilesInv, OwnerInv, CallInv, Owns, Claimed, Committed,
       TargetFor, Succeed, At, SetState, ReturnCall, Raise, Goto,
       ValidTransition, storeVars, diskVars, workerVars, clientVars
<1>22. ASSUME NEW w \in Worker, HandleError(w) PROVE FilesInv'
  BY <1>22 DEF TypeOK, FilesInv, OwnerInv, CallInv, Owns, Claimed, Committed,
       TargetFor, HandleError, At, SeesActive, AttemptsRead, MayRetry,
       ReturnCall, Goto, storeVars, diskVars, workerVars, clientVars
<1>23. ASSUME NEW w \in Worker, Fail(w) PROVE FilesInv'
  BY <1>23 DEF TypeOK, FilesInv, OwnerInv, CallInv, Owns, Claimed, Committed,
       TargetFor, Fail, At, ReturnCall, SetState, Goto, ValidTransition,
       storeVars, diskVars, workerVars, clientVars
<1>24. CASE Stop
  BY <1>24 DEF TypeOK, FilesInv, OwnerInv, CallInv, Owns, Claimed, Committed,
       TargetFor, Stop, storeVars, diskVars, workerVars, clientVars
<1>25. CASE Start
  BY <1>25 DEF TypeOK, FilesInv, OwnerInv, CallInv, Owns, Claimed, Committed,
       TargetFor, Start, storeVars, diskVars, workerVars, clientVars
<1>26. CASE RecoverJob
  BY <1>26 DEF TypeOK, FilesInv, OwnerInv, CallInv, Owns, Claimed, Committed,
       TargetFor, RecoverJob, SetState, ValidTransition, storeVars, diskVars,
       workerVars, clientVars
<1>27. CASE OpenFails
  BY <1>27 DEF TypeOK, FilesInv, OwnerInv, CallInv, Owns, Claimed, Committed,
       TargetFor, OpenFails, storeVars, diskVars, workerVars, clientVars
<1>28. CASE OpenReturns
  BY <1>28 DEF TypeOK, FilesInv, OwnerInv, CallInv, Owns, Claimed, Committed,
       TargetFor, OpenReturns, storeVars, diskVars, workerVars, clientVars
<1>29. CASE UNCHANGED vars
  BY <1>29 DEF TypeOK, FilesInv, OwnerInv, CallInv, Owns, Claimed, Committed,
       TargetFor, vars
<1> QED
  BY <1>1, <1>2, <1>3, <1>4, <1>5, <1>6, <1>7, <1>8, <1>9, <1>10, <1>11,
       <1>12, <1>13, <1>14, <1>15, <1>16, <1>17, <1>18, <1>19, <1>20,
       <1>21, <1>22, <1>23, <1>24, <1>25, <1>26, <1>27, <1>28, <1>29 DEF
       Next, Run

LEMMA AttemptStep ==
  ASSUME IInv, AttemptInv, ReadFaults = FALSE, [Next]_vars
  PROVE  AttemptInv'
<1> USE DEF IInv
<1>1. ASSUME NEW c \in Client, NEW r \in Request, EnqueueReadId(c, r) PROVE AttemptInv'
  BY <1>1 DEF TypeOK, AttemptInv, CallInv, OwnerInv, Owns, StateOf,
       EnqueueReadId, storeVars, diskVars, workerVars, clientVars
<1>2. ASSUME NEW c \in Client, EnqueueKnown(c) PROVE AttemptInv'
  BY <1>2 DEF TypeOK, AttemptInv, CallInv, OwnerInv, Owns, StateOf,
       EnqueueKnown, ClientReturns, storeVars, diskVars, workerVars,
       clientVars
<1>3. ASSUME NEW c \in Client, EnqueueInsert(c) PROVE AttemptInv'
  <2>1. \A j \in Job : Exists(j) => state'[j] = state[j] /\ attempt'[j] = attempt[j]
    BY <1>3, InsertElsewhere
  <2>2. PICK id \in Job : /\ state' = [state EXCEPT ![id] = "Queued"]
                         /\ attempt' = [attempt EXCEPT ![id] = 0]
    BY <1>3, InsertIsNext DEF EnqueueInsert, SetState
  <2>3. \A w \in Worker : canRetry[w] => Exists(job[w])
    BY DEF CallInv
  <2> QED
    BY <1>3, <2>1, <2>2, <2>3, QueueConstants
    DEF TypeOK, AttemptInv, StateOf, EnqueueInsert, workerVars
<1>4. ASSUME NEW c \in Client, EnqueueFails(c) PROVE AttemptInv'
  BY <1>4 DEF TypeOK, AttemptInv, CallInv, OwnerInv, Owns, StateOf,
       EnqueueFails, ClientReturns, storeVars, diskVars, workerVars,
       clientVars
<1>5. ASSUME NEW j \in Job, Cancel(j) PROVE AttemptInv'
  BY <1>5 DEF TypeOK, AttemptInv, CallInv, OwnerInv, Owns, StateOf, Cancel,
       SetState, ValidTransition, storeVars, diskVars, workerVars, clientVars
<1>6. ASSUME NEW j \in Job, Retry(j) PROVE AttemptInv'
  BY <1>6 DEF TypeOK, AttemptInv, CallInv, OwnerInv, Owns, StateOf, Retry,
       SetState, ValidTransition, storeVars, diskVars, workerVars, clientVars
<1>7. ASSUME NEW w \in Worker, NEW j \in Job, Execute(w, j) PROVE AttemptInv'
  BY <1>7 DEF TypeOK, AttemptInv, CallInv, OwnerInv, Owns, StateOf, Execute,
       Goto, At, storeVars, diskVars, workerVars, clientVars
<1>8. ASSUME NEW w \in Worker, Begin(w) PROVE AttemptInv'
  BY <1>8 DEF TypeOK, AttemptInv, CallInv, OwnerInv, Owns, StateOf, Begin, At,
       Continue, Raise, Goto, storeVars, diskVars, workerVars, clientVars
<1>9. ASSUME NEW w \in Worker, Prepare(w) PROVE AttemptInv'
  BY <1>9 DEF TypeOK, AttemptInv, CallInv, OwnerInv, Owns, StateOf, Prepare,
       Advance, SetState, At, Continue, Raise, Goto, ValidTransition,
       storeVars, diskVars, workerVars, clientVars
<1>10. ASSUME NEW w \in Worker, OpenSource(w) PROVE AttemptInv'
  BY <1>10 DEF TypeOK, AttemptInv, CallInv, OwnerInv, Owns, StateOf,
       OpenSource, At, Continue, Raise, Goto, storeVars, diskVars, workerVars,
       clientVars
<1>11. ASSUME NEW w \in Worker, PrepareStaging(w) PROVE AttemptInv'
  BY <1>11 DEF TypeOK, AttemptInv, CallInv, OwnerInv, Owns, StateOf,
       PrepareStaging, At, Continue, Raise, Goto, storeVars, diskVars,
       workerVars, clientVars
<1>12. ASSUME NEW w \in Worker, StartEncoding(w) PROVE AttemptInv'
  BY <1>12 DEF TypeOK, AttemptInv, CallInv, OwnerInv, Owns, StateOf,
       StartEncoding, Advance, SetState, At, Continue, Raise, Goto,
       ValidTransition, storeVars, diskVars, workerVars, clientVars
<1>13. ASSUME NEW w \in Worker, CreateOutput(w) PROVE AttemptInv'
  BY <1>13 DEF TypeOK, AttemptInv, CallInv, OwnerInv, Owns, StateOf,
       CreateOutput, At, Continue, Raise, Goto, storeVars, diskVars,
       workerVars, clientVars
<1>14. ASSUME NEW w \in Worker, CopyOutput(w) PROVE AttemptInv'
  BY <1>14 DEF TypeOK, AttemptInv, CallInv, OwnerInv, Owns, StateOf,
       CopyOutput, At, Continue, Raise, Goto, storeVars, diskVars, workerVars,
       clientVars
<1>15. ASSUME NEW w \in Worker, CheckCancelled(w) PROVE AttemptInv'
  BY <1>15 DEF TypeOK, AttemptInv, CallInv, OwnerInv, Owns, StateOf,
       CheckCancelled, SeesActive, At, Continue, Raise, Goto, storeVars,
       diskVars, workerVars, clientVars
<1>16. ASSUME NEW w \in Worker, StartCommit(w) PROVE AttemptInv'
  BY <1>16 DEF TypeOK, AttemptInv, CallInv, OwnerInv, Owns, StateOf,
       StartCommit, Advance, SetState, At, Continue, Raise, Goto,
       ValidTransition, storeVars, diskVars, workerVars, clientVars
<1>17. ASSUME NEW w \in Worker, LookAtTarget(w) PROVE AttemptInv'
  BY <1>17 DEF TypeOK, AttemptInv, CallInv, OwnerInv, Owns, StateOf,
       LookAtTarget, At, Continue, Raise, Goto, storeVars, diskVars,
       workerVars, clientVars
<1>18. ASSUME NEW w \in Worker, WriteMarker(w) PROVE AttemptInv'
  BY <1>18 DEF TypeOK, AttemptInv, CallInv, OwnerInv, Owns, StateOf,
       WriteMarker, At, Continue, Raise, Goto, storeVars, diskVars,
       workerVars, clientVars
<1>19. ASSUME NEW w \in Worker, Rename(w) PROVE AttemptInv'
  BY <1>19 DEF TypeOK, AttemptInv, CallInv, OwnerInv, Owns, StateOf, Rename,
       At, Continue, Raise, Goto, storeVars, diskVars, workerVars, clientVars
<1>20. ASSUME NEW w \in Worker, SyncParent(w) PROVE AttemptInv'
  BY <1>20 DEF TypeOK, AttemptInv, CallInv, OwnerInv, Owns, StateOf,
       SyncParent, At, Continue, Raise, Goto, storeVars, diskVars, workerVars,
       clientVars
<1>21. ASSUME NEW w \in Worker, Succeed(w) PROVE AttemptInv'
  BY <1>21 DEF TypeOK, AttemptInv, CallInv, OwnerInv, Owns, StateOf, Succeed,
       At, SetState, ReturnCall, Raise, Goto, ValidTransition, storeVars,
       diskVars, workerVars, clientVars
<1>22. ASSUME NEW w \in Worker, HandleError(w) PROVE AttemptInv'
  BY <1>22 DEF TypeOK, AttemptInv, CallInv, OwnerInv, Owns, StateOf,
       HandleError, At, SeesActive, AttemptsRead, MayRetry, ReturnCall, Goto,
       storeVars, diskVars, workerVars, clientVars
<1>23. ASSUME NEW w \in Worker, Fail(w) PROVE AttemptInv'
  <2> DEFINE to == IF canRetry[w] THEN "FailedRetryable" ELSE "FailedPermanent"
  <2>1. CASE UNCHANGED <<state, attempt>>
    BY <1>23, <2>1 DEF TypeOK, AttemptInv, Fail, ReturnCall, StateOf, Goto
  <2>2. CASE /\ ValidTransition(StateOf(w), to) /\ SetState(job[w], to)
             /\ attempt' = [attempt EXCEPT ![job[w]] = @ + 1]
    <3>1. job[w] \in Job /\ StateOf(w) # "FailedPermanent"
      BY <2>2 DEF TypeOK, ValidTransition
    <3>2. attempt[job[w]] =< RetryLimit /\ (canRetry[w] => attempt[job[w]] < RetryLimit)
      BY <3>1, QueueConstants DEF TypeOK, AttemptInv, StateOf
    <3>3. \A j \in Job :
            attempt'[j] =< RetryLimit + (IF state'[j] = "FailedPermanent" THEN 1 ELSE 0)
      BY <2>2, <3>1, <3>2, QueueConstants DEF TypeOK, AttemptInv, SetState
    <3>4. ASSUME NEW v \in Worker, v # w, canRetry[v] PROVE ~(job[v] = job[w] /\ canRetry[w])
      BY <1>23, <3>4 DEF CallInv, OwnerInv, Owns, Fail
    <3>5. \A v \in Worker : canRetry'[v] =>
            attempt'[job'[v]] < RetryLimit \/ state'[job'[v]] = "FailedPermanent"
      BY <1>23, <2>2, <3>1, <3>4 DEF TypeOK, AttemptInv, Fail, ReturnCall, SetState, StateOf
    <3> QED
      BY <3>3, <3>5 DEF AttemptInv, StateOf
  <2> QED
    BY <1>23, <2>1, <2>2 DEF Fail
<1>24. CASE Stop
  BY <1>24 DEF TypeOK, AttemptInv, CallInv, OwnerInv, Owns, StateOf, Stop,
       storeVars, diskVars, workerVars, clientVars
<1>25. CASE Start
  BY <1>25 DEF TypeOK, AttemptInv, CallInv, OwnerInv, Owns, StateOf, Start,
       storeVars, diskVars, workerVars, clientVars
<1>26. CASE RecoverJob
  <2>1. PICK j \in Job : state[j] \in InProcess /\ SetState(j, "Interrupted")
    BY <1>26, RecoverPicks DEF RecoverJob
  <2> QED
    BY <1>26, <2>1
    DEF TypeOK, AttemptInv, CallInv, RecoverJob, SetState, StateOf, InProcess, workerVars
<1>27. CASE OpenFails
  BY <1>27 DEF TypeOK, AttemptInv, CallInv, OwnerInv, Owns, StateOf,
       OpenFails, storeVars, diskVars, workerVars, clientVars
<1>28. CASE OpenReturns
  BY <1>28 DEF TypeOK, AttemptInv, CallInv, OwnerInv, Owns, StateOf,
       OpenReturns, storeVars, diskVars, workerVars, clientVars
<1>29. CASE UNCHANGED vars
  BY <1>29 DEF TypeOK, AttemptInv, CallInv, OwnerInv, Owns, StateOf, vars
<1> QED
  BY <1>1, <1>2, <1>3, <1>4, <1>5, <1>6, <1>7, <1>8, <1>9, <1>10, <1>11,
       <1>12, <1>13, <1>14, <1>15, <1>16, <1>17, <1>18, <1>19, <1>20,
       <1>21, <1>22, <1>23, <1>24, <1>25, <1>26, <1>27, <1>28, <1>29 DEF
       Next, Run

-----------------------------------------------------------------------------
(* The invariant. *)

LEMMA InitIInv == Init => IInv
<1> SUFFICES ASSUME Init PROVE IInv
  OBVIOUS
<1>1. TypeOK
  BY OneIsJob, RequestsCounted DEF Init, TypeOK, State, PC, Staging
<1>2. DenseInv
  <2>1. /\ 0 \in 0..Cardinality(Request) /\ \A c \in Client : newId[c] =< 0 + 1
        /\ \A j \in Job : Exists(j) <=> j =< 0
    BY RequestsCounted DEF Init, Exists, Job
  <2> QED
    BY <2>1 DEF DenseInv
<1>3. RecordInv /\ IndexAgrees
  BY DEF Init, RecordInv, IndexAgrees, Exists
<1>4. CallInv /\ OwnerInv /\ CommitInv
  BY DEF Init, CallInv, OwnerInv, CommitInv, Owns, Claimed, Committed
<1>5. FilesInv
  BY DEF Init, FilesInv
<1> QED
  BY <1>1, <1>2, <1>3, <1>4, <1>5 DEF IInv

LEMMA NextIInv ==
  ASSUME IInv, [Next]_vars
  PROVE  IInv'
BY TypeStep, JobsStep, CallStep, OwnerStep, CommitStep, FilesStep DEF IInv

(* The invariant holds of every reachable state of enqueue_copy, cancel,     *)
(* retry, execute_copy, commit, stop and open: the other theorems follow.    *)
THEOREM Invariant == Spec => []IInv
<1>1. IInv /\ [Next]_vars => IInv'
  BY NextIInv
<1> QED
  BY InitIInv, <1>1, PTL DEF Spec

-----------------------------------------------------------------------------
(* What follows from it in every state. *)

(* Every record, file and local of a call keeps its type; in particular the  *)
(* identifiers given out stay within the number of keys.                     *)
THEOREM TypeCorrect == Spec => []TypeOK
<1>1. IInv => TypeOK
  BY DEF IInv
<1> QED
  BY Invariant, <1>1, PTL

(* However enqueues race between reading an id and inserting their record,   *)
(* and whichever of them fail, a key has one job and a job one key.          *)
THEOREM KeyHasOneJob == Spec => []IndexAgrees
<1>1. IInv => IndexAgrees
  BY DEF IInv
<1> QED
  BY Invariant, <1>1, PTL

(* No two calls of execute_copy write in the staging directory of one job,   *)
(* though nothing but the job's state keeps them apart.                      *)
THEOREM OneCallStages == Spec => []OneStager
<1>1. IInv => OneStager
  BY DEF IInv, OwnerInv, OneStager, Stages, Owns, Claimed, Committed
<1> QED
  BY Invariant, <1>1, PTL

(* While no read fails, a job fails retryably at most RetryLimit times,      *)
(* whatever writes are lost and however often the process stops: the count a *)
(* failing call decided on is still right when it records its failure.  (A   *)
(* read that fails counts as attempt 0, so the budget is then no bound.)      *)
THEOREM RetriesAreBounded ==
  ASSUME ReadFaults = FALSE
  PROVE  Spec => []RetryBudget
<1>1. Init => AttemptInv
  BY QueueConstants DEF Init, AttemptInv
<1>2. IInv /\ AttemptInv /\ [Next]_vars => AttemptInv'
  BY AttemptStep
<1>3. IInv /\ AttemptInv => RetryBudget
  <2> SUFFICES ASSUME IInv, AttemptInv, NEW j \in Job
               PROVE  /\ state[j] = "FailedRetryable" => attempt[j] =< RetryLimit
                      /\ attempt[j] =< RetryLimit + 1
    BY DEF RetryBudget
  <2>1. attempt[j] \in Nat /\ RetryLimit \in Nat
    BY QueueConstants DEF IInv, TypeOK
  <2>2. attempt[j] =< RetryLimit + (IF state[j] = "FailedPermanent" THEN 1 ELSE 0)
    BY DEF AttemptInv
  <2> QED
    BY <2>1, <2>2
<1> QED
  BY Invariant, <1>1, <1>2, <1>3, PTL DEF Spec

-----------------------------------------------------------------------------
(* What follows for every step. *)

(* The destination changes by the rename of a complete bundle onto a free    *)
(* target, or by a power loss.                                               *)
Renames(w, g) ==
  /\ pc[w] = "rename" /\ TargetFor(w) = g /\ bundle[g] = NoBundle
  /\ bundle'[g] = [key |-> request[job[w]], content |-> "marked"]
BundleChange ==
  \A g \in Target : bundle'[g] # bundle[g] =>
    (\E w \in Worker : Renames(w, g)) \/ (PowerLoss /\ bundle'[g] = NoBundle)

LEMMA BundleStep ==
  ASSUME IInv, [Next]_vars
  PROVE  BundleChange
<1> USE DEF IInv
<1>1. ASSUME NEW c \in Client, NEW r \in Request, EnqueueReadId(c, r) PROVE BundleChange
  BY <1>1 DEF TypeOK, BundleChange, EnqueueReadId, storeVars, diskVars,
       workerVars, clientVars
<1>2. ASSUME NEW c \in Client, EnqueueKnown(c) PROVE BundleChange
  BY <1>2 DEF TypeOK, BundleChange, EnqueueKnown, ClientReturns, storeVars,
       diskVars, workerVars, clientVars
<1>3. ASSUME NEW c \in Client, EnqueueInsert(c) PROVE BundleChange
  BY <1>3 DEF TypeOK, BundleChange, EnqueueInsert, ClientReturns, SetState,
       ValidTransition, storeVars, diskVars, workerVars, clientVars
<1>4. ASSUME NEW c \in Client, EnqueueFails(c) PROVE BundleChange
  BY <1>4 DEF TypeOK, BundleChange, EnqueueFails, ClientReturns, storeVars,
       diskVars, workerVars, clientVars
<1>5. ASSUME NEW j \in Job, Cancel(j) PROVE BundleChange
  BY <1>5 DEF TypeOK, BundleChange, Cancel, SetState, ValidTransition,
       storeVars, diskVars, workerVars, clientVars
<1>6. ASSUME NEW j \in Job, Retry(j) PROVE BundleChange
  BY <1>6 DEF TypeOK, BundleChange, Retry, SetState, ValidTransition,
       storeVars, diskVars, workerVars, clientVars
<1>7. ASSUME NEW w \in Worker, NEW j \in Job, Execute(w, j) PROVE BundleChange
  BY <1>7 DEF TypeOK, BundleChange, Execute, Goto, At, storeVars, diskVars,
       workerVars, clientVars
<1>8. ASSUME NEW w \in Worker, Begin(w) PROVE BundleChange
  BY <1>8 DEF TypeOK, BundleChange, Begin, At, Continue, Raise, Goto,
       storeVars, diskVars, workerVars, clientVars
<1>9. ASSUME NEW w \in Worker, Prepare(w) PROVE BundleChange
  BY <1>9 DEF TypeOK, BundleChange, Prepare, Advance, SetState, At, Continue,
       Raise, Goto, ValidTransition, storeVars, diskVars, workerVars,
       clientVars
<1>10. ASSUME NEW w \in Worker, OpenSource(w) PROVE BundleChange
  BY <1>10 DEF TypeOK, BundleChange, OpenSource, At, Continue, Raise, Goto,
       storeVars, diskVars, workerVars, clientVars
<1>11. ASSUME NEW w \in Worker, PrepareStaging(w) PROVE BundleChange
  BY <1>11 DEF TypeOK, BundleChange, PrepareStaging, At, Continue, Raise,
       Goto, storeVars, diskVars, workerVars, clientVars
<1>12. ASSUME NEW w \in Worker, StartEncoding(w) PROVE BundleChange
  BY <1>12 DEF TypeOK, BundleChange, StartEncoding, Advance, SetState, At,
       Continue, Raise, Goto, ValidTransition, storeVars, diskVars,
       workerVars, clientVars
<1>13. ASSUME NEW w \in Worker, CreateOutput(w) PROVE BundleChange
  BY <1>13 DEF TypeOK, BundleChange, CreateOutput, At, Continue, Raise, Goto,
       storeVars, diskVars, workerVars, clientVars
<1>14. ASSUME NEW w \in Worker, CopyOutput(w) PROVE BundleChange
  BY <1>14 DEF TypeOK, BundleChange, CopyOutput, At, Continue, Raise, Goto,
       storeVars, diskVars, workerVars, clientVars
<1>15. ASSUME NEW w \in Worker, CheckCancelled(w) PROVE BundleChange
  BY <1>15 DEF TypeOK, BundleChange, CheckCancelled, SeesActive, At, Continue,
       Raise, Goto, storeVars, diskVars, workerVars, clientVars
<1>16. ASSUME NEW w \in Worker, StartCommit(w) PROVE BundleChange
  BY <1>16 DEF TypeOK, BundleChange, StartCommit, Advance, SetState, At,
       Continue, Raise, Goto, ValidTransition, storeVars, diskVars,
       workerVars, clientVars
<1>17. ASSUME NEW w \in Worker, LookAtTarget(w) PROVE BundleChange
  BY <1>17 DEF TypeOK, BundleChange, LookAtTarget, At, Continue, Raise, Goto,
       storeVars, diskVars, workerVars, clientVars
<1>18. ASSUME NEW w \in Worker, WriteMarker(w) PROVE BundleChange
  BY <1>18 DEF TypeOK, BundleChange, WriteMarker, At, Continue, Raise, Goto,
       storeVars, diskVars, workerVars, clientVars
<1>19. ASSUME NEW w \in Worker, Rename(w) PROVE BundleChange
  <2>1. pc[w] = "rename" /\ staging[job[w]] = "marked" /\ TargetFor(w) \in Target
    BY <1>19, CallHasJob DEF FilesInv, Rename, At
  <2>2. CASE UNCHANGED diskVars
    BY <2>2 DEF BundleChange, diskVars
  <2>3. CASE /\ bundle[TargetFor(w)] = NoBundle
             /\ bundle' = [bundle EXCEPT ![TargetFor(w)] =
                            [key |-> request[job[w]], content |-> staging[job[w]]]]
    BY <2>1, <2>3 DEF TypeOK, BundleChange, Renames
  <2> QED
    BY <1>19, <2>2, <2>3 DEF Rename, MayRenameOnto
<1>20. ASSUME NEW w \in Worker, SyncParent(w) PROVE BundleChange
  BY <1>20 DEF TypeOK, BundleChange, SyncParent, At, Continue, Raise, Goto,
       storeVars, diskVars, workerVars, clientVars
<1>21. ASSUME NEW w \in Worker, Succeed(w) PROVE BundleChange
  BY <1>21 DEF TypeOK, BundleChange, Succeed, At, SetState, ReturnCall, Raise,
       Goto, ValidTransition, storeVars, diskVars, workerVars, clientVars
<1>22. ASSUME NEW w \in Worker, HandleError(w) PROVE BundleChange
  BY <1>22 DEF TypeOK, BundleChange, HandleError, At, SeesActive,
       AttemptsRead, MayRetry, ReturnCall, Goto, storeVars, diskVars,
       workerVars, clientVars
<1>23. ASSUME NEW w \in Worker, Fail(w) PROVE BundleChange
  BY <1>23 DEF TypeOK, BundleChange, Fail, At, ReturnCall, SetState, Goto,
       ValidTransition, storeVars, diskVars, workerVars, clientVars
<1>24. CASE Stop
  <2>1. PICK lost \in SUBSET Losable :
          bundle' = [g \in Target |-> IF g \in lost THEN NoBundle ELSE bundle[g]]
    BY <1>24 DEF Stop
  <2> QED
    BY <2>1 DEF BundleChange, Losable
<1>25. CASE Start
  BY <1>25 DEF TypeOK, BundleChange, Start, storeVars, diskVars, workerVars,
       clientVars
<1>26. CASE RecoverJob
  BY <1>26 DEF TypeOK, BundleChange, RecoverJob, SetState, ValidTransition,
       storeVars, diskVars, workerVars, clientVars
<1>27. CASE OpenFails
  BY <1>27 DEF TypeOK, BundleChange, OpenFails, storeVars, diskVars,
       workerVars, clientVars
<1>28. CASE OpenReturns
  BY <1>28 DEF TypeOK, BundleChange, OpenReturns, storeVars, diskVars,
       workerVars, clientVars
<1>29. CASE UNCHANGED vars
  BY <1>29 DEF BundleChange, vars
<1> QED
  BY <1>1, <1>2, <1>3, <1>4, <1>5, <1>6, <1>7, <1>8, <1>9, <1>10, <1>11,
       <1>12, <1>13, <1>14, <1>15, <1>16, <1>17, <1>18, <1>19, <1>20,
       <1>21, <1>22, <1>23, <1>24, <1>25, <1>26, <1>27, <1>28, <1>29 DEF
       Next, Run

(* A job that is cancelled, at any point between its enqueue and its commit, *)
(* is not published by the calls still at work on it.                        *)
THEOREM CancelledStaysUnpublished == Spec => CancelledPublishesNothing
<1> DEFINE Quiet ==
      \A j \in Job : state[j] = "Cancelled" =>
        LET g == TargetOf[request[j]] IN
        bundle[g] = NoBundle => bundle'[g] = NoBundle \/ bundle'[g].key # request[j]
<1>1. ASSUME IInv, [Next]_vars PROVE Quiet
  <2> SUFFICES ASSUME NEW j \in Job, state[j] = "Cancelled",
                      bundle[TargetOf[request[j]]] = NoBundle,
                      bundle'[TargetOf[request[j]]] # NoBundle,
                      bundle'[TargetOf[request[j]]].key = request[j]
               PROVE  FALSE
    OBVIOUS
  <2>1. Exists(j) /\ request[j] \in Request /\ TargetOf[request[j]] \in Target
    BY <1>1, QueueConstants DEF IInv, RecordInv, Exists
  <2>2. PICK w \in Worker : Renames(w, TargetOf[request[j]])
    BY <1>1, <2>1, BundleStep DEF BundleChange
  <2>3. job[w] \in Job /\ Exists(job[w]) /\ request[job[w]] = request[j]
    BY <1>1, <2>2, CallHasJob DEF Renames
  <2>4. job[w] = j
    BY <1>1, <2>1, <2>3 DEF IInv, IndexAgrees
  <2> QED
    BY <1>1, <2>2, <2>4 DEF IInv, CommitInv, Committed, Renames, StateOf
<1>2. IInv /\ [Next]_vars => [Quiet]_vars
  BY <1>1
<1> QED
  BY Invariant, <1>2, PTL DEF Spec, CancelledPublishesNothing

(* Without power loss a committed bundle is never emptied, replaced or moved *)
(* by another job's commit, by a retry or by a restart.                      *)
THEOREM CommitsStay ==
  ASSUME PowerLoss = FALSE
  PROVE  Spec => BundlesAreImmutable
<1> DEFINE Kept ==
      \A g \in Target :
        /\ bundle[g] # NoBundle => bundle'[g] = bundle[g]
        /\ bundle'[g] # NoBundle => bundle'[g].content = "marked"
<1>1. ASSUME IInv, [Next]_vars PROVE Kept
  <2>1. \A g \in Target : bundle[g] # NoBundle => bundle'[g] = bundle[g]
    BY <1>1, BundleStep DEF BundleChange, Renames
  <2>2. \A g \in Target : bundle'[g] # NoBundle => bundle'[g].content = "marked"
    BY <1>1, FilesStep DEF FilesInv
  <2> QED
    BY <2>1, <2>2
<1>2. IInv /\ [Next]_vars => [Kept]_vars
  BY <1>1
<1> QED
  BY Invariant, <1>2, PTL DEF Spec, BundlesAreImmutable

-----------------------------------------------------------------------------
(* Success, and what a call leaves behind. *)

NewSuccess ==
  \A j \in Job : state'[j] = "Succeeded" =>
    state[j] = "Succeeded" \/ \E w \in Worker : pc[w] = "succeed" /\ job[w] = j

LEMMA SuccessStep ==
  ASSUME IInv, [Next]_vars
  PROVE  NewSuccess
<1> USE DEF IInv
<1>1. ASSUME NEW c \in Client, NEW r \in Request, EnqueueReadId(c, r) PROVE NewSuccess
  BY <1>1 DEF TypeOK, NewSuccess, StateOf, EnqueueReadId, storeVars, diskVars,
       workerVars, clientVars
<1>2. ASSUME NEW c \in Client, EnqueueKnown(c) PROVE NewSuccess
  BY <1>2 DEF TypeOK, NewSuccess, StateOf, EnqueueKnown, ClientReturns,
       storeVars, diskVars, workerVars, clientVars
<1>3. ASSUME NEW c \in Client, EnqueueInsert(c) PROVE NewSuccess
  <2>1. PICK id \in Job : state' = [state EXCEPT ![id] = "Queued"]
    BY <1>3, InsertIsNext DEF EnqueueInsert, SetState
  <2> QED
    BY <2>1 DEF TypeOK, NewSuccess
<1>4. ASSUME NEW c \in Client, EnqueueFails(c) PROVE NewSuccess
  BY <1>4 DEF TypeOK, NewSuccess, StateOf, EnqueueFails, ClientReturns,
       storeVars, diskVars, workerVars, clientVars
<1>5. ASSUME NEW j \in Job, Cancel(j) PROVE NewSuccess
  BY <1>5 DEF TypeOK, NewSuccess, StateOf, Cancel, SetState, ValidTransition,
       storeVars, diskVars, workerVars, clientVars
<1>6. ASSUME NEW j \in Job, Retry(j) PROVE NewSuccess
  BY <1>6 DEF TypeOK, NewSuccess, StateOf, Retry, SetState, ValidTransition,
       storeVars, diskVars, workerVars, clientVars
<1>7. ASSUME NEW w \in Worker, NEW j \in Job, Execute(w, j) PROVE NewSuccess
  BY <1>7 DEF TypeOK, NewSuccess, StateOf, Execute, Goto, At, storeVars,
       diskVars, workerVars, clientVars
<1>8. ASSUME NEW w \in Worker, Begin(w) PROVE NewSuccess
  BY <1>8 DEF TypeOK, NewSuccess, StateOf, Begin, At, Continue, Raise, Goto,
       storeVars, diskVars, workerVars, clientVars
<1>9. ASSUME NEW w \in Worker, Prepare(w) PROVE NewSuccess
  BY <1>9 DEF TypeOK, NewSuccess, StateOf, Prepare, Advance, SetState, At,
       Continue, Raise, Goto, ValidTransition, storeVars, diskVars,
       workerVars, clientVars
<1>10. ASSUME NEW w \in Worker, OpenSource(w) PROVE NewSuccess
  BY <1>10 DEF TypeOK, NewSuccess, StateOf, OpenSource, At, Continue, Raise,
       Goto, storeVars, diskVars, workerVars, clientVars
<1>11. ASSUME NEW w \in Worker, PrepareStaging(w) PROVE NewSuccess
  BY <1>11 DEF TypeOK, NewSuccess, StateOf, PrepareStaging, At, Continue,
       Raise, Goto, storeVars, diskVars, workerVars, clientVars
<1>12. ASSUME NEW w \in Worker, StartEncoding(w) PROVE NewSuccess
  BY <1>12 DEF TypeOK, NewSuccess, StateOf, StartEncoding, Advance, SetState,
       At, Continue, Raise, Goto, ValidTransition, storeVars, diskVars,
       workerVars, clientVars
<1>13. ASSUME NEW w \in Worker, CreateOutput(w) PROVE NewSuccess
  BY <1>13 DEF TypeOK, NewSuccess, StateOf, CreateOutput, At, Continue, Raise,
       Goto, storeVars, diskVars, workerVars, clientVars
<1>14. ASSUME NEW w \in Worker, CopyOutput(w) PROVE NewSuccess
  BY <1>14 DEF TypeOK, NewSuccess, StateOf, CopyOutput, At, Continue, Raise,
       Goto, storeVars, diskVars, workerVars, clientVars
<1>15. ASSUME NEW w \in Worker, CheckCancelled(w) PROVE NewSuccess
  BY <1>15 DEF TypeOK, NewSuccess, StateOf, CheckCancelled, SeesActive, At,
       Continue, Raise, Goto, storeVars, diskVars, workerVars, clientVars
<1>16. ASSUME NEW w \in Worker, StartCommit(w) PROVE NewSuccess
  BY <1>16 DEF TypeOK, NewSuccess, StateOf, StartCommit, Advance, SetState,
       At, Continue, Raise, Goto, ValidTransition, storeVars, diskVars,
       workerVars, clientVars
<1>17. ASSUME NEW w \in Worker, LookAtTarget(w) PROVE NewSuccess
  BY <1>17 DEF TypeOK, NewSuccess, StateOf, LookAtTarget, At, Continue, Raise,
       Goto, storeVars, diskVars, workerVars, clientVars
<1>18. ASSUME NEW w \in Worker, WriteMarker(w) PROVE NewSuccess
  BY <1>18 DEF TypeOK, NewSuccess, StateOf, WriteMarker, At, Continue, Raise,
       Goto, storeVars, diskVars, workerVars, clientVars
<1>19. ASSUME NEW w \in Worker, Rename(w) PROVE NewSuccess
  BY <1>19 DEF TypeOK, NewSuccess, StateOf, Rename, At, Continue, Raise, Goto,
       storeVars, diskVars, workerVars, clientVars
<1>20. ASSUME NEW w \in Worker, SyncParent(w) PROVE NewSuccess
  BY <1>20 DEF TypeOK, NewSuccess, StateOf, SyncParent, At, Continue, Raise,
       Goto, storeVars, diskVars, workerVars, clientVars
<1>21. ASSUME NEW w \in Worker, Succeed(w) PROVE NewSuccess
  BY <1>21 DEF TypeOK, NewSuccess, StateOf, Succeed, At, SetState, ReturnCall,
       Raise, Goto, ValidTransition, storeVars, diskVars, workerVars,
       clientVars
<1>22. ASSUME NEW w \in Worker, HandleError(w) PROVE NewSuccess
  BY <1>22 DEF TypeOK, NewSuccess, StateOf, HandleError, At, SeesActive,
       AttemptsRead, MayRetry, ReturnCall, Goto, storeVars, diskVars,
       workerVars, clientVars
<1>23. ASSUME NEW w \in Worker, Fail(w) PROVE NewSuccess
  BY <1>23 DEF TypeOK, NewSuccess, StateOf, Fail, At, ReturnCall, SetState,
       Goto, ValidTransition, storeVars, diskVars, workerVars, clientVars
<1>24. CASE Stop
  BY <1>24 DEF TypeOK, NewSuccess, StateOf, Stop, storeVars, diskVars,
       workerVars, clientVars
<1>25. CASE Start
  BY <1>25 DEF TypeOK, NewSuccess, StateOf, Start, storeVars, diskVars,
       workerVars, clientVars
<1>26. CASE RecoverJob
  BY <1>26 DEF TypeOK, NewSuccess, StateOf, RecoverJob, SetState,
       ValidTransition, storeVars, diskVars, workerVars, clientVars
<1>27. CASE OpenFails
  BY <1>27 DEF TypeOK, NewSuccess, StateOf, OpenFails, storeVars, diskVars,
       workerVars, clientVars
<1>28. CASE OpenReturns
  BY <1>28 DEF TypeOK, NewSuccess, StateOf, OpenReturns, storeVars, diskVars,
       workerVars, clientVars
<1>29. CASE UNCHANGED vars
  BY <1>29 DEF NewSuccess, StateOf, vars
<1> QED
  BY <1>1, <1>2, <1>3, <1>4, <1>5, <1>6, <1>7, <1>8, <1>9, <1>10, <1>11,
       <1>12, <1>13, <1>14, <1>15, <1>16, <1>17, <1>18, <1>19, <1>20,
       <1>21, <1>22, <1>23, <1>24, <1>25, <1>26, <1>27, <1>28, <1>29 DEF
       Next, Run

(* Without power loss a job recorded as succeeded has its bundle, complete   *)
(* and under its own key: a call that finds a bundle at its target reports   *)
(* success only for its own, and no later step takes it away.                *)
THEOREM SuccessMeansPublished ==
  ASSUME PowerLoss = FALSE
  PROVE  Spec => []SucceededIsPublished
<1>1. Init => SucceededIsPublished
  BY DEF Init, SucceededIsPublished
<1>2. ASSUME IInv, SucceededIsPublished, [Next]_vars PROVE SucceededIsPublished'
  <2> SUFFICES ASSUME NEW j \in Job, state'[j] = "Succeeded"
               PROVE  bundle'[TargetOf[request'[j]]] = [key |-> request'[j], content |-> "marked"]
    BY DEF SucceededIsPublished
  <2>1. /\ Exists(j)
        /\ bundle[TargetOf[request[j]]] = [key |-> request[j], content |-> "marked"]
    <3>1. CASE state[j] = "Succeeded"
      BY <1>2, <3>1 DEF SucceededIsPublished, Exists
    <3>2. CASE \E w \in Worker : pc[w] = "succeed" /\ job[w] = j
      <4>1. PICK w \in Worker : pc[w] = "succeed" /\ job[w] = j
        BY <3>2
      <4> QED
        BY <1>2, <4>1, CallHasJob DEF IInv, FilesInv, TargetFor
    <3> QED
      BY <1>2, <3>1, <3>2, SuccessStep DEF NewSuccess
  <2>2. request[j] \in Request /\ TargetOf[request[j]] \in Target /\ request'[j] = request[j]
    BY <1>2, <2>1, JobsStay, QueueConstants DEF IInv, RecordInv
  <2>3. bundle[TargetOf[request[j]]] # NoBundle
    BY <2>1, <2>2, QueueConstants DEF Staging
  <2>4. bundle'[TargetOf[request[j]]] = bundle[TargetOf[request[j]]]
    BY <1>2, <2>2, <2>3, BundleStep DEF BundleChange, Renames
  <2> QED
    BY <2>1, <2>2, <2>4
<1> QED
  BY Invariant, <1>1, <1>2, PTL DEF Spec

LEMMA OrphanStep ==
  ASSUME IInv, NoOrphans, StoreFaults = FALSE, [Next]_vars
  PROVE  NoOrphans'
<1> USE DEF IInv
<1>1. ASSUME NEW c \in Client, NEW r \in Request, EnqueueReadId(c, r) PROVE NoOrphans'
  BY <1>1 DEF TypeOK, NoOrphans, InProcess, StateOf, EnqueueReadId, storeVars,
       diskVars, workerVars, clientVars
<1>2. ASSUME NEW c \in Client, EnqueueKnown(c) PROVE NoOrphans'
  BY <1>2 DEF TypeOK, NoOrphans, InProcess, StateOf, EnqueueKnown,
       ClientReturns, storeVars, diskVars, workerVars, clientVars
<1>3. ASSUME NEW c \in Client, EnqueueInsert(c) PROVE NoOrphans'
  <2>1. PICK id \in Job : state' = [state EXCEPT ![id] = "Queued"]
    BY <1>3, InsertIsNext DEF EnqueueInsert, SetState
  <2> QED
    BY <1>3, <2>1 DEF TypeOK, NoOrphans, InProcess, EnqueueInsert, workerVars
<1>4. ASSUME NEW c \in Client, EnqueueFails(c) PROVE NoOrphans'
  BY <1>4 DEF TypeOK, NoOrphans, InProcess, StateOf, EnqueueFails,
       ClientReturns, storeVars, diskVars, workerVars, clientVars
<1>5. ASSUME NEW j \in Job, Cancel(j) PROVE NoOrphans'
  BY <1>5 DEF TypeOK, NoOrphans, InProcess, StateOf, Cancel, SetState,
       ValidTransition, storeVars, diskVars, workerVars, clientVars
<1>6. ASSUME NEW j \in Job, Retry(j) PROVE NoOrphans'
  BY <1>6 DEF TypeOK, NoOrphans, InProcess, StateOf, Retry, SetState,
       ValidTransition, storeVars, diskVars, workerVars, clientVars
<1>7. ASSUME NEW w \in Worker, NEW j \in Job, Execute(w, j) PROVE NoOrphans'
  BY <1>7 DEF TypeOK, NoOrphans, InProcess, StateOf, Execute, Goto, At,
       storeVars, diskVars, workerVars, clientVars
<1>8. ASSUME NEW w \in Worker, Begin(w) PROVE NoOrphans'
  BY <1>8 DEF TypeOK, NoOrphans, InProcess, StateOf, Begin, At, Continue,
       Raise, Goto, storeVars, diskVars, workerVars, clientVars
<1>9. ASSUME NEW w \in Worker, Prepare(w) PROVE NoOrphans'
  BY <1>9 DEF TypeOK, NoOrphans, InProcess, StateOf, Prepare, Advance,
       SetState, At, Continue, Raise, Goto, ValidTransition, storeVars,
       diskVars, workerVars, clientVars
<1>10. ASSUME NEW w \in Worker, OpenSource(w) PROVE NoOrphans'
  BY <1>10 DEF TypeOK, NoOrphans, InProcess, StateOf, OpenSource, At,
       Continue, Raise, Goto, storeVars, diskVars, workerVars, clientVars
<1>11. ASSUME NEW w \in Worker, PrepareStaging(w) PROVE NoOrphans'
  BY <1>11 DEF TypeOK, NoOrphans, InProcess, StateOf, PrepareStaging, At,
       Continue, Raise, Goto, storeVars, diskVars, workerVars, clientVars
<1>12. ASSUME NEW w \in Worker, StartEncoding(w) PROVE NoOrphans'
  BY <1>12 DEF TypeOK, NoOrphans, InProcess, StateOf, StartEncoding, Advance,
       SetState, At, Continue, Raise, Goto, ValidTransition, storeVars,
       diskVars, workerVars, clientVars
<1>13. ASSUME NEW w \in Worker, CreateOutput(w) PROVE NoOrphans'
  BY <1>13 DEF TypeOK, NoOrphans, InProcess, StateOf, CreateOutput, At,
       Continue, Raise, Goto, storeVars, diskVars, workerVars, clientVars
<1>14. ASSUME NEW w \in Worker, CopyOutput(w) PROVE NoOrphans'
  BY <1>14 DEF TypeOK, NoOrphans, InProcess, StateOf, CopyOutput, At,
       Continue, Raise, Goto, storeVars, diskVars, workerVars, clientVars
<1>15. ASSUME NEW w \in Worker, CheckCancelled(w) PROVE NoOrphans'
  BY <1>15 DEF TypeOK, NoOrphans, InProcess, StateOf, CheckCancelled,
       SeesActive, At, Continue, Raise, Goto, storeVars, diskVars, workerVars,
       clientVars
<1>16. ASSUME NEW w \in Worker, StartCommit(w) PROVE NoOrphans'
  BY <1>16 DEF TypeOK, NoOrphans, InProcess, StateOf, StartCommit, Advance,
       SetState, At, Continue, Raise, Goto, ValidTransition, storeVars,
       diskVars, workerVars, clientVars
<1>17. ASSUME NEW w \in Worker, LookAtTarget(w) PROVE NoOrphans'
  BY <1>17 DEF TypeOK, NoOrphans, InProcess, StateOf, LookAtTarget, At,
       Continue, Raise, Goto, storeVars, diskVars, workerVars, clientVars
<1>18. ASSUME NEW w \in Worker, WriteMarker(w) PROVE NoOrphans'
  BY <1>18 DEF TypeOK, NoOrphans, InProcess, StateOf, WriteMarker, At,
       Continue, Raise, Goto, storeVars, diskVars, workerVars, clientVars
<1>19. ASSUME NEW w \in Worker, Rename(w) PROVE NoOrphans'
  BY <1>19 DEF TypeOK, NoOrphans, InProcess, StateOf, Rename, At, Continue,
       Raise, Goto, storeVars, diskVars, workerVars, clientVars
<1>20. ASSUME NEW w \in Worker, SyncParent(w) PROVE NoOrphans'
  BY <1>20 DEF TypeOK, NoOrphans, InProcess, StateOf, SyncParent, At,
       Continue, Raise, Goto, storeVars, diskVars, workerVars, clientVars
<1>21. ASSUME NEW w \in Worker, Succeed(w) PROVE NoOrphans'
  BY <1>21 DEF TypeOK, NoOrphans, InProcess, StateOf, Succeed, At, SetState,
       ReturnCall, Raise, Goto, ValidTransition, storeVars, diskVars,
       workerVars, clientVars
<1>22. ASSUME NEW w \in Worker, HandleError(w) PROVE NoOrphans'
  BY <1>22 DEF TypeOK, NoOrphans, InProcess, StateOf, HandleError, At,
       SeesActive, AttemptsRead, MayRetry, ReturnCall, Goto, storeVars,
       diskVars, workerVars, clientVars
<1>23. ASSUME NEW w \in Worker, Fail(w) PROVE NoOrphans'
  BY <1>23 DEF TypeOK, NoOrphans, InProcess, StateOf, Fail, At, ReturnCall,
       SetState, Goto, ValidTransition, storeVars, diskVars, workerVars,
       clientVars
<1>24. CASE Stop
  BY <1>24 DEF TypeOK, NoOrphans, InProcess, StateOf, Stop, storeVars,
       diskVars, workerVars, clientVars
<1>25. CASE Start
  BY <1>25 DEF TypeOK, NoOrphans, InProcess, StateOf, Start, storeVars,
       diskVars, workerVars, clientVars
<1>26. CASE RecoverJob
  BY <1>26 DEF TypeOK, NoOrphans, InProcess, StateOf, RecoverJob, SetState,
       ValidTransition, storeVars, diskVars, workerVars, clientVars
<1>27. CASE OpenFails
  BY <1>27 DEF TypeOK, NoOrphans, InProcess, StateOf, OpenFails, storeVars,
       diskVars, workerVars, clientVars
<1>28. CASE OpenReturns
  BY <1>28 DEF TypeOK, NoOrphans, ToRecover, InProcess, OpenReturns, storeVars,
       workerVars
<1>29. CASE UNCHANGED vars
  BY <1>29 DEF NoOrphans, InProcess, StateOf, vars
<1> QED
  BY <1>1, <1>2, <1>3, <1>4, <1>5, <1>6, <1>7, <1>8, <1>9, <1>10, <1>11,
       <1>12, <1>13, <1>14, <1>15, <1>16, <1>17, <1>18, <1>19, <1>20,
       <1>21, <1>22, <1>23, <1>24, <1>25, <1>26, <1>27, <1>28, <1>29 DEF
       Next, Run

(* While no database write fails, a job in process always has a call that    *)
(* will settle it, and open leaves none behind: no job is stuck.             *)
THEOREM NothingOrphaned ==
  ASSUME StoreFaults = FALSE
  PROVE  Spec => []NoOrphans
<1>1. Init => NoOrphans
  BY DEF Init, NoOrphans, InProcess
<1>2. IInv /\ NoOrphans /\ [Next]_vars => NoOrphans'
  BY OrphanStep
<1> QED
  BY Invariant, <1>1, <1>2, PTL DEF Spec

=============================================================================
