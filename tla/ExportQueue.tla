----------------------------- MODULE ExportQueue -----------------------------
(***************************************************************************)
(* The durable copy-export queue of crates/rusttable-export: queue_store   *)
(* (job records and the idempotency index, one database transaction per    *)
(* call) and queue (execute_copy, which drives a job through staging to an *)
(* atomic bundle commit).                                                  *)
(*                                                                         *)
(* A step is one database transaction, one file-system effect that others  *)
(* or a restart can see, or one read on which the code later acts.  A      *)
(* Request stands for the idempotency key of a copy request: the key       *)
(* covers the request, its source and its target.  The process may stop at *)
(* any step; the database and the files survive it.                        *)
(***************************************************************************)
EXTENDS Naturals, FiniteSets, FiniteSetsExt

CONSTANTS Request, Target, NoRequest, NoBundle,
          TargetOf,      \* the logical target a request names
          Worker,        \* threads that call execute_copy
          Client,        \* threads that call enqueue_copy
          RetryLimit,    \* failed attempts that may be retried (3)
          StoreFaults,   \* may a write transaction fail?
          ReadFaults,    \* may a read transaction fail?
          PowerLoss      \* may a stop also lose directory updates not yet synced?

(* What a staging directory holds; it is complete when sealed and marked.    *)
Staging == {"absent", "empty", "partial", "full", "marked"}

ASSUME QueueConstants ==
  /\ IsFiniteSet(Request) /\ Request # {} /\ NoRequest \notin Request
  /\ NoBundle \notin [key : Request, content : Staging]
  /\ TargetOf \in [Request -> Target] /\ RetryLimit \in Nat
  /\ StoreFaults \in BOOLEAN /\ ReadFaults \in BOOLEAN /\ PowerLoss \in BOOLEAN

Job == 1..Cardinality(Request)   \* a key is inserted once, so ids go no further

VARIABLES
  request, state, attempt,    \* QUEUE_JOBS
  index,                      \* QUEUE_IDEMPOTENCY: the job of each key, or 0
  staging, bundle, synced,    \* the staging directories and the destination
  phase,                      \* is the queue down, in open(), or up?
  pc, job, error, canRetry,   \* each worker's execute_copy
  wants, newId                \* each client's enqueue_copy

storeVars == <<request, state, attempt, index>>
diskVars == <<staging, bundle, synced>>
workerVars == <<pc, job, error, canRetry>>
clientVars == <<wants, newId>>
vars == <<request, state, attempt, index, staging, bundle, synced, phase, pc, job,
          error, canRetry, wants, newId>>

State == {"None", "Queued", "Preparing", "Rendering", "Encoding", "Committing",
          "Succeeded", "FailedRetryable", "FailedPermanent", "Cancelled", "Interrupted"}
InProcess == {"Preparing", "Rendering", "Encoding", "Committing"}

PC == {"idle", "begin", "prepare", "open", "stage", "encode", "create", "copy", "check",
       "startCommit", "look", "mark", "rename", "sync", "succeed", "error", "fail"}

Init ==
  /\ request = [j \in Job |-> NoRequest] /\ state = [j \in Job |-> "None"]
  /\ attempt = [j \in Job |-> 0] /\ index = [r \in Request |-> 0]
  /\ staging = [j \in Job |-> "absent"] /\ bundle = [g \in Target |-> NoBundle]
  /\ synced = {} /\ phase = "up"
  /\ pc = [w \in Worker |-> "idle"] /\ job = [w \in Worker |-> 1]
  /\ error = [w \in Worker |-> "none"] /\ canRetry = [w \in Worker |-> FALSE]
  /\ wants = [c \in Client |-> NoRequest] /\ newId = [c \in Client |-> 1]

-----------------------------------------------------------------------------
(* queue_store: the state machine of a job record. *)

ValidTransition(from, to) ==
  \/ from = "Queued" /\ to \in {"Preparing", "Cancelled"}
  \/ from = "Preparing" /\ to \in {"Rendering", "Encoding", "FailedRetryable",
                                   "FailedPermanent", "Cancelled", "Interrupted"}
  \/ from = "Rendering" /\ to \in {"Encoding", "FailedRetryable", "FailedPermanent",
                                   "Cancelled", "Interrupted"}
  \/ from = "Encoding" /\ to \in {"Committing", "FailedRetryable", "FailedPermanent",
                                  "Cancelled", "Interrupted"}
  \/ from = "Committing" /\ to \in {"Succeeded", "FailedRetryable", "FailedPermanent",
                                    "Interrupted"}

SetState(j, to) == state' = [state EXCEPT ![j] = to]

Exists(j) == state[j] # "None"
NextId_Skips == Max({j \in Job : Exists(j)} \cup {0}) + 2   \* mutant
NextId == Max({j \in Job : Exists(j)} \cup {0}) + 1

-----------------------------------------------------------------------------
(* enqueue_copy: the next id is read first, the record inserted afterwards.  *)
(* (A read that fails ends the call before it has changed anything.)         *)

EnqueueReadId(c, r) ==
  /\ phase = "up" /\ wants[c] = NoRequest
  /\ wants' = [wants EXCEPT ![c] = r] /\ newId' = [newId EXCEPT ![c] = NextId]
  /\ UNCHANGED <<storeVars, diskVars, phase, workerVars>>

ClientReturns(c) ==
  /\ wants' = [wants EXCEPT ![c] = NoRequest] /\ newId' = [newId EXCEPT ![c] = 1]

(* A key already known returns the job it was given to. *)
EnqueueKnown(c) ==
  /\ wants[c] # NoRequest /\ index[wants[c]] # 0
  /\ ClientReturns(c)
  /\ UNCHANGED <<storeVars, diskVars, phase, workerVars>>

(* The id read earlier may have been taken since: then a new one is chosen. *)
FreshId_AsRead(id) == id   \* mutant
FreshId(id) == IF id \in Job /\ Exists(id) THEN NextId ELSE id

EnqueueInsert(c) ==
  LET id == FreshId(newId[c]) IN
  /\ wants[c] # NoRequest /\ index[wants[c]] = 0
  /\ request' = [request EXCEPT ![id] = wants[c]]
  /\ attempt' = [attempt EXCEPT ![id] = 0] /\ SetState(id, "Queued")
  /\ index' = [index EXCEPT ![wants[c]] = id]
  /\ ClientReturns(c)
  /\ UNCHANGED <<diskVars, phase, workerVars>>

EnqueueFails(c) ==
  /\ StoreFaults /\ wants[c] # NoRequest /\ ClientReturns(c)
  /\ UNCHANGED <<storeVars, diskVars, phase, workerVars>>

(* cancel and retry: one transaction each, refused in any other state. *)
Cancel(j) ==
  /\ phase = "up" /\ ValidTransition(state[j], "Cancelled") /\ SetState(j, "Cancelled")
  /\ UNCHANGED <<request, attempt, index, diskVars, phase, workerVars, clientVars>>

Retry(j) ==
  /\ phase = "up" /\ state[j] \in {"FailedRetryable", "Interrupted"}
  /\ SetState(j, "Queued")
  /\ UNCHANGED <<request, attempt, index, diskVars, phase, workerVars, clientVars>>

-----------------------------------------------------------------------------
(* execute_copy_inner *)

Goto(w, p) == pc' = [pc EXCEPT ![w] = p]
At(w, p) == phase = "up" /\ pc[w] = p
StateOf(w) == state[job[w]]
TargetFor(w) == TargetOf[request[job[w]]]

(* The `?` operator: the call goes on in execute_copy's error handler. *)
Raise(w, kind) ==
  /\ Goto(w, "error") /\ error' = [error EXCEPT ![w] = kind]
  /\ UNCHANGED <<job, canRetry>>
Continue(w, p) == Goto(w, p) /\ UNCHANGED <<job, error, canRetry>>

ReturnCall(w) ==
  /\ Goto(w, "idle") /\ job' = [job EXCEPT ![w] = 1]
  /\ error' = [error EXCEPT ![w] = "none"] /\ canRetry' = [canRetry EXCEPT ![w] = FALSE]

(* A transition of the worker's job: refused, lost, or made durable. *)
Advance(w, to, p) ==
  /\ \/ /\ ValidTransition(StateOf(w), to) /\ SetState(job[w], to) /\ Continue(w, p)
     \/ /\ ~ValidTransition(StateOf(w), to) \/ StoreFaults
        /\ Raise(w, "permanent") /\ UNCHANGED state
  /\ UNCHANGED <<request, attempt, index>>

Execute(w, j) ==
  /\ At(w, "idle") /\ Exists(j)
  /\ Goto(w, "begin") /\ job' = [job EXCEPT ![w] = j]
  /\ UNCHANGED <<storeVars, diskVars, phase, error, canRetry, clientVars>>

(* Only a queued job is run; the claim is a later transaction. *)
Begin(w) ==
  /\ At(w, "begin")
  /\ \/ StateOf(w) = "Queued" /\ Continue(w, "prepare")
     \/ (StateOf(w) # "Queued" \/ ReadFaults) /\ Raise(w, "permanent")
  /\ UNCHANGED <<storeVars, diskVars, phase, clientVars>>

Prepare_Unchecked(w) ==   \* mutant
  /\ At(w, "prepare") /\ SetState(job[w], "Preparing") /\ Continue(w, "open")
  /\ UNCHANGED <<request, attempt, index, diskVars, phase, clientVars>>
Prepare(w) ==
  /\ At(w, "prepare") /\ Advance(w, "Preparing", "open")
  /\ UNCHANGED <<diskVars, phase, clientVars>>

(* Unavailable is retryable; Changed, Permanent and a bad snapshot are not. *)
OpenSource(w) ==
  /\ At(w, "open")
  /\ Continue(w, "stage") \/ Raise(w, "retryable") \/ Raise(w, "permanent")
  /\ UNCHANGED <<storeVars, diskVars, phase, clientVars>>

(* The staging directory is emptied and created anew; a failure may leave it *)
(* in either state, and is permanent.                                        *)
PrepareStaging(w) ==
  /\ At(w, "stage")
  /\ \/ staging' = [staging EXCEPT ![job[w]] = "empty"] /\ Continue(w, "encode")
     \/ /\ Raise(w, "permanent")
        /\ \E s \in {staging[job[w]], "absent"} : staging' = [staging EXCEPT ![job[w]] = s]
  /\ UNCHANGED <<storeVars, bundle, synced, phase, clientVars>>

StartEncoding(w) ==
  /\ At(w, "encode") /\ Advance(w, "Encoding", "create")
  /\ UNCHANGED <<diskVars, phase, clientVars>>

(* encode_to_paths: outputs are created, which must be new, and filled; a    *)
(* failure, or a cancellation seen on the way, removes them again.           *)
CreateOutput(w) ==
  /\ At(w, "create")
  /\ \/ /\ staging[job[w]] = "empty"
        /\ staging' = [staging EXCEPT ![job[w]] = "partial"] /\ Continue(w, "copy")
     \/ /\ Raise(w, "retryable") \/ Raise(w, "permanent")
        /\ staging' = [staging EXCEPT ![job[w]] = "empty"]
  /\ UNCHANGED <<storeVars, bundle, synced, phase, clientVars>>

CopyOutput(w) ==
  /\ At(w, "copy")
  /\ \/ staging' = [staging EXCEPT ![job[w]] = "full"] /\ Continue(w, "check")
     \/ /\ Raise(w, "retryable") \/ Raise(w, "permanent")
        /\ staging' = [staging EXCEPT ![job[w]] = "empty"]
  /\ UNCHANGED <<storeVars, bundle, synced, phase, clientVars>>

(* is_cancelled: a read that fails counts as no. *)
SeesActive(w) == StateOf(w) # "Cancelled" \/ ReadFaults

(* The manifest is recorded and the directory synced; then, a last look at   *)
(* whether the job was cancelled.                                            *)
CheckCancelled(w) ==
  /\ At(w, "check")
  /\ \/ /\ StateOf(w) = "Cancelled" /\ Raise(w, "permanent")
        /\ staging' = [staging EXCEPT ![job[w]] = "absent"]
     \/ SeesActive(w) /\ Continue(w, "startCommit") /\ UNCHANGED staging
     \/ Raise(w, "permanent") /\ UNCHANGED staging
  /\ UNCHANGED <<storeVars, bundle, synced, phase, clientVars>>

StartCommit_Unchecked(w) ==   \* mutant
  /\ At(w, "startCommit") /\ Continue(w, "look")
  /\ state' = [state EXCEPT ![job[w]] = IF @ = "Cancelled" THEN @ ELSE "Committing"]
  /\ UNCHANGED <<request, attempt, index, diskVars, phase, clientVars>>
StartCommit(w) ==
  /\ At(w, "startCommit") /\ Advance(w, "Committing", "look")
  /\ UNCHANGED <<diskVars, phase, clientVars>>

-----------------------------------------------------------------------------
(* LocalBundleDestination::commit *)

(* A bundle already there is accepted if its marker names the same key. *)
SameKey_AnyBundle(there, w) == TRUE   \* mutant
SameKey(there, w) == there.key = request[job[w]]

LookAtTarget(w) ==
  LET there == bundle[TargetFor(w)] IN
  /\ At(w, "look")
  /\ \/ there = NoBundle /\ Continue(w, "mark")
     \/ there # NoBundle /\ SameKey(there, w) /\ Continue(w, "succeed")
     \/ there # NoBundle /\ Raise(w, "permanent")   \* another key, or unreadable
  /\ UNCHANGED <<storeVars, diskVars, phase, clientVars>>

WriteMarker(w) ==
  /\ At(w, "mark")
  /\ \/ staging[job[w]] = "full" /\ Continue(w, "rename")
        /\ staging' = [staging EXCEPT ![job[w]] = "marked"]
     \/ Raise(w, "retryable") /\ UNCHANGED staging
  /\ UNCHANGED <<storeVars, bundle, synced, phase, clientVars>>

(* rename(2) moves the directory at once, and never over another bundle. *)
MayRenameOnto_AnyTarget(g) == TRUE   \* mutant
MayRenameOnto(g) == bundle[g] = NoBundle

Rename(w) ==
  LET g == TargetFor(w) j == job[w] IN
  /\ At(w, "rename")
  /\ \/ /\ MayRenameOnto(g) /\ staging[j] # "absent"
        /\ bundle' = [bundle EXCEPT ![g] = [key |-> request[j], content |-> staging[j]]]
        /\ staging' = [staging EXCEPT ![j] = "absent"]
        /\ synced' = synced \ {g} /\ Continue(w, "sync")
     \/ Raise(w, "retryable") /\ UNCHANGED diskVars
  /\ UNCHANGED <<storeVars, phase, clientVars>>

SyncParent(w) ==
  /\ At(w, "sync")
  /\ \/ synced' = synced \cup {TargetFor(w)} /\ Continue(w, "succeed")
     \/ Raise(w, "retryable") /\ UNCHANGED synced
  /\ UNCHANGED <<storeVars, staging, bundle, phase, clientVars>>

-----------------------------------------------------------------------------
(* The outcome. *)

Succeed(w) ==
  /\ At(w, "succeed")
  /\ \/ /\ ValidTransition(StateOf(w), "Succeeded") /\ SetState(job[w], "Succeeded")
        /\ ReturnCall(w)
     \/ /\ ~ValidTransition(StateOf(w), "Succeeded") \/ StoreFaults
        /\ Raise(w, "permanent") /\ UNCHANGED state
  /\ UNCHANGED <<request, attempt, index, diskVars, phase, clientVars>>

(* The handler leaves alone a job it sees cancelled, and reads the attempt   *)
(* count of any other; a read that fails counts as attempt 0.                *)
AttemptsRead(w) == {attempt[job[w]]} \cup (IF ReadFaults THEN {0} ELSE {})

MayRetry_NoLimit(w, seen) == error[w] = "retryable"   \* mutant
MayRetry(w, seen) == error[w] = "retryable" /\ seen < RetryLimit

HandleError(w) ==
  /\ At(w, "error")
  /\ \/ StateOf(w) = "Cancelled" /\ ReturnCall(w)
     \/ /\ SeesActive(w) /\ Goto(w, "fail") /\ UNCHANGED <<job, error>>
        /\ \E seen \in AttemptsRead(w) :
             canRetry' = [canRetry EXCEPT ![w] = MayRetry(w, seen)]
  /\ UNCHANGED <<storeVars, diskVars, phase, clientVars>>

(* fail: whatever this write does, the caller gets the first error. *)
Fail(w) ==
  LET to == IF canRetry[w] THEN "FailedRetryable" ELSE "FailedPermanent" IN
  /\ At(w, "fail") /\ ReturnCall(w)
  /\ \/ /\ ValidTransition(StateOf(w), to) /\ SetState(job[w], to)
        /\ attempt' = [attempt EXCEPT ![job[w]] = @ + 1]
     \/ /\ ~ValidTransition(StateOf(w), to) \/ StoreFaults
        /\ UNCHANGED <<state, attempt>>
  /\ UNCHANGED <<request, index, diskVars, phase, clientVars>>

-----------------------------------------------------------------------------
(* Stop and restart. *)

(* A rename whose directory was not synced may be undone by a power loss.    *)
(* (Whether the files reappear under staging is immaterial: every run        *)
(* empties its staging directory first.)                                     *)
Losable == {g \in Target : PowerLoss /\ bundle[g] # NoBundle /\ g \notin synced}

Stop ==
  /\ phase' = "down"
  /\ pc' = [w \in Worker |-> "idle"] /\ job' = [w \in Worker |-> 1]
  /\ error' = [w \in Worker |-> "none"] /\ canRetry' = [w \in Worker |-> FALSE]
  /\ wants' = [c \in Client |-> NoRequest] /\ newId' = [c \in Client |-> 1]
  /\ \E lost \in SUBSET Losable :
       bundle' = [g \in Target |-> IF g \in lost THEN NoBundle ELSE bundle[g]]
  /\ UNCHANGED <<storeVars, staging, synced>>

Start ==
  /\ phase = "down" /\ phase' = "opening"
  /\ UNCHANGED <<storeVars, diskVars, workerVars, clientVars>>

(* open: recover_in_process, one transaction a job, before any worker runs. *)
ToRecover_CommittingKept == {j \in Job : state[j] \in InProcess \ {"Committing"}}   \* mutant
ToRecover == {j \in Job : state[j] \in InProcess}

RecoverJob ==
  /\ phase = "opening" /\ ToRecover # {}
  /\ SetState(Min(ToRecover), "Interrupted")
  /\ UNCHANGED <<request, attempt, index, diskVars, phase, workerVars, clientVars>>

(* A list or a write that fails makes open fail: what is done stays recovered. *)
OpenFails ==
  /\ phase = "opening" /\ (ReadFaults \/ (StoreFaults /\ ToRecover # {}))
  /\ phase' = "down"
  /\ UNCHANGED <<storeVars, diskVars, workerVars, clientVars>>

OpenReturns ==
  /\ phase = "opening" /\ ToRecover = {} /\ phase' = "up"
  /\ UNCHANGED <<storeVars, diskVars, workerVars, clientVars>>

Run(w) ==
  \/ Begin(w) \/ Prepare(w) \/ OpenSource(w) \/ PrepareStaging(w) \/ StartEncoding(w)
  \/ CreateOutput(w) \/ CopyOutput(w) \/ CheckCancelled(w) \/ StartCommit(w)
  \/ LookAtTarget(w) \/ WriteMarker(w) \/ Rename(w) \/ SyncParent(w)
  \/ Succeed(w) \/ HandleError(w) \/ Fail(w)

Next ==
  \/ \E c \in Client : \/ \E r \in Request : EnqueueReadId(c, r)
                       \/ EnqueueKnown(c) \/ EnqueueInsert(c) \/ EnqueueFails(c)
  \/ \E j \in Job : Cancel(j) \/ Retry(j)
  \/ \E w \in Worker : Run(w) \/ \E j \in Job : Execute(w, j)
  \/ Stop \/ Start \/ RecoverJob \/ OpenFails \/ OpenReturns

Spec == Init /\ [][Next]_vars

-----------------------------------------------------------------------------
TypeOK ==
  /\ request \in [Job -> Request \cup {NoRequest}] /\ state \in [Job -> State]
  /\ attempt \in [Job -> Nat] /\ index \in [Request -> Job \cup {0}]
  /\ staging \in [Job -> Staging]
  /\ bundle \in [Target -> [key : Request, content : Staging] \cup {NoBundle}]
  /\ synced \subseteq Target /\ phase \in {"down", "opening", "up"}
  /\ pc \in [Worker -> PC] /\ job \in [Worker -> Job]
  /\ error \in [Worker -> {"none", "retryable", "permanent"}]
  /\ canRetry \in [Worker -> BOOLEAN]
  /\ wants \in [Client -> Request \cup {NoRequest}]
  /\ newId \in [Client -> 1..(Cardinality(Request) + 1)]

(* A job recorded as succeeded has its bundle at its target, whole and under *)
(* its own key, whatever failed, was retried or stopped on the way.          *)
SucceededIsPublished ==
  \A j \in Job : state[j] = "Succeeded" =>
    bundle[TargetOf[request[j]]] = [key |-> request[j], content |-> "marked"]

(* Every bundle at the destination is complete, and stays as it was          *)
(* committed: no other job, retry or restart replaces or empties it.         *)
BundlesAreImmutable ==
  [][\A g \in Target :
       /\ bundle[g] # NoBundle => bundle'[g] = bundle[g]
       /\ bundle'[g] # NoBundle => bundle'[g].content = "marked"]_vars

(* A job that is cancelled publishes nothing from then on.                   *)
CancelledPublishesNothing ==
  [][\A j \in Job : state[j] = "Cancelled" =>
       LET g == TargetOf[request[j]] IN
       bundle[g] = NoBundle => bundle'[g] = NoBundle \/ bundle'[g].key # request[j]]_vars

(* At most one call works in a job's staging directory: no two workers mix   *)
(* their files in one bundle.                                                *)
Stages(w) == pc[w] \in {"stage", "encode", "create", "copy", "check", "startCommit", "look",
                        "mark", "rename"}
OneStager ==
  \A v, w \in Worker : Stages(v) /\ Stages(w) /\ job[v] = job[w] => v = w

(* While the queue is up, a job in process has a call that will settle it;   *)
(* after a stop, recovery has left none behind that no retry could reach.    *)
NoOrphans ==
  phase = "up" => \A j \in Job : state[j] \in InProcess =>
    \E w \in Worker : job[w] = j /\ pc[w] \notin {"idle", "begin", "prepare"}

(* Retries are bounded: after RetryLimit retryable failures the next failure *)
(* is permanent.  Only while no read fails, whatever writes do: a count that *)
(* cannot be read is taken for 0.                                            *)
RetryBudget ==
  \A j \in Job : /\ state[j] = "FailedRetryable" => attempt[j] =< RetryLimit
                 /\ attempt[j] =< RetryLimit + 1

(* "A duplicate key is safe to replay": the index and the records agree, so  *)
(* a key has one job, however enqueues race for an identifier.               *)
IndexAgrees ==
  /\ \A r \in Request : index[r] # 0 => request[index[r]] = r /\ Exists(index[r])
  /\ \A j \in Job : Exists(j) => index[request[j]] = j

(* A job is recorded as permanently failed only by a call that ran it: no    *)
(* other call is then still working on it.                                   *)
Running(w, j) == job[w] = j /\ pc[w] \notin {"idle", "begin", "prepare", "error", "fail"}
FailureIsTheJobsOwn ==
  [][\A j \in Job : state[j] # "FailedPermanent" /\ state'[j] = "FailedPermanent" =>
       \A w \in Worker : ~Running(w, j)]_vars

(* A job recorded as succeeded has its bundle, after a power loss as well:   *)
(* the record is durable, and commit syncs the directory that names it.      *)
SucceededIsDurable ==
  \A j \in Job : state[j] = "Succeeded" =>
    bundle[TargetOf[request[j]]] # NoBundle

=============================================================================
