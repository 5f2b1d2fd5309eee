# RustTable: a verification project in TLA+

RustTable is a port of darktable to Rust.  The repository holds both sides of
it: the Rust workspace in `src/crates`, and the darktable sources it is ported
from in `src/src` (C), which the repository keeps as its "porting oracle": the
behaviour the port has to preserve.  This project models the parts of both whose
correctness depends on the order in which threads, calls, failures and restarts
happen, checks the models with TLC on small instances and proves theorems about
most of them with TLAPS for all instances.  Where the two sides have the same
component, the cache, both are shown to implement one abstract specification.

Everything is translated from the source; `PROJECT.json` maps each definition
to the lines it stands for.  Paths below are relative to `src/crates` (names
that begin with `rusttable-`) or to `src/src` (all others).

## 1. Inventory

The components whose control is worth a model.  Those in bold are modelled.

### darktable (C)

| Component | State | Operations | What is hard | What makes it correct |
|---|---|---|---|---|
| **Background jobs**, `control/jobs.c`, `control/control.c`, `control/progress.c`, `libs/backgroundjobs.c` | five queues, one slot a reserved worker, the job each worker has, the run state, a count of pending jobs | add, find equal, push out, schedule, run, cancel, free, quit, join | five locks and flags read outside of them; a job cancelled while it is taken, or when it is freed already; a sleep after the last broadcast | one owner a job; one export at a time; queued jobs are served; quitting joins everybody |
| **LRU cache**, `common/cache.c`, and its use by `common/mipmap_cache.c` | table, LRU list, cost, a read/write lock an entry, the demotion flag | get, test, remove, collect, release; get a thumbnail, generate and demote | locks tried under the mutex, released without; a demotion is a release and a get | leases exclude; leased entries stay; nobody spins for ever |
| **Pixelpipe**, `develop/develop.c`, `develop/pixelpipe_hb.c`, `develop/pixelpipe_cache.c` | dirty and changed flags, stop flag, cache lines with names, sizes and ages, back buffer | edit, zoom, toggle, expose; run, restart, abort; hit, reserve, invalidate, free | the GUI writes the flags, and the cache, of a pipe that runs; the line reused next | a line holds what its name says; input stays while it is read; what is shown in the end is due |
| **History and undo**, `develop/develop.c`, `libs/history.c`, `common/undo.c`, `common/history.c` | the history and its end, the controls, the instances; two lists with groups | edit, click, duplicate, remove, truncate, compress, undo, redo, rate; a job that pastes or applies a style | the lists are shared with a job; undo exchanges states over instances that come and go | undo and redo walk along the states there were; groups move whole; controls show the history |
| Image cache, image records, film rolls | database rows behind the LRU cache | lock, write back | two threads, one row | no lost write |
| OpenCL | device locks, priority lists, events | lock, enqueue, release | devices shared by pipes | one pipe a device |
| Camera, import, Lua | sessions, the interpreter lock, a queue of calls | | callbacks of libraries | |
| Everything else (image operations, file formats, SQL, widgets, views) | none shared between threads | computation, input and output, one GUI thread | | tests fit better than a model |

### RustTable (Rust)

| Component | State | Operations | What is hard | What makes it correct |
|---|---|---|---|---|
| **Concurrent MRU cache**, `rusttable-image/src/common/cache.rs` | key map, pending keys, MRU queue, cost account, a read/write lease per entry | `acquire`, `try_acquire`, `remove`, `gc`, `set_cost_quota`, lease drop and demotion; callbacks that may fail or panic | callbacks run outside the mutex; waiters on two conditions; collection skips leased entries; overflowing costs | leases exclude; a leased entry stays published; one allocation a key; no lost wake-up, no lost value |
| **Pixelpipe cache**, `rusttable-pixelpipe/src/cache` | resident entries (in the cache above), flights, failures, the keys being invalidated | `lookup`, `get_or_build`, `invalidate`, `set_budget`, `shutdown` | one shared build for many callers, each of which may be cancelled; invalidation racing a build | one build a key; nothing stale is returned or kept; a caller's cancellation is its own |
| **Durable export queue**, `rusttable-export/src/queue*.rs`, `encoders/copy.rs` | job records and an idempotency index in a database, staging directories, the published bundle | `enqueue_copy`, `execute_copy`, `cancel`, `retry`, `open` with recovery | crash between two effects; two workers on one job; failing writes; retries | one job a key; succeeded means published; bundles are never replaced; nothing is left in process |
| **CPU scheduler**, `rusttable-pixelpipe/src/scheduler` | task records, a queue and a deficit per class, resource accounts | `submit`, `start_next`, `run_task`, `complete_*`, `cancel`, `shutdown` | tokens cancelled at any moment; dependencies; accounts along every way out | accounts balance and stay in limits; dependency order; no stall |
| Thumbnail lifecycle, host buffer pool, disk destination, application lifecycle, previews, edit commits, catalogue history, import, cancellation and publication, GPU resources, scripting host, configuration, diagnostics | | | late results, quotas, collisions, device loss, budgets | |
| Everything else (kernels, colour, codecs, widgets, tools) | none shared | pure functions, I/O | | tests fit better than a model |

All components, with the reason for each that is not modelled, are in
`PROJECT.json`.

How they interact.  In darktable the GUI thread edits the history, marks the
pipe and adds jobs; a worker of the job pool runs the pipe over the history and
leaves a back buffer for the GUI to show; thumbnails, exports, pasting and
styles are jobs too, that take images through the image cache and thumbnails
through the mipmap cache, both on top of the LRU cache, and that record what
they do in the undo lists of the GUI.  In RustTable the application sends
renders through the pixel pipeline, which asks the pixelpipe cache for
intermediate images; that cache keeps its values in the concurrent cache.
Exports go through the durable queue.  The CPU scheduler is a reference model of
the executor's admission and order: tests and `xtask` drive it.

## 2. The modules

| Module | Models | Role |
|---|---|---|
| `LeaseCache` | what both caches promise | abstract specification |
| `NativeCache` | `common/cache.c`, `dt_mipmap_cache_get` | implements `LeaseCache` |
| `ConcurrentCache` | `rusttable-image/src/common/cache.rs` | implements `LeaseCache` |
| `DataFacts` | | lemmas about sequences without repetitions, least elements, and sums over finite sets, for all the proofs |
| `ConcurrentCacheProofs` | | the inductive invariant of `ConcurrentCache`, its theorems, and that it implements `LeaseCache` |
| `ControlJobs` | `control/jobs.c` and its neighbours | job queues, workers, quitting |
| `ControlJobsProofs` | | the invariants of the job queues and their theorems |
| `PixelPipe` | the darkroom's full pipe, its job, its cache, the GUI's writes | |
| `PixelPipeProofs` | | the inductive invariant of `PixelPipe` and its theorems |
| `Timeline` | what undo promises | abstract specification |
| `DevelopHistory` | history, undo lists, the job that writes them | implements `Timeline` |
| `CommonProofs` | | the inductive invariants of `NativeCache` and of `DevelopHistory`, their theorems, and that they implement `LeaseCache` and `Timeline` |
| `PixelCache` | `rusttable-pixelpipe/src/cache/mod.rs` | shared builds, invalidation, shutdown over an atomic resident cache |
| `PixelCacheProofs` | | the inductive invariant of `PixelCache` and its theorems |
| `ExportQueue` | `rusttable-export/src/queue.rs`, `queue_store.rs`, `encoders/copy.rs` | job records, the copy executor, stop and recovery |
| `ExportQueueProofs` | | the inductive invariant of `ExportQueue` and its theorems |
| `CpuScheduler` | `rusttable-pixelpipe/src/scheduler/*.rs` | admission, choice, accounts, cancellation, shutdown |
| `CpuSchedulerProofs` | | the inductive invariant of `CpuScheduler` and its theorems |
| `MC...` | | the constants of the instances TLC checks |

### LeaseCache and the two caches

`LeaseCache` has two variables: the value under each key and the lease each
thread holds.  A lease is taken on a published value, or on one a miss
publishes, if it is compatible with the others; it is released or demoted; a
value without a lease may be evicted.  Both refinements are stated by
`ImplementsLeases`: the value is the table, the lease is read off the locks and
the position of the thread's call.  What is hidden, the pending keys, the LRU
lists, the costs, the removal marks, the retries, shows as stuttering.

`NativeCache`: `hashtable`, `lru`, `cost` are `dt_cache_t`; `lock` its mutex when
it is kept over several steps (a collection, whose looks at the locks of entries
interleave with releases, which do not take the mutex).  `readers`, `writer` are
the lock of an entry, `demoting` is `_lock_demoting`, `generate` the flag by which
the thumbnail cache knows a buffer it has to fill.  A caller that finds a lock
taken drops the mutex and tries again: here its step is not enabled.
`GetHit`, `GetOver`, `GcStep`, `GcEnd`, `Allocate` are `dt_cache_get`; `TestGet` is
`dt_cache_testget`; `RemoveMissing`, `RemoveEntry` are `dt_cache_remove`; `Got`,
`Generate`, `Demote` are the thumbnail cache around it, whose demotion calls
`dt_cache_get` again.

`ConcurrentCache`: `entries`, `pending`, `lru`, `cost`, `quota` are `CacheState`;
`readers`, `writer`, `removed` the `LeaseState` of each entry; `pc`, `op`,
`key`, `mode`, `slot`, `gced`, `idx`, `ratio`, `bag`, `failed` the locals of
each thread's call.  `asleep` holds the threads in a condition wait; spurious
wake-ups are not modelled, they only repeat a test.  `lock` is the holder of the
state mutex when it is kept over several steps, which only a collection does.
`live` is history: the allocations that no cleanup has received yet.  A `Slot`
stands for an `Arc<Entry>` and may be reused once nothing refers to it, so runs
are not bounded in length.  `acquire` is `StartAcquire`, `Lookup*`,
`EntryAcquire`, `Confirm*`, `Allocate*`, `Publish`; `remove` shares the first
steps and continues with `TakeValue`, `Cleanup`, `FinishPending`; `gc` is the
`Gc*` actions.

### ControlJobs

One action is one critical section or one access to a shared variable.  A client
creates a job (`Create`), and `dt_control_add_job` is `AddSynchronous` (for a job of
the synchronous queue, or after the program has stopped) or `TestRunning`, `AddFifo`,
`AddScheduledAlready`, `AddQueuedAlready`, `AddOnTop`, then `Notify` and
`DropDuplicate` or `DiscardDuplicate`; `AddReserved` is `dt_control_add_job_res`.
A worker goes round `CheckRunning`, `Schedule` (or `TakeReserved`), `TestQueued`,
`Execute`, `Return`, `Clear`, `Free`, or `Sleep`.  `Kicker` is the thread that
broadcasts every two seconds, `Quit`, `Shutdown`, `Joined` the end of the program.  A
job object stands for a recurring job and is used again after it was freed.

The GUI thread (`Gui`) has the buttons of the progress bars, `buttons`.  Freeing a job
destroys its progress but only asks the GUI loop to take the button away
(`HideButton`), so a click (`Cancel`) may come when progress and job have been freed,
or when another job stands in the same place, which is then cancelled in its stead.
The callback reads the job in the progress and later sets its state, under no lock that
the workers know; `Cancel` is the step in which the state is set, for all buttons still
shown.  The click may be earlier, but until its callback returns the GUI thread removes
no button, so a step of its own for the click would add no behaviour.  What is read in
a freed progress is undefined; the model has three outcomes: the job it belonged to is
found and nothing happens to it, that job is written to although it is freed (with
`StrayWrites`), and another job in its place is cancelled.  A crash is not modelled, it
ends all behaviour.  `_cancellable_gui_thread` also adds the button asynchronously; here
it is there when the job has been created.

### PixelPipe

Modules are positions in the pipe, a parameter set is a number and stands for
its hash, a buffer is the record of what was computed into it.  The job is
`dt_dev_process_image_job` (`StartJob` to `Valid`) around the recursion of
`_dev_pixelpipe_process_rec`: downwards until a cache line is hit (`Down`, `Hit`,
`InitBase`), upwards with a line reserved, a module run and its line settled for
each position (`Reserve`, `Process` or `Bypass`, `Processed`, `CopyBackbuf`).  The
cache operations (`GetCacheLine`, `Get`, `Freed`, `Invalid...`) are functions on
the state of the cache.  The GUI thread performs gestures: a gesture makes its
first assignment at once and the others one by one (`todo`), between any two
steps of the job.  `Expose` is the redraw that adds the job; an image that does not fit
the view (`misfit`, without the code's tolerances of some pixels and a part of the
scale) announces a zoom, the absence of an image does not.  `behind` stands for the
comparison of `dev->timestamp` with the pipe's `input_timestamp`: whatever raises the
one makes it true, and the start of a run, which copies the one to the other, makes it
false.  `interrupted` is
history: a run was stopped within a module since the last flush.

### DevelopHistory and Timeline

`history`, `end` are `dev->history`, `dev->history_end`; `lists` is
`darktable.undo` (two lists of marks, edits and other records, the open group,
`disable_next`); `level`, `recording` are the counters of `libs/history.c`
between the will-change and the change signal.  A handler of the GUI thread is
one action (`Edit`, `Duplicate` and `ListCopy`, `DeleteCopy`, `Click`, `Truncate`
for truncating and compressing, `Discard`, `Rate`, `Undo`, `Redo`, `ChangeImage`);
each call of the job into `undo.c` is one action, since that is what the mutex
makes atomic.  A handler is one action although rating processes GUI events between
its record and the end of its group, and although another image is loaded from an idle
callback: `ChangeImage` is the net effect, the lists emptied twice.  `AlwaysOn` joins the
modules that are on by default with those whose button is hidden; the periods in which
records are undone together are units of a clock, where the code compares
differences with half a second.  `Timeline` has the states before the present one, the present,
and those after it; `WalksTheTimeline` shows that the two lists, stripped of
marks and of other records, implement it.

### PixelCache

`entries` is the resident cache, taken as atomic (a hit gives a read lease, a
miss allocates what `pending` offers, a removal waits for the leases, a
collection takes any unleased entries).  A publication whose pending value a lookup has
taken, and whose entry is gone again, fails (`Allocate`).  `pending` and `invalidating` are
`ResidentState`; `inFlight`, `failures`, `sequence`, `shutdown` are `Inner`;
`publication` is the holder of that mutex; `flight` is `InFlight` together with
the value its builder makes (`pins` is the value's pin count, `birth` the number
of invalidations that had begun when its builder started, plus one).  `lookup`
is `Probe`, `Acquire`, `Recheck`; `stage` says from which of its four call sites
it was called.  An owner runs `Join`, `Register`, `StartBuild`,
`BuilderReturns`, `Publish`, `Allocate`, `Complete`, `Leave`; a waiter `Wait`
after `Register`.  `floor` and `settled` are history for `NothingStale`.
`Errors` keeps the errors the control tells apart: `BuildFailed` stands for the
three that are remembered, `NotCacheable` for those that are not.

### ExportQueue

`request`, `state`, `attempt`, `index` are the two tables; each action on them
is one redb transaction.  `staging`, `bundle`, `synced` are what the disk holds;
the process may stop between any two effects (`Stop`), and `Start`, `RecoverJob`,
`OpenReturns` are `open`.  Each worker runs `execute_copy` (`Begin` to
`Succeed`, with `HandleError` and `Fail` as its error path), each client
`enqueue_copy`.  A `Request` stands for an idempotency key.  The content of
files is abstracted to how far a staging directory has come.  With `StoreFaults`
a write transaction may fail, with `ReadFaults` a read: `execute_copy` fails, but
`is_cancelled` takes such a job as not cancelled (`SeesActive`) and the retry limit
takes its count for 0 (`AttemptsRead`).  With `PowerLoss` a stop also loses renames whose
directory was not synced.

### CpuScheduler

The variables are those of `CpuScheduler`, `TaskRecord` and `QueueState`.  All
calls take `&mut self`, so they do not overlap; the tokens of tasks may be
cancelled at any time, also between the tasks that one `start_next` refreshes,
hence `todo`.  Time counts in units of `aging_after`.

## 3. What is checked

Every property has a mutant: a plausible bug of the code (`... \* mutant` next
to the definition it changes) under which TLC finds the property violated.

| Run | Instance | Properties |
|---|---|---|
| `native_two_keys` | 2 threads, 2 keys, costs 1 and 2, quota 2, the image cache's and the thumbnail cache's use, fair threads | `WellFormed`, `ImplementsLeases`, `Drains` |
| `cache_two_keys` | 2 threads, 2 keys, callbacks, costs 1 and 2, quotas 0 and 1, `MaxCost` 2 | `TypeOK`, `LeaseExclusion`, `HeldStaysPublished`, `SingleFlight`, `Bookkeeping`, `ImplementsLeases` |
| `cache_drains` | 3 threads, 1 key, cache of `new`, quotas 0 and 1, fair threads | `Drains` |
| `jobs_queues` | 1 client, 2 workers, 3 thumbnail jobs (2 of them equal), 2 exports, one with a cancel button, a stack of 1, priorities below 6 | `WellFormed`, `OneOwner`, `ExportsOneAtATime` |
| `jobs_served` | 1 client, 1 worker, 1 reserved worker, a scan, a thumbnail, a reserved job and one that runs where it is added, a stack of 1, the user may quit; fair threads, kicker and joins | `HeadsAreServed`, `Served`, `ShutdownEnds` |
| `pipe_runs` | 2 modules and gamma, 5 cache lines, memory for 4 lines of a part, 2 gestures | `WellFormed`, `InputIntact`, `LinesHoldWhatTheySay`, `ShownIsDue` |
| `pipe_hits` | the same | `HitsReturnData` (violated) |
| `history_walk` | a module with one possible copy, a module that is always on, 5 steps | `HistoryWellFormed`, `ControlsShowHistory`, `WalksTheTimeline` |
| `pixel_two` | 2 threads, 1 key, 1 invalidation, oversize and fitting budgets, fair threads | `TypeOK`, `OneBuildAKey`, `NothingStale`, `BuildServesConsumers`, `Drains` |
| `export_enqueue` | 2 requests, 1 worker, 2 clients, 1 retry | `IndexAgrees`, `RetryBudget`, `SucceededIsPublished`, `NoOrphans` |
| `export_faults` | 2 requests for one target, 2 workers, failing reads and writes | `TypeOK`, `OneStager`, `CancelledPublishesNothing`, `BundlesAreImmutable` |
| `sched_chain` | 4 tasks: a chain through three classes, the last task in the first class, and one beside it | `WellFormed`, `DependencyOrder`, `NoStall`, `AbortAllStops` |

The properties are next to the actions in the modules, each with a comment that
says it in words.  The ones worth a second look:

- `ImplementsLeases`, of both caches: whatever the locks, retries, removal marks
  and collections do, each step is one of the abstract cache's, or invisible.
- `LinesHoldWhatTheySay`: the picture of a mask is computed under the name the
  image would have, modules after it hand it on under theirs, and the GUI changes
  what names mean while lines are being made; still no name a later run can hit
  stands on anything but what it says, and no two lines share one.
- `WalksTheTimeline`: the lists hold snapshots of the state before a change, and
  undoing exchanges them with the present one, several at a time; the user sees
  nothing of this but a line of states and a position on it.
- `GroupsMoveWhole` (in `HistoryWellFormed`): the list of the GUI carries the groups of
  jobs, and as long as nobody undoes, clears or records what the darkroom does not
  undo while one is open, no list ever holds half of one.
- `OneOwner` and `PendingExact` (in `WellFormed`) of `ControlJobs`: over equal
  jobs, overflow, cancellation and replacement.
- `HeadsAreServed`: a job at the head of a queue is passed over only a bounded
  number of times, as each time raises its priority.  The bound (`PassedOver`)
  is a foreground job's priority, the other queues, and the thumbnails that may
  be in the stack at once.  Two heads have no such bound: that of the exports,
  since it waits for the export that runs, and that of the stack, since a thumbnail
  that is not on top is not passed over but waits, and comes to the top again
  whenever an export wins.
- `OneBuildAKey`: an invalidation marks the keys it is about to remove
  (`invalidating`), and a value is not kept under a marked key.  The set is one for
  all invalidations, so the first of two overlapping ones to be done with a key
  takes the mark of both; a value may then be published, and another build of the
  key begin, before the second removes that value.  So the property says that
  beside an entry of its key a builder runs only if the entry is *doomed*: an
  invalidation in progress has still to remove it.
- `NothingStale`, `SucceededIsPublished`, `BundlesAreImmutable`: see their comments.

Bounds.  Each instance is the smallest with which the hazard it is for can
happen: a third thread is needed to overtake a pair that waits for one key, a
second key for a collection that takes several entries, a second worker or
client for a race, a third thumbnail job for a copy that comes while its like is
pushed out of the stack, a second request for one target for a collision, a chain
of three, against the order of the classes, for a skip that propagates and for a
dependency that ends after its dependent was looked at, a copy next to its base
and an always-on module for the two ways items survive the end of the history,
five cache lines (three with names, for three modules) so that the least recent
line is still of use.  Bounds that are not the code's: `Slot`, `Flight` and `Jobs`
(what is freed is used again), `MaxInvalidations`, `RetryLimit` where it is below
3, `MaxClock` and `MaxDeficit` (time and class deficits), `MaxCost`, which stands
for `usize::MAX` and is small so that the sum can overflow, `PriorityLimit` (256 in
the code; the runs show that priorities stay below the smaller one),
`StackLimit` (30 in the code), `Entries`, `MemLimit`, `MaxGestures`, `MaxSteps`.

Symmetry is used for threads, workers, clients and equal jobs in runs without
liveness.  Deadlock is not checked where the system really may stop: when every
task of the scheduler has ended, when the program has been quit, when the gestures
or steps are used up.  All other runs check for it.

Fairness.  `Drains`, in the three caches, says that once no new call begins every
call in progress returns.  It assumes that a thread whose next step is enabled
takes it in the end (weak fairness of each thread's `Step`): the operating system
runs every thread, callbacks and builders return, and callers drop their leases.
`Served` and `ShutdownEnds` of `ControlJobs` assume the same of workers, of a client
within a call, of the kicker (a loop over `sleep(2)` until the program quits) and
of the thread that quits.  No thread is assumed to win a race for a mutex, and
nobody has to submit, cancel or quit.  The other properties need no fairness.

### Assumptions on the environment

Some properties hold only with the environment restricted; each restriction is
a constant or a named predicate, and lifting it gives a counterexample.

- `RemoveListedOnly` (`history_walk`): only copies whose items are all active are
  removed.  Removing another one raises the will-change signal twice and the
  change signal once, or moves the end of the history below its start
  (`DevelopHistoryDelete.cfg`: `SignalsPaired`, `DevelopHistoryEnd.cfg`: `EndInside`).
- `GuiWaits` (`history_walk`): the GUI does nothing between a job's
  `dt_undo_disable_next` and the record it is for.  Otherwise the user's edit is
  what is not recorded (`DevelopHistoryStyle.cfg`: `WalksTheTimeline`).
- `PastTheTest` (`ShutdownEnds`): no worker has passed its test of the run state
  when the state changes.  One that has may sleep after the last broadcast, and
  the join waits for it; the code does not handle this.
- `StrayWrites` (`OneOwner`): the cancellation of a freed job writes nothing into it.
  Otherwise a freed job gets a state again, and nobody to own it
  (`ControlJobsClick.cfg`).  The run checks, and the theorem proves, the rest: a late
  click on a freed job that is lost, or that hits another job in its place.
- `ReadFaults` (`RetryBudget`): no read of the job's record fails.  A failing one is
  taken for an attempt count of 0, and the job gets a retry beyond the limit
  (`ExportQueueRetries.cfg`).

### Disagreements between the code and what it says of itself

`pipe_hits` is in `PROJECT.json`: a cache line is found and taken in two calls, and
a line invalidated in between by the GUI is taken unwritten.

The other counterexamples have a configuration beside the modules and can be
reproduced with `tlc -config <cfg> MC<module>.tla`:

| Configuration | Property | What happens |
|---|---|---|
| `NativeCacheDemotion.cfg` | `GeneratesWriteLocked` | `common/mipmap_cache.c:977` says "we're write locked here, as requested by the alloc callback".  Two threads demote their locks of one entry at once, the first to be done clears the one flag, a removal deletes the entry, and the second get of the other thread allocates a new one, which it does not fill.  The next reader finds it to be filled, and fills it under a read lock. |
| `ControlJobsCancel.cfg` | `CancelledStaysCancelled` | `control/jobs.h` promises to cancel a job "running or in queue".  A job cancelled between a worker's test for `QUEUED` and its assignment of `RUNNING` (`control/jobs.c:335`) runs to its end. |
| `ControlJobsClick.cfg` | `OneOwner` | `control/progress.c:377` says that cancelling a job destroys the progress structure, and `dt_control_progress_cancel` (`control/progress.c:387-412`) takes it that the progress it is given still exists.  A worker frees progress and job (`control/jobs.c:166-174`) before the GUI loop has removed the button (`libs/backgroundjobs.c:219-228`); a click in between cancels a freed job. |
| `PixelPipeEdits.cfg` | `NoEditForgotten` | `develop/develop.c:824` says that a history change not yet taken restarts the job.  The branch for a pipe that was only zoomed (`develop/develop.c:839`) tests the flags and then clears all of them; an edit made in between is not taken until the next one. |
| `PixelPipeNames.cfg` | `NamesTellParams` | `develop/pixelpipe_cache.c:139` hashes "the operation and params", but the hash of a node is made of the parameters the controls have (`develop/imageop.c:2222`), which a slider writes before the history item exists, while the node runs with those of the history (`develop/imageop.c:2214`). |
| `PixelPipeStuck.cfg` | `Settles` | Switching high quality off stops a pipe that is processing (`views/darkroom.c:1766`).  If the run ends before the stop is set, the next job returns at once because of it (`develop/develop.c:617`) and nothing clears it.  `PixelPipeServed.cfg` shows that this is the only way not to settle. |
| `DevelopHistoryClick.cfg` | `EditsMadeToThatState` | The history panel says that after a click "any edits will be made to that earlier state".  An always-on module whose only item is above the selected state shows its defaults, but its later item becomes active again with the next edit (`develop/develop.c:1196`). |
| `DevelopHistoryGroup.cfg` | `GroupsHandledTogether` | `common/undo.h` says that a group is "handled together".  A job's group that is open while the user undoes, or rates an image outside of what the darkroom undoes, is split between the lists. |
| `ExportQueueOwnFailure.cfg` | `FailureIsTheJobsOwn` | `execute_copy` called on a job that another worker runs records that job as failed for good. |
| `ExportQueueRetries.cfg` | `RetryBudget` | `execute_copy` limits retries to 3 (`rusttable-export/src/queue.rs:444`), but reads the attempt count with `.ok().flatten().map_or(0, ..)`: if that read fails, the count is 0 and one more retry is allowed, as often as it fails. |
| `ExportQueueDurable.cfg` | `SucceededIsDurable` | A retry accepts a bundle whose directory was never synced; a power loss then undoes a commit that is recorded as succeeded. |
| `CpuSchedulerDrain.cfg` | `VisibleTasksDrain` | `shutdown(DrainVisible)` spares visible tasks, but their next boundary reports the shutdown and asks them to stop, so none ever passes. |
| `PixelCachePoisoned.cfg` | `NeverPoisoned` | A lookup may take the value an owner is just publishing, and reports a poisoned cache; the publisher's pin is then never given back. |
| `PixelCacheWaiter.cfg` | `WaitersLeaveAlone` | A call counts as a consumer of a shared build a moment after it has joined it; a waiter cancelled in that moment may cancel the build. |

One more is a matter of words only: `CpuPriority`'s doc calls the order of the
priorities the tie-break order, `select_priority` breaks ties by order of
admission.

## 4. What is proved

Every modelled component has the safety properties of its runs proved for all values
of its constants, by one inductive invariant each; the two caches are also proved to
implement `LeaseCache`, and the edit history to implement `Timeline`.

| Theorem | States |
|---|---|
| **`ConcurrentCacheProofs`** | |
| `IndInvHolds`, `TypeCorrect` | the invariant; `[]TypeOK` |
| `LeasesExclude`, `LeasedStaysPublished`, `AllocationIsSingleFlight` | `[]LeaseExclusion`, `[]HeldStaysPublished`, `[]SingleFlight` |
| `BookkeepingIsExact` | `[]Bookkeeping` |
| `CacheImplementsLeases` | `ImplementsLeases` |
| **`CommonProofs`**, the LRU cache | |
| `IndInvHolds`, `CacheIsWellFormed` | the invariant; `[]WellFormed` |
| `CacheImplementsLeases` | `ImplementsLeases` |
| **`CommonProofs`**, the edit history | |
| `HistoryInvariant`, `HistoryStaysWellFormed` | the invariant; `[]HistoryWellFormed`: types, signals, whole groups |
| `ControlsAlwaysShowHistory` | `[]ControlsShowHistory` |
| `UndoWalksTheTimeline` | `WalksTheTimeline` |
| **`ControlJobsProofs`** | |
| `JobsHaveOneOwner` | `[]OneOwner`, if cancelling a freed job writes nothing into it |
| `OneExportRuns` | `[]ExportsOneAtATime` |
| `QueuesAreWellFormed` | `[]WellFormed`: types, the pending count, no duplicates |
| `HeadsAreServedInTurn` | `[]HeadsAreServed` |
| **`PixelCacheProofs`** | |
| `CacheInvHolds`, `CacheIsWellTyped` | the invariant; `[]TypeOK` |
| `BuildsAreUnique`, `NothingStaleIsServed` | `[]OneBuildAKey`, `[]NothingStale` |
| `BuildsOutliveTheirCallers` | `BuildServesConsumers` |
| **`ExportQueueProofs`** | |
| `Invariant`, `TypeCorrect` | the invariant; `[]TypeOK` |
| `KeyHasOneJob`, `OneCallStages` | `[]IndexAgrees`, `[]OneStager` |
| `RetriesAreBounded` | `[]RetryBudget`, if no database read fails |
| `CancelledStaysUnpublished` | `CancelledPublishesNothing` |
| `CommitsStay`, `SuccessMeansPublished` | `BundlesAreImmutable`, `[]SucceededIsPublished`, if there is no power loss |
| `NothingOrphaned` | `[]NoOrphans`, if no database write fails |
| **`PixelPipeProofs`** | |
| `PipeInvHolds`, `PipeIsWellFormed` | the invariant; `[]WellFormed`: types, the memory of the lines |
| `InputStaysIntact`, `LinesAreHonest` | `[]InputIntact`, `[]LinesHoldWhatTheySay` |
| `ShownImageIsDue` | `[]ShownIsDue` |
| **`CpuSchedulerProofs`** | |
| `SchedulerInvHolds`, `SchedulerIsWellFormed` | the invariant; `[]WellFormed`: types, accounts, reserve, queues |
| `DependenciesComeFirst`, `SchedulerNeverStalls` | `[]DependencyOrder`, `[]NoStall` |
| `AbortAllIsFinal` | `AbortAllStops` |

### Assumptions

The named assumptions of the modules, which TLC evaluates in each run:
`CacheConstants` (both caches), `ConstantsAssumption` and `PriorityIsWide`
(`ControlJobs`), `PipeConstants`, `PixelCacheConstants`, `QueueConstants`,
`SchedulerConstants`, `HistoryAssumption`.
They say that the sets of threads, slots, jobs and tasks are finite where something
is counted or summed, that limits and costs are natural numbers, and that the
values that stand for "none" are none of the values they stand beside
(`NoneIsNoLease` and `NoSlotIsNoLease` say so of leases).  `PriorityIsWide` says
that an `unsigned char` (256) holds the priorities: with the 30 places of the stack
they stay below 40.  `HistoryAssumption` says among others that an always-on module has
no second instance: all modules that set `default_enabled` have `IOP_FLAGS_ONE_INSTANCE`
(but the example `iop/useless.c`).  The theorems of the edit history assume `RemoveListedOnly`, the
last one also `GuiWaits`; they are needed, and `DevelopHistoryDelete.cfg`,
`DevelopHistoryEnd.cfg` and `DevelopHistoryStyle.cfg` are the counterexamples without.  The theorem on the owners of jobs assumes that `StrayWrites` is false, with the
counterexample `ControlJobsClick.cfg`; the other theorems of `ControlJobs` do not.  The
conditions on theorems of `ExportQueue` are needed:
`ExportQueueRetries.cfg` is a counterexample to the retry limit with failing reads,
`ExportQueueDurable.cfg` is a counterexample to the two about bundles with power loss,
and a call whose failing write is its last leaves its job in process until the next
`open`.  Writes may fail in all its other theorems, reads in all but that on retries,
and power may be lost in all but those two.

### Sequences and sums

`DataFacts` has what the proofs need to know of data: removing, adding and taking
the ends of sequences without repetitions, the least of a set of numbers, a first
element in a finite order, and what a sum over a finite set becomes when an element
comes, goes or changes.  `SumFunctionOnSet` is a choice among the functions that
satisfy a recursive equation; that one exists, and that all agree, is shown by
looking at a minimal subset for which it fails (`MinimalSubset`, from the
well-foundedness of strict inclusion) in place of an induction, which the provers
cannot instantiate.  `CpuScheduler`'s `Without`, a recursive function that drops tasks
from a queue, is treated the same way, at the least index that fails.

### The caches

None of the safety properties is inductive.  In `ConcurrentCache`, that leases
exclude needs the counters of an entry to be the number of threads that hold it
(`LeaseInv`), an argument about cardinalities that also covers release and
demotion.  That a leased entry stays published needs the relation of every thread's
position to the map: who refers to which slot before, during and after a removal
(`EntryInv`, `OffMapInv`, `FreshInv`), and that only one thread at a time has parked
a key (`WorkInv`), collections included (`BagInv`, `PassInv`).  `SingleFlight`
follows from those and from the fact that every live allocation is published or
claimed by somebody (`LiveInv`).  `Bookkeeping` adds the converses: a parked key has a
thread that will settle it (`PendingInv`), the MRU queue lists every published key
and the cost is the sum over them (`AccountInv`), and what a thread has in hand is
alive (`HandInv`).

`NativeCache` has locks that hold sets of threads, so its invariant is simpler:
who holds the mutex and why (`LockInv`), that a thread with a slot holds the lock of
the entry published for its key (`HoldInv`), that table, list and cost agree
(`TableInv`), what a collection has still to look at (`RestInv`), and `FlagHasOwner`.

The refinements map each action to one of `LeaseCache` or to a stutter.  A lookup
that confirms takes a lease; a publication allocates; a removal, and each entry a
collection takes, evicts, and the invariant gives the guard: nobody has a lease.
A demotion of the C cache is a release and a new get, in two steps; the lease in
between is nobody's, hence another thread may evict the entry, as it may in the
abstract cache.

### The jobs

`PlaceInv` says where a job may be: in the queue of its kind, once; in its slot; in
the hands of a worker at those points of its round at which it has one; with a
client between creation and hand-over; or freed.  `OneOwner` counts these places; that
a job which is at none of them is freed (`OwnedInv`) holds unless a stray write has
given a freed job a state, so it is a conditional part of `PlaceInv`, and what the other
theorems need of it holds in either case.
`RecordInv` says when `control->job` and the export flag record what a worker holds;
`CountInv` that the pending count is the number of jobs that are queued, held or
about to be discarded; from the two follow `WellFormed` (with the comparison of a new
thumbnail with those queued and those recorded) and `ExportsOneAtATime`.
`HeadsAreServed` needs `PriorityInv`: only the head of a queue is above
`FG_PRIORITY`, and then its priority plus the number of jobs that are still ahead of
it is at most `PassedOver`; each time it is passed over, one of those ahead runs, and
what arrives meanwhile is behind it.

### The pixelpipe cache

`CacheInv` has ten parts: the types (`IsTyped`), what a call holds at each point
(`PlaceInv`); every flight in progress has one owner (`OwnerInv`); nothing
invalidates the value being published (`PendingInv`); an entry beside a marked key
or a running build is doomed (`DoomInv`); the history counters are ordered
(`ClockInv`); an entry is younger than every invalidation of its key that has begun,
unless that one has still to remove it (`EntryInv`); a flight that can still be
joined is stale or as young (`FlightInv`); values are pinned at least as often as
calls hold them (`PinsInv`); live registered calls are among the consumers
(`ConsumersInv`).  `OneBuildAKey` follows from `OwnerInv` and `DoomInv`,
`NothingStale` from `EntryInv` and `FlightInv`, `BuildServesConsumers` from
`ConsumersInv`.

### The export queue

Records are numbered without a gap and no client holds an identifier beyond the
next (`DenseInv`), so the identifier a client read before another one inserted is
either free and next, or taken and replaced by the next: with `RecordInv` and
`IndexAgrees` a pigeon-hole argument shows that it is never more than the number of
keys.  A call *owns* its job from its claim until it has recorded its end (`Owns`).
An owned job is in process, permanently failed or cancelled, hence never queued,
hence nobody can claim it (`OwnerInv`); a call that was refused its claim does fail
the job for good (the counterexample `ExportQueueOwnFailure.cfg`), which is why
`FailedPermanent` is among these and why that is no threat to ownership.  From
`Committing` on a job cannot be cancelled (`CommitInv`), which with `IndexAgrees`
gives `CancelledPublishesNothing`.  What is renamed is marked and, once renamed,
stays until the call has recorded its success (`FilesInv`).  A call that has decided
to allow a retry is an owner, so if its read did not fail the count it read is still
the count when it records the failure, unless a refused call has ended the job meanwhile
(`AttemptInv`).  That needs reads to succeed, so it is not a part of the invariant but a
second one, proved on top of it for the theorem on retries alone.

### The scheduler

`QueueInv` says that the queues hold the queued tasks, in order of admission;
`TodoInv` what one `start_next` has still to refresh; `AccountInv` that memory,
workers and pipelines are sums over the tasks in hand, within the limits; `NumberInv`
that a task is admitted after everything it depends on.  The last is what rules out
stalls: among the queued tasks the one with the least number has no dependency that
is still queued, so its dependencies passed, and it can start since its claim was
checked against the limits when it was admitted, or one failed, and it can be
dropped.

### The darkroom's pixelpipe

The heart of the invariant is what one call of `dt_dev_pixelpipe_cache_get` returns
(`GetFacts`): a line that has the size and the region of the run, that is empty or
holds what its name says, and that is not the line the call before returned, unless
it is a hit under the name asked for.  The last is the reason for the ages of lines:
the line just returned is *recent* (`Recent`): if it can have a name its age is zero
or negative and the search for the oldest line passes it over; if it is one of the
first two, which are taken in turn, it is not its turn.  The next call can then return
it only as a hit, and a module's name is never the name of its input, since it has one
element more; so input and output of a module differ.

`CacheInv` says of the lines, at all times, that the memory is their sum (`Counts`), that
a named line has the size and the region of its name (`Sized`), that names are unique
(`Unique`) and that lines hold what they say (`Honest`), but for the line a module has
just written: there `mask_display` may have come up while it ran, and the line is
invalidated a step later.  The GUI may invalidate any line between two steps of the
job; then the cache *forgets* (`Forgets`), and all parts of the invariant are closed
under that (`ForgetsKeeps`, `GuiKeeps`), though the promise `HitsReturnData` is not.
`InputInv` and `OutInv` say what the job has in its two lines at each point of a
run: an image made by the modules before it, unless a mask is shown.  `BackInv` leads
from there to `ShownIsDue`: only a completed run ends with `early` false, only such a
run makes the pipe valid, and a view that the back buffer does not
fit is either about to be announced or makes the pipe dirty when it is exposed.

The proof led to a correction: `InputIntact` used to say that the input has exactly the
size of the run, which is so in a cache with names, but in one of two lines
(`darktable.pipe_cache` off) a line only grows; now it says that it is large enough.

### The edit history

`HistoryInv` has five parts.  `DevInv` types the history, its end and the controls,
says that every always-on module has an item and that no signal is pending.  `Shows`
says what the controls of all other modules show.  `ListsInv` types the two lists: each
state on them is one the history had (`Saved`: every always-on module is listed, so
reading it back adds nothing and gives the same state again, `ReadSaved`).
`GroupsInv` says that both lists consist of whole groups: there is a labelling of the
places between the entries by "inside" and "outside" which changes at each mark and
within which entries that the darkroom does not undo stay in groups of their own
(`Spans`).  `TargetInv` says that there is nothing to redo while a control goes on without
a record, for otherwise that change would be added to a line whose future is of
another present.

What `_undo_do_undo_redo` moves begins and ends outside (`MovedOutside`): from a mark
it is the group, and from any other entry the loop goes on while the number of marks met is odd,
which is the same as being inside (`MarksParity`).  Cutting a list outside and joining
lists outside gives whole groups again (`SpansPart`, `SpansConcat`), and so does the
reversal (`SpansMoved`); hence a move keeps groups whole (`MoveSpans`).

For `Timeline` only the states on the lists count (`Snapshots`).  An undo takes some
states `s` off the undo list, restores the last of them, and puts on the redo list the
others in reverse and the present one (`Carried`, by `MovedSnapshots`: each edit takes
the state of the edit before it).  That leaves the line of states as it was
(`UndoWalks`, `RedoWalks`).  A change puts the present on the undo list and empties the
other one; going on with a control changes the present, which by `TargetInv` is the
last of the line; groups and records of other things hold no states.

`ControlsShowHistory` rests on lemmas about each function on histories: what
`_dev_add_history_item` makes active again shows through no module but always-on ones
(`UnderFacts`, `AddedFacts`), removing a copy leaves what the others show
(`RemovedFacts`), and what is read back is shown (`ReadFacts`).

The proof led to two corrections.  `Compressed` used to keep more than the last active
item of an instance (`common/history.c:1244-1252`).  And `HistoryAssumption` did not
exclude a second instance of an always-on module, for which an item of that instance would
count as one of the module (`_dev_add_history_item_ext` compares operations,
`develop/develop.c:1202`).

### Only model-checked

- Every `Drains` (three caches), `Served`, `ShutdownEnds`: liveness under fairness,
  which the provers do not reach.
- `HitsReturnData` and the other properties of section 3 that the code violates.

No module declares a RECURSIVE operator; the recursions of the code are loops of
actions (`_dev_pixelpipe_process_rec`) or folds.

## 5. What is not modelled

Of darktable, within the modelled components: OpenCL, tiling, the colour pickers,
histograms, a failing allocation, other pipes than the full one and leaving the
darkroom (`PixelPipe`); progress values, the callbacks that report a job's state,
messages and the cursor (`ControlJobs`); the files behind the thumbnail cache and
the rows behind the image cache (`NativeCache`); multiple instances beyond one
copy, masks, presets and the database's copy of the history (`DevelopHistory`).
Outside of them: OpenCL's device locks, the image cache's write-back, film rolls,
camera sessions, Lua, views and widgets, the image operations, the file formats,
the SQL.

Of RustTable, within the modelled components: metrics, receipts and log text
(nothing reads them back); poisoned mutexes (no thread panics while it holds one,
callbacks and builders run under `catch_unwind`); a deadline thread that cannot be
started, which fails the call that asked for it as poisoned and an owner's waiters with it
(`rusttable-pixelpipe/src/cache/mod.rs:204-215`); the structure of cache keys and
scopes; segments of resident entries; several value types under one key; the
content of files and the validation of manifests; the lease list of a claim beyond
its total.

The components without bold in section 1 are listed with reasons in
`PROJECT.json`.

How much this is.  The repository has about 489 000 lines of implementation in C
and C++ beside the Rust workspace, and this project stands for well under one in a
hundred of them.  By far the most are image operations (a computation on pixels and
the widgets to set it), readers and writers of file formats, SQL statements and
their results, and views: they keep no state that two threads, two calls or two
runs of the program could disagree about, and a model of them would say again
what the code says.  What has such state in `control`, `common` and `develop` is in
section 1; of it the four parts everything else runs on are modelled.

## 6. Plan

1. `PixelCache` over `LeaseCache` in place of its own atomic entries; the thumbnail
   cache's disk part and the image cache's write-back over `NativeCache`.
2. OpenCL's device locks; the queue of Lua calls; `Cancellation` and `Publication`
   of the Rust pipeline, then the thumbnail lifecycle, the host pool and the disk
   destination.
3. Application lifecycle and task groups, selected preview, edit commits, GPU
   recovery, scripting host, services, diagnostics.

Abstract specifications still worth stating: an export request as a register that
goes from absent to published once; a job queue that serves each job once.
