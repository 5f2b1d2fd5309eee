------------------------------ MODULE PixelPipe ------------------------------
(***************************************************************************)
(* The darkroom's full pixelpipe: its job (dt_dev_process_image_job of     *)
(* develop.c), the recursion over the modules (pixelpipe_hb.c), the cache  *)
(* of the modules' outputs (pixelpipe_cache.c), and the GUI thread, which  *)
(* edits parameters, zooms, toggles high quality and the mask display, and *)
(* redraws the center view while the job runs.                             *)
(*                                                                         *)
(* Modules are their positions in the pipe, gamma the last; all of them    *)
(* keep the region of interest and the colour space.  A parameter set is a *)
(* number, and so is its hash; a buffer is what was computed into it.      *)
(* OpenCL, tiling, colour pickers, a failing allocation, and leaving the   *)
(* darkroom or changing its image (both of which wait for the job) are     *)
(* left out.                                                               *)
(***************************************************************************)
EXTENDS Integers, Sequences, FiniteSets, FiniteSetsExt, Functions

CONSTANTS Gamma,       \* position of the last module, and their number
          Focus,       \* the module in focus, which may show its mask
          Editable,    \* modules whose parameters are edited
          Important,   \* IOP_FLAGS_WRITE_PIPECACHE
          Entries, MemLimit,
          Roi, FullRoi, SizeOf(_),
          MaxGestures  \* bound: what the user does

ASSUME PipeConstants ==
  /\ Gamma \in Nat \ {0} /\ Focus \in 1..Gamma
  /\ Editable \subseteq 1..Gamma /\ Important \subseteq 1..Gamma
  /\ Entries \in Nat /\ Entries >= 2 /\ MemLimit \in Nat
  /\ FullRoi \in Roi /\ \A r \in Roi : SizeOf(r) \in Nat \ {0}

VARIABLES
  params, request,                    \* module->params, request_mask_display
  history, top, lastModule,           \* dev->history, its end, history_last_module
  roi, todo, gestures, redraw,        \* the view; what the GUI has still to do
  status, changed, shutdown, obsolete, behind, queued,   \* of the pipe
  pieces, mask,                       \* ... its nodes and mask_display
  pc, pos, run, input, out, early,    \* the job
  cache, backbuf

guiVars   == <<params, request, history, top, lastModule, roi, todo, gestures, redraw>>
flagVars  == <<status, changed, shutdown, obsolete, behind, queued>>
jobVars   == <<pc, pos, run, input, out, early>>
vars == <<guiVars, flagVars, pieces, mask, jobVars, cache, backbuf>>

Module == 1..Gamma
Line == 0..Entries - 1
Named == 2..Entries - 1       \* lines 0 and 1 are only ever swapped
PipeInput == Entries          \* pipe->input, which is no line
NoName == [roi |-> FullRoi, work |-> <<-1>>]   \* DT_INVALID_HASH

Buffer(kind, r) == [kind |-> kind, roi |-> r, work |-> <<>>, made |-> <<>>]
NoData == Buffer("none", FullRoi)
Base(r) == Buffer("image", r)

Init ==
  /\ params = [m \in Module |-> 0] /\ request = FALSE
  /\ history = [m \in Module |-> 0] /\ top = 0 /\ lastModule = 0
  /\ roi \in Roi \ {FullRoi} /\ todo = <<>> /\ gestures = 0 /\ redraw = TRUE
  /\ status = "DIRTY" /\ changed = {} /\ shutdown = "NO" /\ obsolete = FALSE
  /\ behind = FALSE /\ queued = FALSE
  /\ pieces = [m \in Module |-> [params |-> 0, hash |-> 0]] /\ mask = FALSE
  /\ pc = "idle" /\ pos = 0 /\ run = FullRoi /\ input = PipeInput /\ out = PipeInput
  /\ early = FALSE
  /\ cache = [hash |-> [k \in Line |-> NoName], size |-> [k \in Line |-> 0],
              used |-> [k \in Line |-> 64 + k], order |-> [k \in Line |-> 0],
              data |-> [k \in Line |-> NoData],
              calls |-> 0, lastline |-> 0, allmem |-> 0,
              interrupted |-> FALSE]  \* (history) a run was stopped in a module since
                                      \* the last flush: its line kept its name
  /\ backbuf = NoData

-----------------------------------------------------------------------------
(* The cache (pixelpipe_cache.c), as functions on its state. *)

(* dt_dev_pixelpipe_cache_hash *)
NameOf_OneShort(p) ==   \* mutant
  [roi |-> run, work |-> [i \in 1..p - 1 |-> pieces[i].hash]]
NameOf(p) == [roi |-> run, work |-> [i \in 1..p |-> pieces[i].hash]]

Hits(c, n) == {k \in Named : c.hash[k] = n}
Available(c, n) == ~mask /\ Hits(c, n) # {}

OldEnough_AtOnce(c, k) == c.used[k] > 0   \* mutant
(* "we never want the latest used cacheline" *)
OldEnough(c, k) == c.used[k] > 1 /\ k # c.lastline

Oldest(c, lines) ==
  LET old == {k \in lines : OldEnough(c, k)} IN
  IF old = {} THEN 0
  ELSE Min({k \in old : \A j \in old : c.used[j] <= c.used[k]})

Toggling == Entries = 2 \/ mask
GetCacheLine(c) ==
  LET invalid == Oldest(c, {k \in Named : c.hash[k] = NoName})
      free    == Oldest(c, {k \in Named : c.size[k] = 0})
      plain   == Oldest(c, Named)
  IN IF Toggling THEN c.calls
     ELSE IF invalid # 0 THEN invalid
     ELSE IF free # 0 THEN free
     ELSE IF plain # 0 THEN plain ELSE c.calls

Invalid(c, lines) ==
  [c EXCEPT !.hash  = [k \in Line |-> IF k \in lines THEN NoName ELSE @[k]],
            !.order = [k \in Line |-> IF k \in lines THEN 0 ELSE @[k]]]
InvalidLine(c, k) == Invalid(c, {k} \cap Named)
InvalidLater(c, o) == Invalid(c, {k \in Named : c.order[k] >= o /\ c.hash[k] # NoName})
Flushed(c) == [InvalidLater(c, 0) EXCEPT !.interrupted = FALSE]

ImportantLine(c, k) ==
  IF k \in Named /\ c.size[k] = SizeOf(run) /\ c.hash[k] # NoName
    THEN [c EXCEPT !.used[k] = -Entries] ELSE c

FreedMemory_OfNamed(c, lines) ==   \* mutant
  c.allmem - SumFunctionOnSet(c.size, {k \in lines : c.hash[k] # NoName})
FreedMemory(c, lines) == c.allmem - SumFunctionOnSet(c.size, lines)
Freed(c, lines) ==
  [Invalid(c, lines) EXCEPT
     !.size = [k \in Line |-> IF k \in lines THEN 0 ELSE @[k]],
     !.data = [k \in Line |-> IF k \in lines THEN NoData ELSE @[k]],
     !.allmem = FreedMemory(c, lines)]

Aged_ByCount(c) ==   \* mutant
  [c EXCEPT !.calls = @ + 1, !.used = [k \in Line |-> @[k] + 1]]
Aged(c) == [c EXCEPT !.calls = 1 - @, !.used = [k \in Line |-> @[k] + 1]]

Reserved(c, k, n, p, important) ==
  LET s == SizeOf(run)
      grow == IF Entries = 2 THEN c.size[k] < s ELSE c.size[k] # s
  IN [c EXCEPT
        !.lastline  = IF Toggling THEN @ ELSE k,
        !.size[k]   = IF grow THEN s ELSE @,
        !.allmem    = IF grow THEN @ - c.size[k] + s ELSE @,
        !.hash[k]   = IF mask THEN NoName ELSE n,
        !.used[k]   = IF important /\ ~mask THEN -Entries ELSE 0,
        !.order[k]  = p,
        !.data[k]   = Buffer("unwritten", run)]

(* dt_dev_pixelpipe_cache_get: the line, and the cache afterwards. *)
Get(p, important) ==
  LET n == NameOf(p)
      c == Aged(cache)
      hits == IF Entries = 2 THEN {} ELSE Hits(c, n)
      clean == IF mask THEN [c EXCEPT !.hash = [k \in Line |->
                                IF k \in hits THEN NoName ELSE @[k]]] ELSE c
      line == IF hits # {} /\ ~mask THEN Min(hits) ELSE GetCacheLine(clean)
  IN [line  |-> line,
      cache |-> IF hits # {} /\ ~mask THEN [c EXCEPT !.used[line] = -Entries]
                ELSE Reserved(clean, line, n, p, important)]

-----------------------------------------------------------------------------
(* The job: dt_dev_process_image_job around dt_dev_pixelpipe_process. *)

Goto(p) == pc' = p

StartJob ==
  /\ pc = "idle" /\ queued
  /\ queued' = FALSE
  /\ IF shutdown # "NO" THEN UNCHANGED <<pc, status>>
     ELSE status' = "RUNNING" /\ Goto("restart")
  /\ UNCHANGED <<guiVars, changed, shutdown, obsolete, behind, pieces, mask, pos, run,
                 input, out, early, cache, backbuf>>

Restart ==
  /\ pc = "restart"
  /\ behind' = FALSE
  /\ Goto(IF changed # {} THEN "change" ELSE "begin")
  /\ UNCHANGED <<guiVars, status, changed, shutdown, obsolete, queued, pieces, mask,
                 pos, run, input, out, early, cache, backbuf>>

(* dt_iop_commit_params: the piece gets the parameters of the history, and *)
(* the hash of those the module has now.                                   *)
Committed(m) == [params |-> history[m], hash |-> params[m]]

(* dt_dev_pixelpipe_change, up to the synchronised nodes; the history is   *)
(* locked until "clear".  Recreating the nodes clears a pending shutdown.  *)
Change ==
  /\ pc = "change"
  /\ pieces' = IF changed \cap {"SYNCH", "REMOVE"} # {}
                 THEN [m \in Module |-> Committed(m)]
               ELSE IF "TOP" \in changed /\ top # 0
                 THEN [pieces EXCEPT ![top] = Committed(top)]
               ELSE pieces
  /\ shutdown' = IF "REMOVE" \in changed THEN "NO" ELSE shutdown
  /\ Goto("clear")
  /\ UNCHANGED <<guiVars, status, changed, obsolete, behind, queued, mask, pos, run,
                 input, out, early, cache, backbuf>>

ClearChanged ==
  /\ pc = "clear"
  /\ changed' = {}
  /\ Goto("begin")
  /\ UNCHANGED <<guiVars, status, shutdown, obsolete, behind, queued, pieces, mask,
                 pos, run, input, out, early, cache, backbuf>>

(* The view is read, and dt_dev_pixelpipe_cache_checkmem frees what is     *)
(* invalid ...                                                             *)
Begin ==
  /\ pc = "begin"
  /\ run' = roi
  /\ cache' = IF Entries = 2 THEN cache
              ELSE Freed(cache, {k \in Named : cache.hash[k] = NoName})
  /\ early' = FALSE
  /\ Goto("trim")
  /\ UNCHANGED <<guiVars, flagVars, pieces, mask, pos, input, out, backbuf>>

(* ... and the oldest lines, until the limit is kept. *)
Trim ==
  LET k == Oldest(cache, {j \in Named : cache.size[j] # 0}) IN
  /\ pc = "trim"
  /\ IF Entries > 2 /\ MemLimit # 0 /\ MemLimit < cache.allmem /\ k # 0
       THEN cache' = Freed(cache, {k}) /\ UNCHANGED pc
       ELSE Goto("flush") /\ UNCHANGED cache
  /\ UNCHANGED <<guiVars, flagVars, pieces, mask, pos, run, input, out, early, backbuf>>

Flush ==
  /\ pc = "flush"
  /\ cache' = IF obsolete THEN Flushed(cache) ELSE cache
  /\ Goto("fresh")
  /\ UNCHANGED <<guiVars, flagVars, pieces, mask, pos, run, input, out, early, backbuf>>

Fresh ==
  /\ pc = "fresh"
  /\ obsolete' = FALSE /\ mask' = FALSE
  /\ pos' = Gamma
  /\ Goto("down")
  /\ UNCHANGED <<guiVars, status, changed, shutdown, behind, queued, pieces, run,
                 input, out, early, cache, backbuf>>

-----------------------------------------------------------------------------
(* _dev_pixelpipe_process_rec, on the CPU. *)

Abort ==
  /\ shutdown # "NO"
  /\ early' = TRUE
  /\ Goto("finish")
  /\ cache' = [cache EXCEPT !.interrupted = @ \/ pc \in {"run", "ran"}]
  /\ UNCHANGED <<guiVars, flagVars, pieces, mask, pos, run, input, out, backbuf>>

(* A call for position pos has its output in line k. *)
Deliver(k) ==
  IF pos = Gamma
    THEN out' = k /\ Goto("copy") /\ UNCHANGED <<pos, input>>
    ELSE pos' = pos + 1 /\ input' = k /\ Goto("up") /\ UNCHANGED out

Stopped ==
  /\ pc \in {"down", "up", "run", "ran"}
  /\ Abort

Down ==
  /\ pc = "down" /\ shutdown = "NO"
  /\ IF Available(cache, NameOf(pos)) THEN Goto("hit") /\ UNCHANGED <<pos, early>>
     ELSE IF changed # {} THEN Goto("finish") /\ early' = TRUE /\ UNCHANGED pos
     ELSE IF pos = 0 THEN Goto("base") /\ UNCHANGED <<pos, early>>
     ELSE pos' = pos - 1 /\ UNCHANGED <<pc, early>>
  /\ UNCHANGED <<guiVars, flagVars, pieces, mask, run, input, out, cache, backbuf>>

(* The line seen to be available is taken, whatever the cache gives now. *)
Hit ==
  LET got == Get(pos, TRUE) IN
  /\ pc = "hit"
  /\ cache' = got.cache
  /\ Deliver(got.line)
  /\ UNCHANGED <<guiVars, flagVars, pieces, mask, run, early, backbuf>>

InitBase ==
  LET got == Get(0, FALSE) IN
  /\ pc = "base"
  /\ IF run = FullRoi THEN UNCHANGED cache /\ Deliver(PipeInput)
     ELSE /\ cache' = [got.cache EXCEPT !.data[got.line] = Base(run)]
          /\ Deliver(got.line)
  /\ UNCHANGED <<guiVars, flagVars, pieces, mask, run, early, backbuf>>

Reserve ==
  LET got == Get(pos, pos \in Important) IN
  /\ pc = "up" /\ shutdown = "NO"
  /\ cache' = got.cache
  /\ out' = got.line
  /\ Goto("run")
  /\ UNCHANGED <<guiVars, flagVars, pieces, mask, pos, run, input, early, backbuf>>

InputData == IF input = PipeInput THEN Base(run) ELSE cache.data[input]
ShowsMask == pos = Focus /\ request

(* While a mask is shown the later modules hand their input on. *)
Bypass ==
  /\ pc = "run" /\ shutdown = "NO"
  /\ mask /\ pos # Gamma
  /\ cache' = [cache EXCEPT !.data[out] = InputData]
  /\ Deliver(out)
  /\ UNCHANGED <<guiVars, flagVars, pieces, mask, run, early, backbuf>>

Computed ==
  LET d == InputData IN
  [d EXCEPT !.kind = IF @ = "image" /\ ShowsMask THEN "mask" ELSE @,
            !.work = Append(@, pieces[pos].hash),
            !.made = Append(@, pieces[pos].params)]

(* gamma invalidates the line of a mask it has shown *)
GammaInput(c) == IF pos = Gamma /\ mask THEN InvalidLine(c, input) ELSE c

Process ==
  /\ pc = "run" /\ shutdown = "NO"
  /\ ~(mask /\ pos # Gamma)
  /\ cache' = GammaInput([cache EXCEPT !.data[out] = Computed])
  /\ mask' = (mask \/ ShowsMask)
  /\ Goto("ran")
  /\ UNCHANGED <<guiVars, flagVars, pieces, pos, run, input, out, early, backbuf>>

AfterProcess_MaskKept(c) == c   \* mutant
AfterProcess(c) == IF mask THEN InvalidLine(c, out) ELSE c

Processed ==
  /\ pc = "ran" /\ shutdown = "NO"
  /\ cache' = IF ~mask /\ pos \in {Focus, lastModule}
                THEN ImportantLine(AfterProcess(cache), input) ELSE AfterProcess(cache)
  /\ lastModule' = IF ~mask /\ pos = lastModule THEN 0 ELSE lastModule
  /\ Deliver(out)
  /\ UNCHANGED <<params, request, history, top, roi, todo, gestures, redraw, flagVars,
                 pieces, mask, run, early, backbuf>>

(* Nothing asks for a stop between the last module, or the hit of gamma,   *)
(* and the copy.                                                           *)
CopyBackbuf ==
  /\ pc = "copy"
  /\ backbuf' = IF out = PipeInput THEN Base(run) ELSE cache.data[out]
  /\ Goto("finish")
  /\ UNCHANGED <<guiVars, flagVars, pieces, mask, pos, run, input, out, early, cache>>

-----------------------------------------------------------------------------
(* The end of a run. *)

Finish ==
  /\ pc = "finish"
  /\ shutdown' = "NO"
  /\ Goto(IF shutdown # "NO" THEN "restart" ELSE "check")
  /\ pos' = 0 /\ run' = FullRoi /\ input' = PipeInput /\ out' = PipeInput
  /\ UNCHANGED <<guiVars, status, changed, obsolete, behind, queued, pieces, mask,
                 early, cache, backbuf>>

CheckChanged ==
  /\ pc = "check"
  /\ Goto(IF changed = {} THEN "valid"
          ELSE IF changed = {"ZOOMED"} /\ ~early THEN "dims" ELSE "restart")
  /\ early' = FALSE
  /\ UNCHANGED <<guiVars, flagVars, pieces, mask, pos, run, input, out, cache, backbuf>>

(* The dimensions are computed, then the flags are cleared. *)
Dimensions ==
  /\ pc = "dims"
  /\ changed' = {}
  /\ Goto("valid")
  /\ UNCHANGED <<guiVars, status, shutdown, obsolete, behind, queued, pieces, mask, pos,
                 run, input, out, early, cache, backbuf>>

Valid ==
  /\ pc = "valid"
  /\ status' = "VALID"
  /\ Goto("idle")
  /\ redraw' = TRUE
  /\ UNCHANGED <<params, request, history, top, lastModule, roi, todo, gestures,
                 changed, shutdown, obsolete, behind, queued, pieces, mask, pos, run,
                 input, out, early, cache, backbuf>>

Job ==
  \/ StartJob \/ Restart \/ Change \/ ClearChanged \/ Begin \/ Trim \/ Flush \/ Fresh
  \/ Stopped \/ Down \/ Hit \/ InitBase \/ Reserve \/ Bypass \/ Process \/ Processed
  \/ CopyBackbuf \/ Finish \/ CheckChanged \/ Dimensions \/ Valid

-----------------------------------------------------------------------------
(* The GUI thread.  A gesture stores its first value, and then, one by one *)
(* and without waiting for the job, those of "todo".                       *)

Processing == pc \in {"trim", "flush", "fresh", "down", "hit", "base", "up", "run",
                      "ran", "copy"}

Gesture(stores) ==
  /\ todo = <<>> /\ gestures < MaxGestures
  /\ gestures' = gestures + 1
  /\ todo' = stores

(* A slider writes module->params, then adds a history item. *)
Drag(m) ==
  /\ Gesture(<<"history">>)
  /\ params' = [params EXCEPT ![m] = gestures + 1]
  /\ UNCHANGED <<request, history, top, lastModule, roi, redraw, flagVars, pieces, mask,
                 jobVars, cache, backbuf>>

Zoom(r) ==
  /\ r # roi
  /\ pc # "clear"
  /\ Gesture(<<"zoomed">>)
  /\ roi' = r
  /\ UNCHANGED <<params, request, history, top, lastModule, redraw, flagVars, pieces,
                 mask, jobVars, cache, backbuf>>

(* _latescaling_quickbutton_clicked *)
ToggleHighQuality ==
  /\ \/ Processing /\ Gesture(<<"stop", "remove", "obsolete", "dirty">>)
     \/ Gesture(<<"synch", "obsolete", "dirty">>)
  /\ UNCHANGED <<params, request, history, top, lastModule, roi, redraw, flagVars,
                 pieces, mask, jobVars, cache, backbuf>>

ToggleMask ==
  /\ Gesture(<<"invalidate", "synch", "dirty">>)
  /\ request' = ~request
  /\ UNCHANGED <<params, history, top, lastModule, roi, redraw, flagVars, pieces, mask,
                 jobVars, cache, backbuf>>

Stored(what) == todo # <<>> /\ Head(todo) = what

(* dt_dev_add_history_item, under the history mutex *)
AddHistoryItem(m) ==
  /\ Stored("history") /\ pc # "clear"
  /\ params[m] # history[m]
  /\ history' = [history EXCEPT ![m] = params[m]]
  /\ top' = m /\ lastModule' = m
  /\ changed' = changed \cup {IF m = top THEN "TOP" ELSE "SYNCH"}
  /\ status' = "DIRTY" /\ behind' = TRUE
  /\ todo' = <<>> /\ redraw' = TRUE
  /\ UNCHANGED <<params, request, roi, gestures, shutdown, obsolete, queued, pieces,
                 mask, jobVars, cache, backbuf>>

FlagOf == [zoomed |-> "ZOOMED", synch |-> "SYNCH", remove |-> "REMOVE"]

StoreFlag(what) ==
  /\ Stored(what)
  /\ changed' = changed \cup {FlagOf[what]}
  /\ todo' = Tail(todo) /\ redraw' = (redraw \/ Len(todo) = 1)
  /\ UNCHANGED <<params, request, history, top, lastModule, roi, gestures, status,
                 shutdown, obsolete, behind, queued, pieces, mask, jobVars, cache,
                 backbuf>>

StoreStop ==
  /\ Stored("stop")
  /\ shutdown' = "HQ"
  /\ todo' = Tail(todo)
  /\ UNCHANGED <<params, request, history, top, lastModule, roi, gestures, redraw,
                 status, changed, obsolete, behind, queued, pieces, mask, jobVars,
                 cache, backbuf>>

StoreObsolete ==
  /\ Stored("obsolete")
  /\ obsolete' = TRUE
  /\ todo' = Tail(todo)
  /\ UNCHANGED <<params, request, history, top, lastModule, roi, gestures, redraw,
                 status, changed, shutdown, behind, queued, pieces, mask, jobVars,
                 cache, backbuf>>

(* dt_dev_invalidate, dt_dev_invalidate_all *)
Invalidate ==
  /\ Stored("dirty")
  /\ status' = "DIRTY" /\ behind' = TRUE
  /\ todo' = Tail(todo) /\ redraw' = TRUE
  /\ UNCHANGED <<params, request, history, top, lastModule, roi, gestures, changed,
                 shutdown, obsolete, queued, pieces, mask, jobVars, cache, backbuf>>

(* dt_iop_refresh_center reaches into the cache of a pipe that may run. *)
InvalidateLater ==
  /\ Stored("invalidate")
  /\ cache' = InvalidLater(cache, Focus)
  /\ todo' = Tail(todo)
  /\ UNCHANGED <<params, request, history, top, lastModule, roi, gestures, redraw,
                 flagVars, pieces, mask, jobVars, backbuf>>

misfit_Never == FALSE   \* mutant
misfit == backbuf.kind # "none" /\ backbuf.roi # roi

(* expose: the preview is painted where the image does not fit the view,   *)
(* and a job is added when one is due; the queue keeps only one.           *)
Expose ==
  LET dirty == status = "DIRTY" \/ (misfit /\ status = "VALID") IN
  /\ redraw /\ todo = <<>>
  /\ redraw' = FALSE
  /\ changed' = IF misfit THEN changed \cup {"ZOOMED"} ELSE changed
  /\ status' = IF dirty THEN "DIRTY" ELSE status
  /\ queued' = (queued \/ ((dirty \/ behind) /\ ~Processing))
  /\ UNCHANGED <<params, request, history, top, lastModule, roi, todo, gestures,
                 shutdown, obsolete, behind, pieces, mask, jobVars, cache, backbuf>>

Store ==
  \/ \E m \in Editable : AddHistoryItem(m)
  \/ \E what \in DOMAIN FlagOf : StoreFlag(what)
  \/ StoreStop \/ StoreObsolete \/ Invalidate \/ InvalidateLater

User ==
  \/ \E m \in Editable : Drag(m)
  \/ \E r \in Roi : Zoom(r)
  \/ ToggleHighQuality \/ ToggleMask

Next == Job \/ Store \/ Expose \/ User

Spec == Init /\ [][Next]_vars

(* The worker runs the job, and the GUI thread finishes its gestures and   *)
(* redraws when asked to; the user owes nothing.                           *)
FairSpec == Spec /\ WF_vars(Job) /\ WF_vars(Store) /\ WF_vars(Expose)

-----------------------------------------------------------------------------
Buffers ==
  [kind : {"none", "unwritten", "image", "mask"}, roi : Roi, work : Seq(Nat),
   made : Seq(Nat)]

TypeOK ==
  /\ params \in [Module -> Nat] /\ history \in [Module -> Nat]
  /\ top \in 0..Gamma /\ lastModule \in 0..Gamma /\ roi \in Roi
  /\ status \in {"DIRTY", "RUNNING", "VALID"} /\ shutdown \in {"NO", "HQ"}
  /\ changed \subseteq {"TOP", "SYNCH", "REMOVE", "ZOOMED"}
  /\ pieces \in [Module -> [params : Nat, hash : Nat]]
  /\ pos \in 0..Gamma /\ run \in Roi
  /\ input \in 0..Entries /\ out \in 0..Entries
  /\ cache.size \in [Line -> {0} \cup {SizeOf(r) : r \in Roi}]
  /\ cache.data \in [Line -> Buffers] /\ backbuf \in Buffers
  /\ cache.calls \in {0, 1} /\ cache.lastline \in Line /\ cache.allmem \in Nat

(* The memory the cache believes to hold, by which it decides to free      *)
(* lines, is the memory its lines have.                                    *)
Accounting == cache.allmem = SumFunctionOnSet(cache.size, Line)

(* The lines, their sizes and their total agree, through collection too.   *)
WellFormed == TypeOK /\ Accounting

(* While a module runs, its input is neither its output nor freed nor      *)
(* given to another use since it was computed.                             *)
InputIntact ==
  pc \in {"run", "ran"} /\ input # PipeInput =>
    /\ input # out /\ cache.size[input] >= SizeOf(run)
    /\ cache.data[input].roi = run
    /\ (cache.data[input].kind = "image" => Len(cache.data[input].work) = pos - 1)

(* What a line with a valid hash holds is what its name says, at the size  *)
(* it says, and never the picture of a mask, which no name tells from the  *)
(* image: a later run takes it unseen.  The exceptions are a line being    *)
(* made, and what a run stopped inside a module leaves until the next      *)
(* flush; and no two lines have one name, so that a hit is unambiguous.    *)
BeingMade(k) == k = out /\ pc \in {"run", "ran"}
SaysWhatItHolds(k) ==
  CASE cache.data[k].kind = "image" ->
         [roi |-> cache.data[k].roi, work |-> cache.data[k].work] = cache.hash[k]
    [] cache.data[k].kind = "mask" -> cache.interrupted
    [] OTHER -> TRUE  \* see HitsReturnData
LinesHoldWhatTheySay ==
  /\ \A k \in Named : cache.hash[k] # NoName /\ ~BeingMade(k) => SaysWhatItHolds(k)
  /\ \A j, k \in Named :
       cache.hash[j] = cache.hash[k] /\ j # k => cache.hash[k] = NoName

(* "if cached buffer is still available, return data" (pixelpipe_hb.c):    *)
(* what a module is given, or the back buffer is copied from, was computed.*)
(* It need not be: the GUI may invalidate the line between the test and    *)
(* the call that takes it, and this call then names a line of its own; and *)
(* a stop that comes once a line is named leaves the name on it.           *)
HitsReturnData ==
  /\ pc = "up" /\ input # PipeInput => cache.data[input].kind # "unwritten"
  /\ pc = "copy" /\ out # PipeInput => cache.data[out].kind # "unwritten"

(* The hash of an operation is meant to stand for the parameters it ran    *)
(* with: pixelpipe_cache.c, "go through all modules up to position and     *)
(* compute a hash using the operation and params".                         *)
NamesTellParams ==
  \A k \in Named :
    cache.hash[k] # NoName /\ ~BeingMade(k) /\ cache.data[k].kind = "image" =>
      cache.data[k].made = cache.hash[k].work

(* When the job and the GUI have nothing left to do, the back buffer is of *)
(* the view, and an image in it went through every module as the pipe now  *)
(* has it.                                                                 *)
Settled == pc = "idle" /\ ~queued /\ todo = <<>> /\ ~redraw /\ status = "VALID"
ShownIsDue ==
  Settled =>
    /\ backbuf.roi = roi
    /\ (backbuf.kind = "image" => backbuf.work = [m \in Module |-> pieces[m].hash])

(* Nor is there an edit that the pipe has not taken (develop.c, before the *)
(* end of the job: "Restarts are required [...] if there was a history     *)
(* change without taken dt_dev_pixelpipe_change()").                       *)
NoEditForgotten ==
  Settled /\ shutdown = "NO" => \A m \in Module : pieces[m].params = history[m]

(* Once the user rests the pipe comes to show what is due, or else has     *)
(* been left a stop that nothing clears (ToggleHighQuality tests the pipe  *)
(* and stops it in two steps; a job that sees the stop before it runs      *)
(* returns): Settles is what is promised, Served what holds.               *)
Settles == <>[]Settled
Served == <>[](Settled \/ shutdown # "NO")
=============================================================================
