--------------------------- MODULE DevelopHistory ---------------------------
(***************************************************************************)
(* The edit history of the image in the darkroom and the undo lists over   *)
(* it (develop/develop.c, libs/history.c, common/undo.c,                   *)
(* common/history.c): the GUI thread edits, clicks in the history,         *)
(* duplicates and removes instances, compresses, undoes and redoes; a      *)
(* background job records a group of changes to other images meanwhile.    *)
(*                                                                         *)
(* A value stands for all a history item says of its module (parameters,   *)
(* blending, enabled); 0 are the defaults.  Only copies are removed.  Each *)
(* GUI handler is one step, and so is each call of the job into undo.c,    *)
(* which a mutex makes atomic.                                             *)
(***************************************************************************)
EXTENDS Integers, FiniteSets, SequencesExt

CONSTANTS
  Instance,        \* the instances of modules there may be
  Copy,            \* those that the user makes and removes
  AlwaysOn,        \* those enabled by default
  OpOf,            \* the operation of each
  RemoveListedOnly,\* only copies all of whose items are active are removed
  GuiWaits,        \* the GUI does nothing between the job's dt_undo_disable_next
                   \* and the record this is for
  RatedTypes,      \* the types of other changes made in the darkroom
  MaxSteps         \* bound on the steps of the GUI, of the job and of time

Nobody == 0
Base == Instance \ Copy

ASSUME HistoryAssumption ==
  /\ IsFiniteSet(Instance) /\ Instance \subseteq Nat \ {Nobody}
  /\ Copy \subseteq Instance /\ AlwaysOn \subseteq Base
  /\ DOMAIN OpOf = Instance
  /\ \A m \in AlwaysOn, c \in Instance :      \* IOP_FLAGS_ONE_INSTANCE
       OpOf[c] = OpOf[m] => c = m
  /\ {RemoveListedOnly, GuiWaits} \subseteq BOOLEAN
  /\ MaxSteps \in Nat

VARIABLES
  history,     \* dev->history: the items, oldest first
  end,         \* dev->history_end: how many of them are active
  params,      \* what each module's controls show
  present,     \* dev->iop: the instances there are
  focus,       \* dev->focus_hash
  target,      \* dev->gui_previous_target: the control that changed last
  copying,     \* the instance dt_iop_gui_duplicate is about to list, or Nobody
  level,       \* record_history_level: will-change signals without a change
  recording,   \* record_undo
  lists,       \* darktable.undo
  now,         \* the time, in units of MAX_TIME_PERIOD
  steps,       \* steps so far
  job,         \* the job: "new", "open" while its group is, "done"
  disturbed    \* undone, cleared or mixed with other types while a group was open

devVars == <<history, end, params, present, focus, target, copying>>
libVars == <<level, recording>>
historyVars == <<devVars, libVars, lists, now, steps, job, disturbed>>

Item(m, v, f) == [module |-> m, value |-> v, focus |-> f]
State == [items |-> [k \in 1..Len(history) |-> <<history[k].module, history[k].value>>],
          end |-> end]

(* The numbers of a set from the least to the greatest, and the elements   *)
(* that a sequence has at these positions.                                 *)
InOrder(S) ==
  [n \in 1..Cardinality(S) |-> CHOOSE k \in S : Cardinality({i \in S : i < k}) = n - 1]
Picked(s, S) == [n \in 1..Cardinality(S) |-> s[InOrder(S)[n]]]

(* Whether the module of an item is listed at or before position n. *)
Listed(h, n, op) == \E k \in 1..n : k <= Len(h) /\ OpOf[h[k].module] = op

-----------------------------------------------------------------------------
(* common/undo.c *)

Mark(type) == [kind |-> "mark", type |-> type]
Other(type) == [kind |-> "other", type |-> type]
Snapshot(s) == [kind |-> "edit", type |-> "HISTORY", was |-> s]

At(item, t) == [item |-> item, ts |-> t]

Recorded_RedoKept(u, item, t) ==   \* mutant
  IF u.disable
  THEN [u EXCEPT !.disable = FALSE]
  ELSE [u EXCEPT !.undo = <<At(item, t)>> \o @]
Recorded(u, item, t) ==
  IF u.disable
  THEN [u EXCEPT !.disable = FALSE]
  ELSE [u EXCEPT !.undo = <<At(item, t)>> \o @, !.redo = <<>>]

StartGroup(u, type, t) ==
  IF u.group = "NONE"
  THEN Recorded([u EXCEPT !.group = type, !.indent = 1], Mark(type), t)
  ELSE [u EXCEPT !.indent = @ + 1]

EndGroup_TypeKept(u, t) ==   \* mutant
  IF u.indent = 1
  THEN Recorded([u EXCEPT !.indent = 0], Mark(u.group), t)
  ELSE [u EXCEPT !.indent = @ - 1]
EndGroup(u, t) ==
  IF u.indent = 1
  THEN [Recorded([u EXCEPT !.indent = 0], Mark(u.group), t) EXCEPT !.group = "NONE"]
  ELSE [u EXCEPT !.indent = @ - 1]

DisableNext(u) == [u EXCEPT !.disable = TRUE]

(* dt_undo_clear: the items of the filter are freed, the others dropped. *)
Cleared(u) == [u EXCEPT !.undo = <<>>, !.redo = <<>>, !.disable = FALSE]

(* The types the darkroom undoes, DT_UNDO_DEVELOP. *)
Develop == {"HISTORY", "LT_HISTORY", "RATINGS"}

IsMark(i) == i.item.kind = "mark"
Matches(i) == i.item.type \in Develop
Marks(list, j, k) == Cardinality({i \in j..k : IsMark(list[i])})

(* From a mark on, all to the next mark. *)
GroupEnd_MarkLeft(list, first) ==   \* mutant
  LET later == {k \in first + 1..Len(list) : IsMark(list[k])} IN
  IF later = {} THEN Len(list) ELSE Min(later) - 1
GroupEnd(list, first) ==
  LET later == {k \in first + 1..Len(list) : IsMark(list[k])} IN
  IF later = {} THEN Len(list) ELSE Min(later)

(* From an item on, all of its time, and every group met to its end. *)
PeriodEnd(list, first) ==
  LET goesOn(k) == /\ Matches(list[k + 1])
                   /\ \/ Marks(list, first, k) % 2 = 1
                      \/ list[k + 1].ts = list[first].ts
  IN Min({k \in first..Len(list) : k = Len(list) \/ ~goesOn(k)})

FirstMoved(list) ==
  LET found == {k \in 1..Len(list) : Matches(list[k])} IN
  IF found = {} THEN 0 ELSE Min(found)

LastMoved(list) ==
  LET first == FirstMoved(list) IN
  IF IsMark(list[first]) THEN GroupEnd(list, first) ELSE PeriodEnd(list, first)

-----------------------------------------------------------------------------
(* develop/develop.c *)

(* Above the end go all items but those of always-on modules not listed    *)
(* below it; these become active again.                                    *)
Kept_None(h, e) == <<>>   \* mutant
Kept(h, e) ==
  Picked(h, {k \in DOMAIN h : /\ e \in 0..k - 1 /\ h[k].module \in AlwaysOn
                              /\ ~Listed(h, e, OpOf[h[k].module])})

Push(h, e, item) == [history |-> Append(h, item), end |-> e + 1]

(* _dev_add_history_item_ext *)
Added(h, e, m, v, focused) ==
  LET kept == Kept(h, e)
      below == IF e < 0 THEN h ELSE SubSeq(h, 1, e) \o kept
      top == e + Len(kept)
      item == Item(m, v, focused)
      listed == top \in 1..Len(below) /\ below[top].module = m
      refocused == listed /\ focused # below[top].focus /\ below[top].value # v
  IN IF ~listed \/ refocused
     THEN Push(below, top, item)
     ELSE [history |-> [below EXCEPT ![top].value = v], end |-> top]

(* dt_dev_pop_history_items: the controls show what is active. *)
Shown(h, e) ==
  [m \in Instance |->
    LET of == {k \in 1..Len(h) : k <= e /\ h[k].module = m} IN
    IF of = {} THEN 0 ELSE h[Max(of)].value]

(* dt_dev_read_history_ext: always-on modules not in the stored history    *)
(* are put before it.                                                      *)
Missing(items) ==
  InOrder({m \in AlwaysOn : \A k \in DOMAIN items : OpOf[items[k][1]] # OpOf[m]})
Read(s) ==
  LET items == [k \in 1..Len(Missing(s.items)) |-> <<Missing(s.items)[k], 0>>] \o s.items
  IN [history |-> [k \in 1..Len(items) |-> Item(items[k][1], items[k][2], FALSE)],
      end |-> s.end + Len(Missing(s.items))]

Fresh == Read([items |-> <<>>, end |-> 0])

(* Compressing keeps the last active item of each instance. *)
Compressed(s) ==
  Picked(s.items,
         {k \in 1..s.end : \A i \in k + 1..s.end : s.items[i][1] # s.items[k][1]})

-----------------------------------------------------------------------------
HistoryInit ==
  /\ history = Fresh.history /\ end = Fresh.end
  /\ params = Shown(history, end) /\ present = Base
  /\ focus = FALSE /\ target = Nobody /\ copying = Nobody
  /\ level = 0 /\ recording = TRUE
  /\ lists = [undo |-> <<>>, redo |-> <<>>, group |-> "NONE", indent |-> 0,
              disable |-> FALSE]
  /\ now = 0 /\ steps = 0
  /\ job = "new"
  /\ disturbed = FALSE

Counted == steps < MaxSteps /\ steps' = steps + 1
GuiStep == Counted /\ copying = Nobody /\ (GuiWaits => ~lists.disable)

(* The will-change signal: outside of another change, the state before it  *)
(* is recorded.                                                            *)
WillChange(u) ==
  IF level = 0 /\ recording THEN Recorded(u, Snapshot(State), now) ELSE u

(* A change between its two signals. *)
Bracketed == lists' = WillChange(lists) /\ recording' = TRUE /\ UNCHANGED level

Takes(new) == history' = new.history /\ end' = new.end

(* dt_dev_add_history_item_target: going on with the same control makes no *)
(* record for a while.  The control may have focused its module before.    *)
Edit(m, control) ==
  /\ GuiStep
  /\ m \in present
  /\ focus' \in {focus, TRUE}
  /\ \E v \in {0, steps + 1} \ {params[m]} :
       /\ params' = [params EXCEPT ![m] = v]
       /\ Takes(Added(history, end, m, v, focus'))
  /\ \/ control /\ target = m /\ UNCHANGED <<target, lists, libVars>>
     \/ target' = (IF control THEN m ELSE Nobody) /\ Bracketed
  /\ UNCHANGED <<present, copying, now, job, disturbed>>

(* dt_iop_gui_duplicate: the base is listed, then the copy, which takes its *)
(* parameters or the defaults.                                             *)
Duplicate(m, c) ==
  /\ GuiStep
  /\ m \in present /\ c \in Copy \ present /\ OpOf[c] = OpOf[m]
  /\ Takes(Added(history, end, m, params[m], focus)) /\ Bracketed
  /\ \E v \in {0, params[m]} : params' = [params EXCEPT ![c] = v]
  /\ present' = present \cup {c}
  /\ target' = Nobody /\ copying' = c
  /\ UNCHANGED <<focus, now, job, disturbed>>

ListCopy ==
  /\ copying # Nobody /\ (GuiWaits => ~lists.disable)
  /\ Takes(Added(history, end, copying, params[copying], focus)) /\ Bracketed
  /\ copying' = Nobody /\ focus' = TRUE /\ target' = Nobody
  /\ UNCHANGED <<params, present, steps, now, job, disturbed>>

(* _gui_delete_callback, dt_dev_module_remove: every item of the copy      *)
(* takes one off the end, and without any the inner change signal is not   *)
(* raised.                                                                 *)
DeleteCopy(c) ==
  LET of == {k \in DOMAIN history : history[k].module = c} IN
  /\ GuiStep
  /\ c \in Copy \cap present
  /\ RemoveListedOnly => of # {} /\ \A k \in of : k <= end
  /\ lists' = WillChange(lists)
  /\ level' = IF of = {} THEN level + 1 ELSE level
  /\ recording' = TRUE
  /\ history' = Picked(history, DOMAIN history \ of)
  /\ end' = end - Cardinality(of)
  /\ present' = present \ {c} /\ focus' = TRUE /\ target' = Nobody
  /\ UNCHANGED <<params, copying, now, job, disturbed>>

(* A click in the list of the history. *)
Click(n) ==
  /\ GuiStep
  /\ n \in 0..Len(history) /\ n # end
  /\ end' = n /\ params' = Shown(history, n) /\ target' = Nobody
  /\ Bracketed
  /\ UNCHANGED <<history, present, focus, copying, now, job, disturbed>>

(* dt_dev_reload_history_items *)
Reloaded(s) ==
  /\ Takes(Read(s))
  /\ params' = Shown(history', end')
  /\ focus' = FALSE /\ target' = Nobody

Rewritten(items) == Reloaded([items |-> items, end |-> Len(items)])

(* _lib_history_truncate: with nothing active the history is deleted, by   *)
(* an operation that records a group of its own.                           *)
Truncate(items) ==
  /\ GuiStep
  /\ Rewritten(items) /\ recording' = TRUE
  /\ lists' = IF end = 0
              THEN EndGroup(Recorded(StartGroup(WillChange(lists), "LT_HISTORY", now),
                                     Other("LT_HISTORY"), now), now)
              ELSE WillChange(lists)
  /\ UNCHANGED <<level, present, copying, now, job, disturbed>>

(* gui_reset *)
Discard ==
  /\ GuiStep
  /\ Rewritten(<<>>) /\ Bracketed
  /\ UNCHANGED <<present, copying, now, job, disturbed>>

(* Another change that the darkroom records as a group: ratings, metadata. *)
Rate(type) ==
  /\ GuiStep
  /\ lists' = EndGroup(Recorded(StartGroup(lists, type, now), Other(type), now), now)
  /\ disturbed' = (disturbed \/ (lists.indent > 0 /\ type \notin Develop))
  /\ UNCHANGED <<devVars, libVars, now, job>>

(* _undo_do_undo_redo, with the callback _pop_undo for each edit: the      *)
(* state at hand and the one of the item change places, and the list of    *)
(* modules follows the history.                                            *)
Block(from) == SubSeq(from, FirstMoved(from), LastMoved(from))
Edits(list) == {k \in DOMAIN list : list[k].item.kind = "edit"}

Moved(block) ==
  LET before(n) == {k \in Edits(block) : k < n}
      swapped(n) ==
        IF n \notin Edits(block) THEN block[n]
        ELSE [block[n] EXCEPT !.item.was = IF before(n) = {} THEN State
                                           ELSE block[Max(before(n))].item.was]
  IN [k \in 1..Len(block) |-> swapped(Len(block) + 1 - k)]

Rest(from) == SubSeq(from, 1, FirstMoved(from) - 1) \o SubSeq(from, LastMoved(from) + 1, Len(from))

Restore(block) ==
  IF Edits(block) = {}
  THEN UNCHANGED <<history, end, params, present, focus, target, recording>>
  ELSE /\ Reloaded(block[Max(Edits(block))].item.was)
       /\ present' = Base \cup {history'[k].module : k \in DOMAIN history'}
       /\ recording' = TRUE

Disturb == disturbed' = (disturbed \/ lists.indent > 0)

Undo ==
  /\ GuiStep /\ FirstMoved(lists.undo) # 0
  /\ Restore(Block(lists.undo))
  /\ lists' = [lists EXCEPT !.undo = Rest(@), !.redo = Moved(Block(lists.undo)) \o @]
  /\ Disturb
  /\ UNCHANGED <<copying, level, now, job>>

Redo ==
  /\ GuiStep /\ FirstMoved(lists.redo) # 0
  /\ Restore(Block(lists.redo))
  /\ lists' = [lists EXCEPT !.redo = Rest(@), !.undo = Moved(Block(lists.redo)) \o @]
  /\ Disturb
  /\ UNCHANGED <<copying, level, now, job>>

(* Another image is opened in the darkroom. *)
ChangeImage ==
  /\ GuiStep
  /\ Reloaded([items |-> <<>>, end |-> 0]) /\ present' = Base /\ recording' = TRUE
  /\ lists' = Cleared(lists) /\ Disturb
  /\ UNCHANGED <<copying, level, now, job>>

Gui ==
  \/ \E m \in Instance, control \in BOOLEAN : Edit(m, control)
  \/ Discard \/ Undo \/ Redo \/ ChangeImage \/ ListCopy
  \/ \E m \in Base, c \in Copy : Duplicate(m, c)
  \/ \E c \in Copy : DeleteCopy(c)
  \/ \E n \in 0..Len(history) : Click(n)
  \/ Truncate(Compressed(State)) \/ Truncate(SubSeq(State.items, 1, end))
  \/ \E type \in RatedTypes : Rate(type)

-----------------------------------------------------------------------------
(* The job: a group of records on other images (pasting a history), or,    *)
(* applying a style, of records the first of which is not to be kept.      *)

JobStep(from, to, u) ==
  /\ Counted /\ job = from
  /\ job' = to /\ lists' = u
  /\ UNCHANGED <<devVars, libVars, now, disturbed>>

JobStart == JobStep("new", "open", StartGroup(lists, "LT_HISTORY", now))

JobRecord ==
  JobStep("open", "open", EndGroup(Recorded(StartGroup(lists, "LT_HISTORY", now),
                                            Other("LT_HISTORY"), now), now))

JobDisable == ~lists.disable /\ JobStep("open", "open", DisableNext(lists))

(* A record has followed each call of dt_undo_disable_next. *)
JobEnd == ~lists.disable /\ JobStep("open", "done", EndGroup(lists, now))

Job == JobStart \/ JobRecord \/ JobDisable \/ JobEnd

Tick ==
  /\ Counted
  /\ now' = now + 1
  /\ UNCHANGED <<devVars, libVars, lists, job, disturbed>>

HistoryNext == Gui \/ Job \/ Tick

HistorySpec == HistoryInit /\ [][HistoryNext]_historyVars

-----------------------------------------------------------------------------
States == [items : Seq(Instance \X Nat), end : Int]

HistoryTypeOK ==
  /\ \A k \in DOMAIN history :
       history[k] \in [module : Instance, value : 0..MaxSteps, focus : BOOLEAN]
  /\ end \in 0..Len(history) /\ Base \subseteq present
  /\ {history[k].module : k \in DOMAIN history} \subseteq present
  /\ level = 0 /\ recording
  /\ lists.indent = (IF job = "open" THEN 1 ELSE 0)
  /\ (lists.group = "NONE") = (lists.indent = 0)

(* The controls of a module show what the active part of the history says  *)
(* of it, which is what the pipe will process (pop_history_items against   *)
(* _dev_add_history_item_ext), but for a copy about to be listed; and an   *)
(* always-on module keeps an item through edits, truncation, compression.  *)
ShowsHistory(m) == params[m] = Shown(history, end)[m]
ControlsShowHistory ==
  /\ \A m \in present \ (AlwaysOn \cup {copying}) : ShowsHistory(m)
  /\ \A m \in AlwaysOn : Listed(history, Len(history), OpOf[m])

(* A click in the history says "any edits will be made to that earlier     *)
(* state, losing later changes", and that state is what the controls show. *)
EditsMadeToThatState == \A m \in present : ShowsHistory(m)

(* Between two handlers no will-change signal is still waiting for its     *)
(* change signal (libs/history.c: the level is "set to +1 in signal ...    *)
(* WILL_CHANGE and back to -1 in ... CHANGE"); while one is, nothing the   *)
(* user does can be undone.                                                *)
SignalsPaired == level = 0

(* The active items are items of the history. *)
EndInside == end \in 0..Len(history)

(* "create a group of item to be handled together" (common/undo.h).        *)
GroupsHandledTogether ==
  lists.indent = 0 =>
    /\ Marks(lists.undo, 1, Len(lists.undo)) % 2 = 0
    /\ Marks(lists.redo, 1, Len(lists.redo)) % 2 = 0

(* A group is undone and redone as a whole: as long as nobody undid,       *)
(* cleared or recorded what the darkroom does not undo while one was open, *)
(* neither list ever holds half of one.                                    *)
GroupsMoveWhole == ~disturbed => GroupsHandledTogether

(* Between any two handlers the history, its end, the records of undo and  *)
(* the groups they come in fit together.                                   *)
HistoryWellFormed == HistoryTypeOK /\ GroupsMoveWhole

(* Undo and redo walk along the states the user went through, whatever     *)
(* groups and other records lie between them: see Timeline.                *)
Snapshots(list) ==
  [n \in 1..Cardinality(Edits(list)) |-> Picked(list, Edits(list))[n].item.was]

Line == INSTANCE Timeline WITH
  Document <- States, past <- Snapshots(lists.undo), present <- State,
  future <- Snapshots(lists.redo)

WalksTheTimeline == Line!Spec
=============================================================================
