------------------------------ MODULE Timeline ------------------------------
(***************************************************************************)
(* What undo promises the user of the darkroom, whatever the lists that    *)
(* keep it look like: the states of the document before the present one,   *)
(* newest first, and those after it, nearest first.  A change makes the    *)
(* present the newest past and there is no future any more; undo and redo  *)
(* walk along the line, one or several states at a time, and change        *)
(* nothing on it.                                                          *)
(***************************************************************************)
EXTENDS Integers, Sequences

CONSTANT Document

VARIABLES past, present, future

vars == <<past, present, future>>

Init == present \in Document /\ past = <<>> /\ future = <<>>

Change ==
  /\ present' \in Document
  /\ past' = <<present>> \o past /\ future' = <<>>

(* A change that goes on with the last one: there is nothing to redo. *)
Amend ==
  /\ future = <<>> /\ present' \in Document
  /\ UNCHANGED <<past, future>>

(* The line from the oldest state to the last, read from the newest. *)
Line(p, d, f) == [k \in 1..Len(f) |-> f[Len(f) + 1 - k]] \o <<d>> \o p

Walk ==
  /\ Line(past', present', future') = Line(past, present, future)
  /\ present' \in Document
  /\ past # past'

(* Something else was done that undo covers too. *)
DropFuture == future' = <<>> /\ UNCHANGED <<past, present>>

(* Another document. *)
Forget == past' = <<>> /\ future' = <<>> /\ present' \in Document

Next == Change \/ Amend \/ Walk \/ DropFuture \/ Forget

Spec == Init /\ [][Next]_vars
=============================================================================
