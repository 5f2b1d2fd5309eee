-------------------------- MODULE MCDevelopHistory --------------------------
(* Module 1 may be copied once, to 2; module 3 is always on. *)
EXTENDS DevelopHistory
MCOpOf == [i \in Instance |-> IF i = 2 THEN 1 ELSE i]
=============================================================================
