--------------------------- MODULE MCCpuScheduler ---------------------------
(* A small instance of CpuScheduler for TLC. *)
EXTENDS CpuScheduler

(* An export, an analysis that waits for it, and a view that waits for the   *)
(* analysis although its class comes first; and a task of the analysis's     *)
(* class that depends on nothing and may overtake it.                        *)
ChainTasks == {"export", "analyse", "show", "tidy"}
ChainPriority == [t \in ChainTasks |->
  CASE t = "export" -> "UserExport" [] t = "show" -> "VisibleFullView"
    [] OTHER -> "Maintenance"]
ChainDependencies == [t \in ChainTasks |->
  CASE t = "analyse" -> {"export"} [] t = "show" -> {"analyse"} [] OTHER -> {}]
ChainMemory == [t \in ChainTasks |-> IF t = "export" THEN 2 ELSE 1]
ChainWorkers == [t \in ChainTasks |-> IF t = "analyse" THEN 2 ELSE 1]

=============================================================================
