---------------------------- MODULE MCControlJobs ----------------------------
(* Small instances of ControlJobs for TLC. *)
EXTENDS ControlJobs, TLC

CONSTANTS c1, c2, w1, w2, r1,
          import, thumb1, thumb2, thumb3, scan, export1, export2, lua,
          pipe1, pipe2, history

OneClient   == {c1}
TwoClients  == {c1, c2}
WorkerSet   == {w1, w2}
ReservedSet == {r1}
NoReserved  == {}
OneWorker   == {w1}

(* The queues of the jobs, by the use the program makes of them. *)
Usual == (import :> USER_FG) @@ (thumb1 :> SYSTEM_FG) @@ (thumb2 :> SYSTEM_FG)
         @@ (thumb3 :> SYSTEM_FG) @@ (scan :> USER_BG) @@ (export1 :> USER_EXPORT)
         @@ (export2 :> USER_EXPORT) @@ (lua :> SYSTEM_BG)
         @@ (pipe1 :> USER_FG) @@ (pipe2 :> USER_FG)
         @@ (history :> USER_FG)   \* never queued, its queue is that of calloc
Queues  == [j \in Jobs |-> Usual[j]]
Slots   == [j \in Jobs \cap {pipe1, pipe2} |-> r1]

(* thumb1 and thumb2 are the same thumbnail. *)
Contents == [j \in Jobs |-> IF j \in {thumb1, thumb2} THEN thumb3 ELSE None]

(* Workers are alike, and so are the two equal jobs. *)
Symmetry == Permutations(WorkerSet) \cup Permutations({thumb1, thumb2})

(* The history job of the image in the darkroom runs where it is added. *)
AtOnce   == Jobs \cap {history}

Buttons  == Jobs \cap {import, scan, export1}
=============================================================================
