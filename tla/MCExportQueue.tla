---------------------------- MODULE MCExportQueue ----------------------------
(* Small instances of ExportQueue for TLC. *)
EXTENDS ExportQueue, TLC

CONSTANTS r1, r2, g1, w1, w2, c1, c2

OneRequest == {r1}
TwoRequests == {r1, r2}
OneTarget == {g1}
SameTarget == [r \in Request |-> g1]
OneWorker == {w1}
TwoWorkers == {w1, w2}
OneClient == {c1}
TwoClients == {c1, c2}
Symmetric == Permutations({w1, w2}) \cup Permutations({c1, c2}) \cup Permutations({r1, r2})

=============================================================================
