------------------------- MODULE MCConcurrentCache -------------------------
(* Small instances of ConcurrentCache for TLC. *)
EXTENDS ConcurrentCache, TLC

CONSTANTS t1, t2, t3, k1, k2

TwoThreads == {t1, t2}
ThreeThreads == {t1, t2, t3}
OneKey == {k1}
TwoKeys == {k1, k2}
ThreadSymmetry == Permutations({t1, t2, t3})

=============================================================================
