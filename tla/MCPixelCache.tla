---------------------------- MODULE MCPixelCache ----------------------------
(* Small instances of PixelCache for TLC. *)
EXTENDS PixelCache, TLC

CONSTANTS t1, t2, t3, k1
TwoThreads == {t1, t2}
ThreeThreads == {t1, t2, t3}
OneKey == {k1}
ThreadSymmetry == Permutations(Thread)

=============================================================================
