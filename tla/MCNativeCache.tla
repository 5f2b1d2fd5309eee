---------------------------- MODULE MCNativeCache ----------------------------
(* Small instances of NativeCache for TLC. *)
EXTENDS NativeCache, TLC

CONSTANTS t1, t2, t3, k1, k2, s1, s2
TwoThreads   == {t1, t2}
ThreeThreads == {t1, t2, t3}
OneKey  == {k1}
TwoKeys == {k1, k2}
Slots   == {s1, s2}
=============================================================================
