-------------------------- MODULE MCMemoryLifecycle --------------------------
(* Instances of MemoryLifecycle for TLC.                                   *)
EXTENDS MemoryLifecycle, TLC

CONSTANTS m1, m2, m3, w1, w2, va, vb

Symm == Permutations(Memories) \cup Permutations(Workers)
=============================================================================
