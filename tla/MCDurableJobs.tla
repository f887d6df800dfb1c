---------------------------- MODULE MCDurableJobs ----------------------------
(* Instances of DurableJobs for TLC.                                       *)
EXTENDS DurableJobs, TLC

CONSTANTS j1, j2, w1, w2

Symm == Permutations(Workers)
=============================================================================
