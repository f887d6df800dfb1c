---------------------------- MODULE MCRecallCache ----------------------------
(* Instances of RecallCache for TLC.                                       *)
EXTENDS RecallCache, TLC

CONSTANTS p1, p2, r1, r2

Symm == Permutations(Procs) \cup Permutations(Readers)
=============================================================================
