----------------------------- MODULE MCWritePath -----------------------------
(* Instances of WritePath for TLC.                                         *)
EXTENDS WritePath, TLC

CONSTANTS p1, p2, w1, w2, w3, r1, r2, h1

\* Two workers in one process, one in another; two workers in one process.
Two == (w1 :> p1) @@ (w2 :> p1) @@ (w3 :> p2)
One == (w1 :> p1) @@ (w2 :> p1)
=============================================================================
