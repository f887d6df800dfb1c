---------------------------- MODULE MCAuditChain ----------------------------
(* Instances of AuditChain for TLC.                                        *)
EXTENDS AuditChain, TLC

CONSTANTS p1, p2, w1, w2, w3

\* Two writers in one process, one in another; two writers in one process.
Two == (w1 :> p1) @@ (w2 :> p1) @@ (w3 :> p2)
One == (w1 :> p1) @@ (w2 :> p1)
=============================================================================
