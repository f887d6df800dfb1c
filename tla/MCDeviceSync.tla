---------------------------- MODULE MCDeviceSync ----------------------------
(* Instances of DeviceSync for TLC.                                        *)
EXTENDS DeviceSync, TLC

CONSTANTS d1, d2, d3, m, c1, c2

\* A memory and two corrections of it; with one; none.
Branching == (m :> None) @@ (c1 :> m) @@ (c2 :> m)
Chained   == (m :> None) @@ (c1 :> m)
Empty     == <<>>

\* Bounds: one store at a time is torn by a race; while a local program changes a store,
\* the other devices rest, whose steps do not touch that store.
OneRace  == Cardinality(raced) <= 1
OneScene == \A d \in Device : client[d] # AtRest =>
               \A x \in Device \ {d} : At(x, "idle") /\ client[x] = AtRest
=============================================================================
