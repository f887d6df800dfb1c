----------------------------- MODULE FreshRecall -----------------------------
(***************************************************************************)
(* What recall promises, without caches, processes or barriers: a memory   *)
(* that changes version by version, and requests whose answer is a version *)
(* the memory had at or after the moment the request was admitted.         *)
(***************************************************************************)
EXTENDS Integers

CONSTANTS Readers,     \* concurrent recall requests
          MaxVersion   \* bound: mutations committed

VARIABLES version,     \* mutations committed so far
          status,      \* reader -> "idle", "open" or "done"
          floor,       \* reader -> the oldest version it may answer with
          answer       \* reader -> the version it answered with, 0 before

vars == <<version, status, floor, answer>>

Init ==
    /\ version = 0
    /\ status = [r \in Readers |-> "idle"]
    /\ floor = [r \in Readers |-> 0]
    /\ answer = [r \in Readers |-> 0]

\* A mutation commits.
Write ==
    /\ version < MaxVersion
    /\ version' = version + 1
    /\ UNCHANGED <<status, floor, answer>>

\* A request is admitted, or the next one of the same client.
Ask(r) ==
    /\ status[r] # "open"
    /\ status' = [status EXCEPT ![r] = "open"]
    /\ floor' = [floor EXCEPT ![r] = version]
    /\ answer' = [answer EXCEPT ![r] = 0]
    /\ UNCHANGED version

\* It is answered with a version at least as new as the one it was admitted
\* under; it may commit to a newer one.
Answer(r) ==
    /\ status[r] = "open"
    /\ \E oldest \in floor[r]..version, v \in 0..version :
          /\ v >= oldest
          /\ floor' = [floor EXCEPT ![r] = oldest]
          /\ answer' = [answer EXCEPT ![r] = v]
    /\ status' = [status EXCEPT ![r] = "done"]
    /\ UNCHANGED version

\* The process serving some open requests dies.
Abandon(R) ==
    /\ \A r \in R : status[r] = "open"
    /\ status' = [r \in Readers |-> IF r \in R THEN "idle" ELSE status[r]]
    /\ UNCHANGED <<version, floor, answer>>

Next ==
    \/ Write
    \/ \E r \in Readers : Ask(r) \/ Answer(r)
    \/ \E R \in SUBSET Readers : Abandon(R)

Spec == Init /\ [][Next]_vars
=============================================================================
