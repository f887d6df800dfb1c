--------------------------- MODULE SharedProfile ---------------------------
(***************************************************************************)
(* What encrypted sync promises of one profile, without a server, messages *)
(* or keys: devices gather facts, and what they publish is a chain of ever *)
(* larger sets of them.  Each device is at a place in the chain that it    *)
(* reaches step by step, as it has what the chain carries there; only at   *)
(* its end can it publish, or remove another device, which begins an epoch *)
(* with an empty chain that the removed device never enters.  A device     *)
(* loses a fact in one case only: a tombstone it gathered between looking  *)
(* at what it has and taking what the chain carries.                       *)
(***************************************************************************)
EXTENDS Integers, Sequences

CONSTANTS Device,   \* the computers of one account
          Fact,     \* what a device can have: memories and their tombstones
          Fading    \* those it may lose while it takes others: the tombstones

VARIABLES removed,  \* the devices removed, in order
          chain,    \* what each revision of this epoch carries
          holds,    \* device -> the facts it has
          merging,  \* the devices that have looked and not yet taken
          seen,     \* device -> what it had when it looked
          place     \* device -> its epoch and its revision; epoch 0: not in yet

vars == <<removed, chain, holds, merging, seen, place>>

\* Every removal begins an epoch.
Epoch    == Len(removed) + 1
Start(e) == [epoch |-> e, head |-> 0]

Member(d) == \A i \in 1..Len(removed) : removed[i] # d
AtEnd(d)  == place[d] = [epoch |-> Epoch, head |-> Len(chain)]

Init ==
    /\ removed = <<>>
    /\ chain = <<>>
    /\ holds = [d \in Device |-> {}]
    /\ merging = {}
    /\ seen = [d \in Device |-> {}]
    /\ place \in [Device -> {Start(0), Start(1)}]

\* The user adds facts, at any time.
Gather(d) ==
    /\ UNCHANGED <<removed, chain, merging, seen, place>>
    /\ \E facts \in SUBSET Fact : holds' = [holds EXCEPT ![d] = @ \cup facts]

Look(d) ==
    /\ place[d].epoch # 0 /\ d \notin merging
    /\ merging' = merging \cup {d}
    /\ seen' = [seen EXCEPT ![d] = holds[d]]
    /\ UNCHANGED <<removed, chain, holds, place>>

Forgo(d) ==
    /\ merging' = merging \ {d}
    /\ seen' = [seen EXCEPT ![d] = {}]

LookAway(d) ==
    /\ d \in merging
    /\ Forgo(d)
    /\ UNCHANGED <<removed, chain, holds, place>>

\* A device takes the next revision as it has all that is in it, unless the chain it
\* is reading is no longer the one of this epoch.  It has what it had when it looked, and
\* what it gathered since but for the tombstones; it may not note that it moved on.
Take(d) ==
    /\ d \in merging
    /\ UNCHANGED <<removed, chain>>
    /\ Forgo(d)
    /\ place' \in {place, [place EXCEPT ![d].head = @ + 1]}
    /\ \E facts \in SUBSET Fact :
          /\ holds' = [holds EXCEPT ![d] = facts]
          /\ seen[d] \subseteq facts /\ holds[d] \ Fading \subseteq facts
          /\ place[d].epoch = Epoch =>
                /\ place[d].head < Len(chain)
                /\ chain[place[d].head + 1] \subseteq facts

\* What is published is held by the device and has all that was published before; the
\* device may not come to know that it was.
Publish(d) ==
    /\ Member(d) /\ AtEnd(d)
    /\ \E body \in SUBSET holds[d] :
          /\ \A i \in 1..Len(chain) : chain[i] \subseteq body
          /\ chain' = Append(chain, body)
    /\ place' \in {place, [place EXCEPT ![d].head = @ + 1]}
    /\ UNCHANGED <<removed, holds, merging, seen>>

Remove(d, t) ==
    /\ Member(d) /\ Member(t) /\ d # t /\ AtEnd(d)
    /\ removed' = Append(removed, t)
    /\ chain' = <<>>
    /\ place' \in {place, [place EXCEPT ![d] = Start(Epoch + 1)]}
    /\ UNCHANGED <<holds, merging, seen>>

\* A device that was let in begins with an epoch that is not after its own removal.
Enter(d) ==
    /\ place[d].epoch = 0
    /\ \E e \in 1..Epoch : /\ \A i \in 1..e - 1 : removed[i] # d
                           /\ place' = [place EXCEPT ![d] = Start(e)]
    /\ UNCHANGED <<removed, chain, holds, merging, seen>>

\* The next epoch, unless it is the one that began with the removal of the device.
Follow(d) ==
    /\ place[d].epoch \in 1..Len(removed)
    /\ removed[place[d].epoch] # d
    /\ place' = [place EXCEPT ![d] = Start(place[d].epoch + 1)]
    /\ UNCHANGED <<removed, chain, holds, merging, seen>>

Next ==
    \/ \E d \in Device : Gather(d) \/ Look(d) \/ LookAway(d) \/ Take(d)
    \/ \E d \in Device : Publish(d) \/ Enter(d) \/ Follow(d)
    \/ \E d, t \in Device : Remove(d, t)

Spec == Init /\ [][Next]_vars
=============================================================================
