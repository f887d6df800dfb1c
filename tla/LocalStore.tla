----------------------------- MODULE LocalStore -----------------------------
(***************************************************************************)
(* The local memory store and its state integrity (lians_easy/store.py,    *)
(* state_integrity.py): one SQLite database that several clients open at   *)
(* once.  A memory is a chain of versions; dependencies link a version to  *)
(* what was made from it, a memory or an artifact, and a change leaves     *)
(* open invalidations along them, to be repaired or dismissed.             *)
(*                                                                         *)
(* set_current, link_many and resolve begin with BEGIN IMMEDIATE: one      *)
(* step.  correct, rescope and forget read outside a transaction, which    *)
(* sqlite3 begins at their first write: two steps.                         *)
(***************************************************************************)
EXTENDS Integers, Sequences

CONSTANTS
    Clients,          \* processes that have the store open
    Keys,             \* memory keys: names of current state
    NoKey,            \* of a memory that is not named
    Projects,         \* projects
    Global,           \* the place of a memory of no project
    Artifacts,        \* files, tickets: what is not a memory but depends on one
    MaxMemories,      \* bound: versions ever written
    MaxDependencies   \* bound: dependencies ever linked

ASSUME StoreAssumption ==
    /\ NoKey \notin Keys /\ Global \notin Projects
    /\ Artifacts \cap (1..MaxMemories) = {}
    /\ MaxMemories \in Nat /\ MaxDependencies \in Nat

VARIABLES
    memory,        \* memories: versions, in the order they were written
    dependency,    \* state_dependencies
    invalidation,  \* state_invalidations, as a set: a dependency has one at most
    doing          \* client -> the operation it has read the memory for

vars == <<memory, dependency, invalidation, doing>>

Ids    == 1..MaxMemories
None   == 0
Places == Projects \cup {Global}

\* key, place (scope and project), supersedes_id, superseded_by_id; what wrote the
\* version; forgotten_at.
Versions ==
    [key : Keys \cup {NoKey}, place : Places, supersedes : Ids \cup {None},
     superseded_by : Ids \cup {None},
     by : {"remember", "set_current", "correct", "rescope"}, forgotten : BOOLEAN]

\* A row that forgetting deletes stays here as deleted.  Two ghosts: whether the
\* upstream version was the current one when the link was made, and whether the
\* forgetting of another memory swept an invalidation of it away.
Dependencies ==
    [upstream : Ids, downstream : Ids \cup Artifacts, provenance : {"explicit", "repair"},
     state : {"active", "retired", "deleted"}, current : BOOLEAN, swept : BOOLEAN]

Invalidations ==
    [dependency : 1..MaxDependencies, trigger : Ids, replacement : Ids,
     status : {"open", "repaired", "dismissed"}]

Operations == [op : {"none", "correct", "rescope", "forget"}, ids : SUBSET Ids, place : Places]

TypeOK ==
    /\ memory \in Seq(Versions) /\ Len(memory) <= MaxMemories
    /\ \A i \in DOMAIN memory :
          /\ memory[i].supersedes < i
          /\ memory[i].superseded_by \in {None} \cup (i + 1)..Len(memory)
    /\ dependency \in Seq(Dependencies) /\ Len(dependency) <= MaxDependencies
    /\ invalidation \subseteq Invalidations
    /\ \A n \in invalidation : n.dependency \in DOMAIN dependency
    /\ doing \in [Clients -> Operations]

Idle == [op |-> "none", ids |-> {}, place |-> Global]

Init ==
    /\ memory = <<>>
    /\ dependency = <<>>
    /\ invalidation = {}
    /\ doing = [c \in Clients |-> Idle]

Current(i) == ~memory[i].forgotten /\ memory[i].superseded_by = None

Active == {d \in DOMAIN dependency : dependency[d].state = "active"}
Open   == {n \in invalidation : n.status = "open"}

-----------------------------------------------------------------------------
(* propagate_invalidation, inside the transaction of the change.            *)

\* The memories that depend on memory i, at any distance, and i itself: the least set
\* that holds i and all that depends on one of its own.
Reached(i) ==
    LET closed(S) == \A d \in Active :
                        /\ dependency[d].upstream \in S
                        /\ dependency[d].downstream \in Ids
                        => dependency[d].downstream \in S
    IN  {m \in DOMAIN memory :
            \A S \in SUBSET (DOMAIN memory) : i \in S /\ closed(S) => m \in S}

\* Mutant of Impacted: only the direct dependents of memory i, and only memories.
ImpactedMemories(i) ==
    {d \in Active : dependency[d].upstream = i /\ dependency[d].downstream \in Ids}

Impacted(i) == {d \in Active : dependency[d].upstream \in Reached(i)}

\* Every one of them gets an open invalidation, unless it has one: that one is kept,
\* with its own trigger and replacement.
Invalidate(i, by) ==
    LET fresh == {d \in Impacted(i) : \A n \in Open : n.dependency # d}
    IN  invalidation' = invalidation \cup
            {[dependency |-> d, trigger |-> i, replacement |-> by, status |-> "open"] :
                d \in fresh}

-----------------------------------------------------------------------------
(* Memories.                                                                *)

\* A new version, and its predecessor closed.
Write(v) ==
    LET id == Len(memory) + 1
        old(i) == IF i = v.supersedes THEN [memory[i] EXCEPT !.superseded_by = id]
                  ELSE memory[i]
    IN  /\ Len(memory) < MaxMemories
        /\ memory' = Append([i \in DOMAIN memory |-> old(i)], v)

Version(key, place, supersedes, by) ==
    [key |-> key, place |-> place, supersedes |-> supersedes, superseded_by |-> None,
     by |-> by, forgotten |-> FALSE]

Remember(place) ==
    /\ Write(Version(NoKey, place, None, "remember"))
    /\ UNCHANGED <<dependency, invalidation, doing>>

Named(key, place) ==
    {i \in DOMAIN memory : Current(i) /\ memory[i].key = key /\ memory[i].place = place}

\* Mutant of SetCurrent: the current version is read before the transaction begins,
\* so that another writer's first version of the key is not seen.
SetCurrentBlind(key, place) ==
    /\ Write(Version(key, place, None, "set_current"))
    /\ UNCHANGED <<dependency, invalidation, doing>>

\* The first version of a key, or the next: of several current ones any is replaced.
\* With expected_current_id the same, if it is the version the caller has read.
SetCurrent(key, place) ==
    /\ \/ /\ Named(key, place) = {}
          /\ Write(Version(key, place, None, "set_current"))
          /\ UNCHANGED invalidation
       \/ \E i \in Named(key, place) :
             /\ Write(Version(key, place, i, "set_current"))
             /\ Invalidate(i, Len(memory) + 1)
    /\ UNCHANGED <<dependency, doing>>

\* A client reads the memory it is going to correct, or to move to a place.
BeginUpdate(c, op, i, place) ==
    /\ doing[c] = Idle /\ Current(i)
    /\ op = "correct" => place = memory[i].place
    /\ doing' = [doing EXCEPT ![c] = [op |-> op, ids |-> {i}, place |-> place]]
    /\ UNCHANGED <<memory, dependency, invalidation>>

\* The version it read is replaced, whatever has become of it.
FinishCorrect(c) ==
    \E i \in doing[c].ids :
        /\ doing[c].op = "correct"
        /\ Write(Version(memory[i].key, doing[c].place, i, "correct"))
        /\ Invalidate(i, Len(memory) + 1)
        /\ doing' = [doing EXCEPT ![c] = Idle]
        /\ UNCHANGED dependency

\* The same content in another place: nothing is invalidated.
FinishRescope(c) ==
    \E i \in doing[c].ids :
        /\ doing[c].op = "rescope"
        /\ Write(Version(memory[i].key, doing[c].place, i, "rescope"))
        /\ doing' = [doing EXCEPT ![c] = Idle]
        /\ UNCHANGED <<dependency, invalidation>>

\* The versions connected to i: the least set that holds i and its neighbours.
Lineage(i) ==
    LET closed(S) == \A k \in S :
                        {memory[k].supersedes, memory[k].superseded_by} \cap Ids \subseteq S
    IN  {m \in DOMAIN memory :
            \A S \in SUBSET (DOMAIN memory) : i \in S /\ closed(S) => m \in S}

\* The lineage is followed by reads of its own ...
BeginForget(c, i) ==
    /\ doing[c] = Idle
    /\ doing' = [doing EXCEPT ![c] = [op |-> "forget", ids |-> Lineage(i), place |-> Global]]
    /\ UNCHANGED <<memory, dependency, invalidation>>

\* Mutant of Names: a dependency is only looked at from its upstream side.
NamesUpstream(d, ids) == dependency[d].upstream \in ids

Names(d, ids) == dependency[d].upstream \in ids \/ dependency[d].downstream \in ids

\* ... and its versions forgotten, with every dependency and invalidation that names
\* one of them.
FinishForget(c) ==
    LET ids == doing[c].ids
        gone == {n \in invalidation : \/ n.trigger \in ids \/ n.replacement \in ids
                                      \/ Names(n.dependency, ids)}
    IN  /\ doing[c].op = "forget"
        /\ memory' = [i \in DOMAIN memory |->
                         [memory[i] EXCEPT !.forgotten = @ \/ i \in ids]]
        /\ dependency' = [d \in DOMAIN dependency |->
                             [dependency[d] EXCEPT
                                 !.state = IF Names(d, ids) THEN "deleted" ELSE @,
                                 !.swept = @ \/ \E n \in gone : n.dependency = d]]
        /\ invalidation' = invalidation \ gone
        /\ doing' = [doing EXCEPT ![c] = Idle]

-----------------------------------------------------------------------------
(* Dependencies: link_many, resolve.                                        *)

\* The partial unique index on active dependencies.
Linked(up, to) ==
    \E d \in Active : dependency[d].upstream = up /\ dependency[d].downstream = to

Depend(rows, up, to, provenance) ==
    /\ Len(dependency) < MaxDependencies
    /\ dependency' = Append(rows, [upstream |-> up, downstream |-> to,
                                   provenance |-> provenance, state |-> "active",
                                   current |-> Current(up), swept |-> FALSE])

\* Mutant of Linkable: only a link of a memory to itself is refused.
LinkableNear(up, to) == up # to /\ ~memory[to].forgotten

\* A memory may depend on another of its project, or of none, if that does not depend
\* on it.
Linkable(up, to) ==
    /\ ~memory[to].forgotten
    /\ Global \in {memory[up].place, memory[to].place} \/ memory[up].place = memory[to].place
    /\ up \notin Reached(to)

Link(up, to) ==
    /\ ~memory[up].forgotten
    /\ to \in Ids => Linkable(up, to)
    /\ ~Linked(up, to)
    /\ Depend(dependency, up, to, "explicit")
    /\ UNCHANGED <<memory, invalidation, doing>>

Retire(d) == [dependency EXCEPT ![d].state = "retired"]

Close(n, status) == invalidation' = (invalidation \ {n}) \cup {[n EXCEPT !.status = status]}

\* Mutant of Dismiss: the invalidation stays open.
DismissOnly(n) ==
    /\ n \in Open
    /\ dependency' = Retire(n.dependency)
    /\ UNCHANGED <<memory, invalidation, doing>>

\* An agent says that the dependent needs no repair.
Dismiss(n) ==
    /\ n \in Open
    /\ Close(n, "dismissed")
    /\ dependency' = Retire(n.dependency)
    /\ UNCHANGED <<memory, doing>>

\* What an invalidation may be repaired with: a current memory, or the same artifact.
Repairs(n) ==
    {m \in DOMAIN memory : Current(m)}
        \cup (Artifacts \cap {dependency[n.dependency].downstream})

\* The repaired dependency hangs on the replacement of the memory whose change started
\* it all; it must not be there already.
Repair(n, to) ==
    LET up == n.replacement IN
    /\ n \in Open
    /\ to \in Repairs(n)
    /\ ~Linked(up, to)
    /\ Close(n, "repaired")
    /\ Depend(Retire(n.dependency), up, to, "repair")
    /\ UNCHANGED <<memory, doing>>

Next ==
    \/ \E place \in Places :
          \/ Remember(place)
          \/ \E key \in Keys : SetCurrent(key, place)
          \/ \E c \in Clients, i \in DOMAIN memory :
                BeginUpdate(c, "correct", i, place) \/ BeginUpdate(c, "rescope", i, place)
    \/ \E c \in Clients :
          \/ FinishCorrect(c) \/ FinishRescope(c) \/ FinishForget(c)
          \/ \E i \in DOMAIN memory : BeginForget(c, i)
    \/ \E up \in DOMAIN memory, to \in DOMAIN memory \cup Artifacts : Link(up, to)
    \/ \E n \in invalidation :
          Dismiss(n) \/ \E to \in DOMAIN memory \cup Artifacts : Repair(n, to)

Spec == Init /\ [][Next]_vars

-----------------------------------------------------------------------------
(* Correctness.                                                             *)

Invalidated(d) == \E n \in Open : n.dependency = d

\* The version was replaced by other content, not moved to another place.
Replaced(i) ==
    /\ memory[i].superseded_by # None
    /\ memory[memory[i].superseded_by].by # "rescope"

\* The depends-on relation among memories, by the links of some provenances.
DependsOn(provenances) ==
    {<<dependency[d].upstream, dependency[d].downstream>> :
        d \in {e \in Active : dependency[e].downstream \in Ids
                              /\ dependency[e].provenance \in provenances}}

\* A named state that only set_current has written has one current version at most,
\* however many clients set it, forget it, and set it again.
OneCurrent ==
    \A key \in Keys, place \in Places :
        (\A i \in DOMAIN memory : memory[i].key = key => memory[i].by = "set_current")
            => \A i, j \in Named(key, place) : i = j

\* Nothing is built on replaced content unnoticed: a dependency on a version that was
\* current when it was linked is open to repair once that version is replaced, by
\* whatever client read what when, until it is repaired, dismissed or forgotten, or
\* its invalidation is swept away with a memory that is forgotten.
LinkedFollows ==
    \A d \in Active :
        dependency[d].current /\ ~dependency[d].swept /\ Replaced(dependency[d].upstream)
            => Invalidated(d)

\* An open invalidation can be acted on: its dependency is active, and no other one
\* stands on it.
OpenIsActive ==
    \A n \in Open :
        /\ n.dependency \in Active
        /\ \A k \in invalidation : k.dependency = n.dependency => k = n

\* Once a version is forgotten no dependency and no open invalidation names it, though
\* links, changes and repairs may run while a client forgets.
ForgottenUnlinked ==
    /\ \A d \in Active : \A i \in {dependency[d].upstream, dependency[d].downstream} \cap Ids :
          ~memory[i].forgotten
    /\ \A n \in Open : ~memory[n.trigger].forgotten /\ ~memory[n.replacement].forgotten

\* Links make no cycle of memories, whatever repairs have added meanwhile: in no set of
\* memories does each depend on another of the set.
LinksAcyclic ==
    LET links == DependsOn({"explicit"})
    IN  \A S \in (SUBSET (DOMAIN memory)) \ {{}} :
            \E i \in S : \A j \in S : <<j, i>> \notin links

\* "Lineage is not reciprocal": an export, a backup and every sync refuse a store in
\* which two versions supersede one.
LineageReciprocal ==
    \A i \in DOMAIN memory :
        memory[i].supersedes # None => memory[memory[i].supersedes].superseded_by = i

\* Forgetting takes every version of a memory.
LineageForgotten ==
    \A i \in DOMAIN memory :
        memory[i].supersedes # None =>
            memory[i].forgotten = memory[memory[i].supersedes].forgotten

\* A key has one current version in one place, whatever wrote it.
OneCurrentAnyway ==
    \A key \in Keys, place \in Places : \A i, j \in Named(key, place) : i = j

\* A repair binds the dependent to the current state: a later change invalidates it again.
RepairedFollows ==
    \A d \in Active :
        dependency[d].provenance = "repair" /\ Replaced(dependency[d].upstream)
            => Invalidated(d)

\* The same, whatever is forgotten: what is forgotten is nothing the dependency names.
LinkedFollowsAnyway ==
    \A d \in Active :
        dependency[d].current /\ Replaced(dependency[d].upstream) => Invalidated(d)

\* A memory that moves takes what depends on it along.
MovedFollows ==
    \A d \in Active :
        ~Invalidated(d) /\ dependency[d].current =>
            memory[dependency[d].upstream].superseded_by = None

\* Every open invalidation of an artifact can be repaired.
Repairable ==
    \A n \in Open :
        dependency[n.dependency].downstream \in Artifacts =>
            ~Linked(n.replacement, dependency[n.dependency].downstream)

\* No memory depends on itself, through links and repairs.
NoSelfDependency == \A p \in DependsOn({"explicit", "repair"}) : p[1] # p[2]
=============================================================================
