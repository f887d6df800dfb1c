-------------------------- MODULE LocalStoreProofs --------------------------
(***************************************************************************)
(* What TLAPS proves of LocalStore for any number of clients, keys,        *)
(* projects, artifacts, memories and dependencies: the type invariant and  *)
(* the five safety invariants of the store's state integrity.              *)
(***************************************************************************)
EXTENDS LocalStore, TableLemmas

-----------------------------------------------------------------------------
(* The inductive invariant.                                                 *)

\* A client works on memories there are.
DoingTyped == \A c \in Clients : doing[c].ids \subseteq DOMAIN memory

\* Active dependencies and open invalidations name memories there are.
LinksTyped ==
    /\ \A d \in Active :
          /\ dependency[d].upstream \in DOMAIN memory
          /\ dependency[d].downstream \in Ids => dependency[d].downstream \in DOMAIN memory
    /\ \A n \in Open : n.trigger \in DOMAIN memory /\ n.replacement \in DOMAIN memory

Typed == TypeOK /\ DoingTyped /\ LinksTyped

\* An invalidation is open exactly while its dependency is active, and it is the only
\* one the dependency has ever had.
OneEach ==
    \A n \in invalidation :
        /\ n.status = "open" <=> n.dependency \in Active
        /\ \A k \in invalidation : k.dependency = n.dependency => k = n

Inv ==
    /\ Typed
    /\ OneEach
    /\ ForgottenUnlinked
    /\ LinkedFollows
    /\ OneCurrent
    /\ LinksAcyclic

\* Every step is one of these, or a stutter.
LEMMA NextCases ==
    ASSUME Next
    PROVE  \/ \E place \in Places : Remember(place)
           \/ \E place \in Places, key \in Keys : SetCurrent(key, place)
           \/ \E c \in Clients, i \in DOMAIN memory, op \in {"correct", "rescope"},
                 place \in Places : BeginUpdate(c, op, i, place)
           \/ \E c \in Clients : FinishCorrect(c)
           \/ \E c \in Clients : FinishRescope(c)
           \/ \E c \in Clients, i \in DOMAIN memory : BeginForget(c, i)
           \/ \E c \in Clients : FinishForget(c)
           \/ \E up \in DOMAIN memory, to \in DOMAIN memory \cup Artifacts : Link(up, to)
           \/ \E n \in invalidation : Dismiss(n)
           \/ \E n \in invalidation, to \in DOMAIN memory \cup Artifacts : Repair(n, to)
  BY DEF Next

\* The empty store satisfies the invariant.
LEMMA InvInit == Init => Inv
  <1> SUFFICES ASSUME Init PROVE Inv
    OBVIOUS
  <1>1. memory = <<>> /\ dependency = <<>> /\ invalidation = {} /\ Active = {} /\ Open = {}
    BY DEF Init, Active, Open
  <1>2. Idle \in Operations /\ Idle.ids = {}
    BY DEF Idle, Operations, Places
  <1>3. Typed
    BY <1>1, <1>2, StoreAssumption, EmptySeq
       DEF Init, Typed, TypeOK, DoingTyped, LinksTyped
  <1>4. OneEach /\ ForgottenUnlinked /\ LinkedFollows
    BY <1>1 DEF OneEach, ForgottenUnlinked, LinkedFollows
  <1>5. OneCurrent
    BY <1>1 DEF OneCurrent, Named
  <1>6. LinksAcyclic
    BY <1>1 DEF LinksAcyclic
  <1>7. QED  BY <1>3, <1>4, <1>5, <1>6 DEF Inv

-----------------------------------------------------------------------------
(* The tables.                                                              *)

\* What the invariant says of the rows of the three tables.
LEMMA Tables ==
    ASSUME TypeOK
    PROVE  /\ Len(memory) \in Nat /\ DOMAIN memory = 1..Len(memory)
           /\ Len(memory) <= MaxMemories /\ DOMAIN memory \subseteq Ids
           /\ Len(dependency) \in Nat /\ DOMAIN dependency = 1..Len(dependency)
           /\ \A i \in DOMAIN memory : memory[i] \in Versions
           /\ \A d \in DOMAIN dependency : dependency[d] \in Dependencies
           /\ Active \subseteq DOMAIN dependency
  <1>1. /\ Len(memory) \in Nat /\ DOMAIN memory = 1..Len(memory)
        /\ \A i \in DOMAIN memory : memory[i] \in Versions
    BY RowsTyped DEF TypeOK
  <1>2. /\ Len(dependency) \in Nat /\ DOMAIN dependency = 1..Len(dependency)
        /\ \A d \in DOMAIN dependency : dependency[d] \in Dependencies
    BY RowsTyped DEF TypeOK
  <1>3. QED  BY <1>1, <1>2, StoreAssumption DEF TypeOK, Ids, Active

-----------------------------------------------------------------------------
(* What depends on a memory (propagate_invalidation, link_many).            *)

\* A version reaches itself.
LEMMA ReachedSelf ==
    ASSUME NEW i \in DOMAIN memory
    PROVE  i \in Reached(i)
  BY DEF Reached

\* What a reached version depends on is reached too.
LEMMA ReachedOn ==
    ASSUME Typed, NEW i, NEW d \in Active, dependency[d].upstream \in Reached(i),
           dependency[d].downstream \in Ids
    PROVE  dependency[d].downstream \in Reached(i)
  BY DEF Reached, Typed, LinksTyped

\* Nothing is reached but by way of a dependency.
LEMMA ReachedAlone ==
    ASSUME NEW i \in DOMAIN memory, \A d \in Active : dependency[d].upstream # i
    PROVE  Impacted(i) = {}
  <1>1. Reached(i) \subseteq {i}
    BY DEF Reached
  <1>2. QED  BY <1>1 DEF Impacted

-----------------------------------------------------------------------------
(* What a new version does to the store.                                    *)

\* The rows after the insertion of a version (set_current, remember, correct, rescope).
LEMMA Written ==
    ASSUME TypeOK, NEW v \in Versions, Write(v)
    PROVE  /\ Len(memory') = Len(memory) + 1 /\ memory' \in Seq(Versions)
           /\ DOMAIN memory' = (DOMAIN memory) \cup {Len(memory) + 1}
           /\ memory'[Len(memory) + 1] = v
           /\ \A i \in DOMAIN memory :
                 memory'[i] = IF i = v.supersedes
                              THEN [memory[i] EXCEPT !.superseded_by = Len(memory) + 1]
                              ELSE memory[i]
  <1> DEFINE id == Len(memory) + 1
             rows == [i \in DOMAIN memory |->
                         IF i = v.supersedes THEN [memory[i] EXCEPT !.superseded_by = id]
                         ELSE memory[i]]
  <1>1. /\ Len(memory) \in Nat /\ DOMAIN memory = 1..Len(memory)
        /\ \A i \in DOMAIN memory : memory[i] \in Versions
    BY Tables
  <1>2. id \in Ids /\ memory' = Append(rows, v)
    BY <1>1, StoreAssumption DEF Write, Ids
  <1>3. rows \in [1..Len(memory) -> Versions]
    BY <1>1, <1>2 DEF Versions
  <1>4. \A i \in DOMAIN memory :
           rows[i] = IF i = v.supersedes THEN [memory[i] EXCEPT !.superseded_by = id]
                     ELSE memory[i]
    OBVIOUS
  <1> HIDE DEF rows
  <1>5. rows \in Seq(Versions) /\ Len(rows) = Len(memory) /\ DOMAIN rows = DOMAIN memory
    BY <1>1, <1>3, RowsUpdated
  <1>6. /\ Append(rows, v) \in Seq(Versions)
        /\ Len(Append(rows, v)) = Len(rows) + 1
        /\ DOMAIN Append(rows, v) = 1..(Len(rows) + 1)
        /\ Append(rows, v)[Len(rows) + 1] = v
        /\ \A i \in DOMAIN rows : Append(rows, v)[i] = rows[i]
    BY <1>5, RowInserted
  <1>7. 1..(Len(memory) + 1) = (DOMAIN memory) \cup {Len(memory) + 1}
    BY <1>1
  <1>8. QED  BY <1>1, <1>2, <1>4, <1>5, <1>6, <1>7

\* What every change of the memories alone keeps: their place in the type, what depends
\* on what, and the dependencies that are looked at.
LEMMA TypedWrite ==
    ASSUME Typed, NEW v \in Versions, Write(v), v.superseded_by = None,
           v.supersedes \in DOMAIN memory \cup {None},
           UNCHANGED dependency, invalidation' \subseteq Invalidations,
           \A n \in invalidation' : n.dependency \in DOMAIN dependency,
           \A n \in Open' : n.trigger \in DOMAIN memory' /\ n.replacement \in DOMAIN memory',
           doing' \in [Clients -> Operations],
           \A c \in Clients : doing'[c].ids \subseteq DOMAIN memory
    PROVE  Typed'
  <1> TypeOK /\ DoingTyped /\ LinksTyped
    BY DEF Typed
  <1>1. /\ Len(memory) \in Nat /\ DOMAIN memory = 1..Len(memory)
        /\ \A i \in DOMAIN memory : memory[i] \in Versions
    BY Tables
  <1>2. /\ Len(memory') = Len(memory) + 1 /\ memory' \in Seq(Versions)
        /\ DOMAIN memory' = (DOMAIN memory) \cup {Len(memory) + 1}
        /\ memory'[Len(memory) + 1] = v
        /\ \A i \in DOMAIN memory :
              memory'[i] = IF i = v.supersedes
                           THEN [memory[i] EXCEPT !.superseded_by = Len(memory) + 1]
                           ELSE memory[i]
    BY Written
  <1>3. Len(memory') <= MaxMemories
    BY <1>1, <1>2, StoreAssumption DEF Write
  <1>4. \A i \in DOMAIN memory' :
           /\ memory'[i].supersedes < i
           /\ memory'[i].superseded_by \in {None} \cup (i + 1)..Len(memory')
    <2> SUFFICES ASSUME NEW i \in DOMAIN memory'
                 PROVE  /\ memory'[i].supersedes < i
                        /\ memory'[i].superseded_by \in {None} \cup (i + 1)..Len(memory')
      OBVIOUS
    <2>1. CASE i = Len(memory) + 1
      BY <2>1, <1>1, <1>2 DEF None
    <2>2. CASE i \in DOMAIN memory
      <3>1. memory[i] \in Versions /\ memory[i].supersedes < i
            /\ memory[i].superseded_by \in {None} \cup (i + 1)..Len(memory)
        BY <2>2, <1>1 DEF TypeOK
      <3>2. memory'[i].supersedes = memory[i].supersedes
            /\ memory'[i].superseded_by \in {memory[i].superseded_by, Len(memory) + 1}
        <4>1. memory'[i] \in {memory[i], [memory[i] EXCEPT !.superseded_by = Len(memory) + 1]}
          BY <2>2, <1>2
        <4>2. QED  BY <3>1, <4>1 DEF Versions
      <3>3. QED  BY <2>2, <3>1, <3>2, <1>1, <1>2
    <2>3. QED  BY <2>1, <2>2, <1>2
  <1>5. TypeOK'
    BY <1>2, <1>3, <1>4 DEF TypeOK
  <1>6. LinksTyped'
    BY <1>2 DEF LinksTyped, Active
  <1>7. DoingTyped'
    BY <1>2 DEF DoingTyped
  <1>8. QED  BY <1>5, <1>6, <1>7 DEF Typed

\* The invalidations that a change leaves open.
LEMMA Invalidating ==
    ASSUME NEW i, NEW by, Invalidate(i, by)
    PROVE  /\ invalidation \subseteq invalidation'
           /\ \A n \in invalidation' \ invalidation :
                 /\ n.dependency \in Impacted(i) /\ \A m \in Open : m.dependency # n.dependency
                 /\ n.trigger = i /\ n.replacement = by /\ n.status = "open"
                 /\ n = [dependency |-> n.dependency, trigger |-> i, replacement |-> by,
                         status |-> "open"]
           /\ \A d \in Impacted(i) : \E n \in invalidation' :
                 n.dependency = d /\ n.status = "open"
  <1> DEFINE fresh == {d \in Impacted(i) : \A n \in Open : n.dependency # d}
             new(d) == [dependency |-> d, trigger |-> i, replacement |-> by,
                        status |-> "open"]
  <1>1. invalidation' = invalidation \cup {new(d) : d \in fresh}
    BY DEF Invalidate
  <1>2. \A d : /\ new(d).dependency = d /\ new(d).trigger = i /\ new(d).replacement = by
               /\ new(d).status = "open"
    OBVIOUS
  <1>3. \A d \in Impacted(i) : \E n \in invalidation' :
           n.dependency = d /\ n.status = "open"
    <2> SUFFICES ASSUME NEW d \in Impacted(i)
                 PROVE  \E n \in invalidation' : n.dependency = d /\ n.status = "open"
      OBVIOUS
    <2>1. CASE d \in fresh
      BY <1>1, <1>2, <2>1
    <2>2. CASE d \notin fresh
      BY <1>1, <2>2 DEF Open
    <2>3. QED  BY <2>1, <2>2
  <1>4. QED  BY <1>1, <1>2, <1>3

\* A new version takes part in no link: links make no cycle with it.
LEMMA AcyclicWrite ==
    ASSUME Typed, LinksAcyclic, DOMAIN memory' = (DOMAIN memory) \cup {Len(memory) + 1},
           UNCHANGED dependency
    PROVE  LinksAcyclic'
  <1> DEFINE links == DependsOn({"explicit"})
  <1>1. links' = links
    BY DEF DependsOn, Active
  <1>2. \A p \in links : p[2] \in DOMAIN memory
    BY DEF DependsOn, Typed, LinksTyped
  <1> SUFFICES ASSUME NEW S \in (SUBSET (DOMAIN memory')) \ {{}}
               PROVE  \E i \in S : \A j \in S : <<j, i>> \notin links
    BY <1>1 DEF LinksAcyclic
  <1> HIDE DEF links
  <1>3. CASE S \subseteq DOMAIN memory
    BY <1>3 DEF LinksAcyclic, links
  <1>4. CASE Len(memory) + 1 \in S
    <2>1. Len(memory) + 1 \notin DOMAIN memory
      BY Tables DEF Typed
    <2>2. \A j \in S : <<j, Len(memory) + 1>> \notin links
      BY <1>2, <2>1
    <2>3. QED  BY <1>4, <2>2
  <1>5. QED  BY <1>3, <1>4

\* Versions keep their key, place, and what wrote them.
LEMMA WriteKeeps ==
    ASSUME TypeOK, NEW v \in Versions, Write(v)
    PROVE  \A i \in DOMAIN memory :
              /\ memory'[i].key = memory[i].key /\ memory'[i].place = memory[i].place
              /\ memory'[i].by = memory[i].by /\ memory'[i].forgotten = memory[i].forgotten
              /\ i # v.supersedes => memory'[i].superseded_by = memory[i].superseded_by
              /\ i = v.supersedes => memory'[i].superseded_by = Len(memory) + 1
              /\ i # Len(memory) + 1
  <1> SUFFICES ASSUME NEW i \in DOMAIN memory
               PROVE  /\ memory'[i].key = memory[i].key /\ memory'[i].place = memory[i].place
                      /\ memory'[i].by = memory[i].by
                      /\ memory'[i].forgotten = memory[i].forgotten
                      /\ i # v.supersedes =>
                            memory'[i].superseded_by = memory[i].superseded_by
                      /\ i = v.supersedes => memory'[i].superseded_by = Len(memory) + 1
                      /\ i # Len(memory) + 1
    OBVIOUS
  <1>1. memory[i] \in Versions /\ i # Len(memory) + 1
    BY Tables
  <1>2. memory'[i] = IF i = v.supersedes
                     THEN [memory[i] EXCEPT !.superseded_by = Len(memory) + 1]
                     ELSE memory[i]
    BY Written
  <1>3. CASE i = v.supersedes
    BY <1>1, <1>2, <1>3 DEF Versions
  <1>4. CASE i # v.supersedes
    BY <1>1, <1>2, <1>4
  <1>5. QED  BY <1>3, <1>4

\* A version is written that invalidates nothing: a first one, or one that moves
\* another to a new place.
LEMMA QuietWrite ==
    ASSUME Inv, NEW v \in Versions, Write(v), v.superseded_by = None, ~v.forgotten,
           v.supersedes \in DOMAIN memory \cup {None},
           v.supersedes # None => v.by = "rescope",
           UNCHANGED <<dependency, invalidation>>, doing' \in [Clients -> Operations],
           \A c \in Clients : doing'[c].ids \subseteq DOMAIN memory
    PROVE  Typed' /\ OneEach' /\ ForgottenUnlinked' /\ LinkedFollows' /\ LinksAcyclic'
  <1> Typed /\ TypeOK /\ LinksTyped
    BY DEF Inv, Typed
  <1>a. /\ DOMAIN memory' = (DOMAIN memory) \cup {Len(memory) + 1}
        /\ memory'[Len(memory) + 1] = v
    BY Written
  <1>k. Active' = Active /\ Open' = Open
    BY DEF Active, Open
  <1>1. Typed'
    BY <1>a, <1>k, TypedWrite DEF TypeOK, LinksTyped
  <1>2. OneEach'
    BY <1>k DEF Inv, OneEach
  <1>3. ForgottenUnlinked'
    <2>1. \A i \in DOMAIN memory : memory'[i].forgotten = memory[i].forgotten
      BY WriteKeeps
    <2>2. \A d \in Active : \A i \in {dependency[d].upstream, dependency[d].downstream}
                                       \cap Ids : i \in DOMAIN memory
      BY Tables DEF LinksTyped
    <2>3. QED  BY <2>1, <2>2, <1>k DEF Inv, ForgottenUnlinked, LinksTyped
  <1>4. LinkedFollows'
    <2> SUFFICES ASSUME NEW d \in Active, dependency[d].current, ~dependency[d].swept,
                        Replaced(dependency[d].upstream)'
                 PROVE  Invalidated(d)'
      BY <1>k DEF LinkedFollows
    <2> DEFINE u == dependency[d].upstream
    <2>1. u \in DOMAIN memory
      BY DEF LinksTyped
    <2>2. u # v.supersedes
      <3>1. CASE u = v.supersedes
        <4>1. u # None
          BY <2>1, Tables DEF None
        <4>2. memory'[u].superseded_by = Len(memory) + 1 /\ v.by = "rescope"
          BY <2>1, <3>1, <4>1, WriteKeeps
        <4>3. QED  BY <4>2, <1>a DEF Replaced
      <3>2. QED  BY <3>1
    <2>3. memory'[u].superseded_by = memory[u].superseded_by
      BY <2>1, <2>2, WriteKeeps
    <2>4. memory[u].superseded_by \in {None} \cup DOMAIN memory
      BY <2>1, Tables DEF TypeOK
    <2>5. Replaced(u)
      <3>1. memory[u].superseded_by # None
        BY <2>3 DEF Replaced
      <3>2. memory'[memory[u].superseded_by].by = memory[memory[u].superseded_by].by
        BY <2>4, <3>1, WriteKeeps
      <3>3. QED  BY <2>3, <3>1, <3>2 DEF Replaced
    <2>6. QED  BY <2>5, <1>k DEF Inv, LinkedFollows, Invalidated
  <1>5. LinksAcyclic'
    BY <1>a, AcyclicWrite DEF Inv
  <1>6. QED  BY <1>1, <1>2, <1>3, <1>4, <1>5

\* A version replaces another: what depends on it is invalidated.
LEMMA ChangingWrite ==
    ASSUME Inv, NEW i \in DOMAIN memory, NEW v \in Versions, Write(v),
           v.supersedes = i, v.superseded_by = None, ~v.forgotten,
           Invalidate(i, Len(memory) + 1),
           UNCHANGED dependency, doing' \in [Clients -> Operations],
           \A c \in Clients : doing'[c].ids \subseteq DOMAIN memory
    PROVE  Typed' /\ OneEach' /\ ForgottenUnlinked' /\ LinkedFollows' /\ LinksAcyclic'
  <1> Typed /\ TypeOK /\ LinksTyped /\ OneEach
    BY DEF Inv, Typed
  <1>a. /\ DOMAIN memory' = (DOMAIN memory) \cup {Len(memory) + 1}
        /\ memory'[Len(memory) + 1] = v
    BY Written
  <1>k. Active' = Active
    BY DEF Active
  <1>n. /\ invalidation \subseteq invalidation'
        /\ \A n \in invalidation' \ invalidation :
              /\ n.dependency \in Impacted(i) /\ \A m \in Open : m.dependency # n.dependency
              /\ n.trigger = i /\ n.replacement = Len(memory) + 1 /\ n.status = "open"
              /\ n = [dependency |-> n.dependency, trigger |-> i,
                      replacement |-> Len(memory) + 1, status |-> "open"]
        /\ \A d \in Impacted(i) : \E n \in invalidation' :
              n.dependency = d /\ n.status = "open"
    BY Invalidating
  <1>b. Impacted(i) \subseteq Active
    BY DEF Impacted
  <1>t. /\ Len(memory) \in Nat /\ DOMAIN memory = 1..Len(memory) /\ DOMAIN memory \subseteq Ids
        /\ Len(dependency) \in Nat /\ DOMAIN dependency = 1..Len(dependency)
        /\ Active \subseteq DOMAIN dependency
    BY Tables
  <1>1. Typed'
    <2>1. Len(memory) + 1 \in Ids /\ DOMAIN dependency \subseteq 1..MaxDependencies
      BY <1>t, StoreAssumption DEF Write, Ids, TypeOK
    <2>2. \A n \in invalidation' \ invalidation :
             n \in Invalidations /\ n.dependency \in DOMAIN dependency
      BY <1>n, <1>b, <1>t, <2>1 DEF Invalidations
    <2>3. invalidation' \subseteq Invalidations
          /\ \A n \in invalidation' : n.dependency \in DOMAIN dependency
      BY <2>2 DEF TypeOK
    <2>4. \A n \in Open' : n.trigger \in DOMAIN memory' /\ n.replacement \in DOMAIN memory'
      BY <1>n, <1>a DEF Open, LinksTyped
    <2>5. QED  BY <2>3, <2>4, TypedWrite
  <1>2. OneEach'
    <2> SUFFICES ASSUME NEW n \in invalidation'
                 PROVE  /\ n.status = "open" <=> n.dependency \in Active
                        /\ \A m \in invalidation' : m.dependency = n.dependency => m = n
      BY <1>k DEF OneEach
    <2>1. \A m \in invalidation' \ invalidation, k \in invalidation :
             k.dependency # m.dependency
      BY <1>n, <1>b DEF OneEach, Open
    <2>2. CASE n \in invalidation
      BY <2>1, <2>2 DEF OneEach
    <2>3. CASE n \notin invalidation
      BY <2>1, <2>3, <1>n, <1>b
    <2>4. QED  BY <2>2, <2>3
  <1>3. ForgottenUnlinked'
    <2>1. \A j \in DOMAIN memory : memory'[j].forgotten = memory[j].forgotten
      BY WriteKeeps
    <2>2. \A d \in Active : \A j \in {dependency[d].upstream, dependency[d].downstream}
                                       \cap Ids : j \in DOMAIN memory
      BY <1>t DEF LinksTyped
    <2>3. \A d \in Active : \A j \in {dependency[d].upstream, dependency[d].downstream}
                                       \cap Ids : ~memory'[j].forgotten
      BY <2>1, <2>2 DEF Inv, ForgottenUnlinked
    <2>4. \A n \in Open : ~memory'[n.trigger].forgotten /\ ~memory'[n.replacement].forgotten
      BY <2>1 DEF Inv, ForgottenUnlinked, LinksTyped
    <2>5. \A n \in invalidation' \ invalidation : ~memory[i].forgotten
      <3>1. memory[i].forgotten => \A d \in Active : dependency[d].upstream # i
        BY <1>t DEF Inv, ForgottenUnlinked
      <3>2. memory[i].forgotten => Impacted(i) = {}
        BY <3>1, ReachedAlone
      <3>3. QED  BY <3>2, <1>n
    <2>6. \A n \in Open' : ~memory'[n.trigger].forgotten /\ ~memory'[n.replacement].forgotten
      BY <2>1, <2>4, <2>5, <1>n, <1>a DEF Open
    <2>7. QED  BY <2>3, <2>6, <1>k DEF ForgottenUnlinked
  <1>4. LinkedFollows'
    <2> SUFFICES ASSUME NEW d \in Active, dependency[d].current, ~dependency[d].swept,
                        Replaced(dependency[d].upstream)'
                 PROVE  Invalidated(d)'
      BY <1>k DEF LinkedFollows
    <2> DEFINE u == dependency[d].upstream
    <2>1. u \in DOMAIN memory
      BY DEF LinksTyped
    <2>2. CASE u = i
      <3>1. d \in Impacted(i)
        BY <2>2, ReachedSelf DEF Impacted
      <3>2. QED  BY <3>1, <1>n DEF Invalidated, Open
    <2>3. CASE u # i
      <3>1. memory'[u].superseded_by = memory[u].superseded_by
        BY <2>1, <2>3, WriteKeeps
      <3>2. memory[u].superseded_by \in {None} \cup DOMAIN memory
        BY <2>1, Tables DEF TypeOK
      <3>3. memory[u].superseded_by # None
        BY <3>1 DEF Replaced
      <3>4. memory'[memory[u].superseded_by].by = memory[memory[u].superseded_by].by
        BY <3>2, <3>3, WriteKeeps
      <3>5. Replaced(u)
        BY <3>1, <3>3, <3>4 DEF Replaced
      <3>6. Invalidated(d)
        BY <3>5 DEF Inv, LinkedFollows
      <3>7. QED  BY <3>6, <1>n DEF Invalidated, Open
    <2>4. QED  BY <2>2, <2>3
  <1>5. LinksAcyclic'
    BY <1>a, AcyclicWrite DEF Inv
  <1>6. QED  BY <1>1, <1>2, <1>3, <1>4, <1>5

\* A new version of a key leaves one current version, if only set_current writes it: the
\* version it replaces was the one current, or there was none.
LEMMA OneCurrentWrite ==
    ASSUME Inv, NEW v \in Versions, Write(v),
           v.by = "set_current" =>
              \/ Named(v.key, v.place) = {}
              \/ v.supersedes \in Named(v.key, v.place),
           v.supersedes # None => v.supersedes \in DOMAIN memory
    PROVE  OneCurrent'
  <1> Typed /\ TypeOK /\ OneCurrent
    BY DEF Inv, Typed
  <1> DEFINE id == Len(memory) + 1
  <1>a. DOMAIN memory' = (DOMAIN memory) \cup {id} /\ memory'[id] = v
    BY Written
  <1>b. id # None
    BY Tables DEF None
  <1>k. \A i \in DOMAIN memory :
           /\ memory'[i].key = memory[i].key /\ memory'[i].place = memory[i].place
           /\ memory'[i].by = memory[i].by /\ memory'[i].forgotten = memory[i].forgotten
           /\ i # v.supersedes => memory'[i].superseded_by = memory[i].superseded_by
           /\ i = v.supersedes => memory'[i].superseded_by = id
    BY WriteKeeps
  <1> SUFFICES ASSUME NEW key \in Keys, NEW place \in Places,
                      \A i \in DOMAIN memory' :
                         memory'[i].key = key => memory'[i].by = "set_current",
                      NEW i \in Named(key, place)', NEW j \in Named(key, place)'
               PROVE  i = j
    BY DEF OneCurrent
  <1>1. \A m, n \in Named(key, place) : m = n
    BY <1>a, <1>k DEF OneCurrent
  <1>2. \A m \in Named(key, place)' :
           m # id => m \in Named(key, place) /\ m # v.supersedes
    BY <1>a, <1>b, <1>k DEF Named, Current
  <1>3. id \in Named(key, place)' =>
           v.key = key /\ v.place = place /\ v.by = "set_current"
    BY <1>a DEF Named
  <1>4. id \in Named(key, place)' => \A m \in Named(key, place)' : m = id
    BY <1>1, <1>2, <1>3
  <1>5. QED  BY <1>1, <1>2, <1>4

-----------------------------------------------------------------------------
(* What a change of the dependencies does.                                  *)

\* A row that is appended to a table of dependencies as long as this one.
LEMMA Depended ==
    ASSUME TypeOK, NEW rows \in Seq(Dependencies), Len(rows) = Len(dependency),
           NEW up \in DOMAIN memory, NEW to \in Ids \cup Artifacts,
           NEW provenance \in {"explicit", "repair"}, Depend(rows, up, to, provenance)
    PROVE  /\ dependency' \in Seq(Dependencies) /\ Len(dependency') <= MaxDependencies
           /\ DOMAIN dependency' = (DOMAIN dependency) \cup {Len(dependency) + 1}
           /\ dependency'[Len(dependency) + 1].upstream = up
           /\ dependency'[Len(dependency) + 1].downstream = to
           /\ dependency'[Len(dependency) + 1].provenance = provenance
           /\ dependency'[Len(dependency) + 1].state = "active"
           /\ dependency'[Len(dependency) + 1].current = Current(up)
           /\ \A d \in DOMAIN dependency : dependency'[d] = rows[d]
           /\ Len(dependency) + 1 \notin DOMAIN dependency
  <1> DEFINE row == [upstream |-> up, downstream |-> to, provenance |-> provenance,
                     state |-> "active", current |-> Current(up), swept |-> FALSE]
  <1>1. up \in Ids
    BY Tables
  <1>2. Current(up) \in BOOLEAN
    <2>1. memory[up] \in Versions
      BY Tables
    <2>2. QED  BY <2>1 DEF Current, Versions
  <1>3. row \in Dependencies
    BY <1>1, <1>2 DEF Dependencies
  <1>4. /\ row.upstream = up /\ row.downstream = to /\ row.provenance = provenance
        /\ row.state = "active" /\ row.current = Current(up)
    OBVIOUS
  <1>5. dependency' = Append(rows, row) /\ Len(dependency) < MaxDependencies
    BY DEF Depend
  <1> HIDE DEF row
  <1>6. Len(rows) \in Nat /\ DOMAIN rows = 1..Len(rows)
    BY RowsTyped
  <1>7. /\ dependency' \in Seq(Dependencies) /\ Len(dependency') = Len(dependency) + 1
        /\ DOMAIN dependency' = 1..(Len(dependency) + 1)
        /\ dependency'[Len(dependency) + 1] = row
        /\ \A d \in DOMAIN rows : dependency'[d] = rows[d]
    BY <1>3, <1>5, RowInserted
  <1>8. Len(dependency) \in Nat /\ DOMAIN dependency = 1..Len(dependency)
    BY Tables
  <1>9. /\ DOMAIN dependency' = (DOMAIN dependency) \cup {Len(dependency) + 1}
        /\ Len(dependency) + 1 \notin DOMAIN dependency /\ DOMAIN rows = DOMAIN dependency
    BY <1>6, <1>7, <1>8
  <1>10. Len(dependency') <= MaxDependencies
    BY <1>5, <1>7, <1>8, StoreAssumption
  <1>11. QED  BY <1>4, <1>7, <1>9, <1>10

\* Retiring a dependency leaves the others as they are.
LEMMA Retired ==
    ASSUME TypeOK, NEW d \in DOMAIN dependency
    PROVE  /\ Retire(d) \in Seq(Dependencies) /\ Len(Retire(d)) = Len(dependency)
           /\ DOMAIN Retire(d) = DOMAIN dependency
           /\ Retire(d)[d].state = "retired"
           /\ \A e \in DOMAIN dependency : e # d => Retire(d)[e] = dependency[e]
  <1> DEFINE row == [dependency[d] EXCEPT !.state = "retired"]
  <1>1. dependency[d] \in Dependencies
    BY Tables
  <1>2. row \in Dependencies /\ row.state = "retired"
    BY <1>1 DEF Dependencies
  <1>3. Retire(d) = [dependency EXCEPT ![d] = row] /\ dependency \in Seq(Dependencies)
    BY DEF Retire, TypeOK
  <1> HIDE DEF row
  <1>4. QED  BY <1>2, <1>3, RowUpdated

\* A link is made that nothing downstream leads back along.
LEMMA LinkStep ==
    ASSUME Inv, NEW up \in DOMAIN memory, NEW to \in DOMAIN memory \cup Artifacts, Link(up, to)
    PROVE  Inv'
  <1> Typed /\ TypeOK /\ DoingTyped /\ LinksTyped /\ OneEach
    BY DEF Inv, Typed
  <1> DEFINE id == Len(dependency) + 1
  <1>t. DOMAIN memory \subseteq Ids /\ Active \subseteq DOMAIN dependency
    BY Tables
  <1>a. Artifacts \cap Ids = {}
    BY StoreAssumption DEF Ids
  <1>d. /\ dependency' \in Seq(Dependencies) /\ Len(dependency') <= MaxDependencies
        /\ DOMAIN dependency' = (DOMAIN dependency) \cup {id}
        /\ dependency'[id].upstream = up /\ dependency'[id].downstream = to
        /\ dependency'[id].provenance = "explicit" /\ dependency'[id].state = "active"
        /\ dependency'[id].current = Current(up)
        /\ \A d \in DOMAIN dependency : dependency'[d] = dependency[d]
        /\ id \notin DOMAIN dependency
    BY <1>t, Depended DEF Link, TypeOK
  <1>u. UNCHANGED <<memory, invalidation, doing>> /\ Open' = Open
    BY DEF Link, Open
  <1>k. Active' = Active \cup {id}
    BY <1>d DEF Active
  <1>1. TypeOK'
    BY <1>d, <1>u DEF TypeOK
  <1>2. DoingTyped' /\ LinksTyped'
    BY <1>d, <1>k, <1>t, <1>a, <1>u DEF DoingTyped, LinksTyped
  <1>3. OneEach'
    BY <1>d, <1>k, <1>u DEF OneEach, TypeOK
  <1>4. ForgottenUnlinked'
    <2>1. ~memory[up].forgotten /\ (to \in Ids => ~memory[to].forgotten)
      BY DEF Link, Linkable
    <2>2. QED  BY <2>1, <1>d, <1>k, <1>t, <1>u DEF Inv, ForgottenUnlinked
  <1>5. LinkedFollows'
    <2>1. ~(Current(up) /\ Replaced(up))
      BY DEF Current, Replaced
    <2>2. QED
      BY <2>1, <1>d, <1>k, <1>t, <1>u DEF Inv, LinkedFollows, Replaced, Invalidated
  <1>6. OneCurrent'
    BY <1>u DEF Inv, OneCurrent, Named, Current
  <1>7. LinksAcyclic'
    <2> DEFINE links == DependsOn({"explicit"})
    <2>1. \A p \in links' : p \in links \/ (p = <<up, to>> /\ to \in Ids)
      BY <1>d, <1>k, <1>t DEF DependsOn
    <2>2. \A j, i : <<j, i>> \in links /\ j \in Reached(to) => i \in Reached(to)
      <3> SUFFICES ASSUME NEW j, NEW i, <<j, i>> \in links, j \in Reached(to)
                   PROVE  i \in Reached(to)
        OBVIOUS
      <3>1. PICK d \in Active : /\ dependency[d].upstream = j /\ dependency[d].downstream = i
                                /\ i \in Ids
        BY DEF DependsOn
      <3>2. QED  BY <3>1, ReachedOn
    <2>3. to \in Ids => up \notin Reached(to) /\ to \in Reached(to)
      BY <1>a, <1>t, ReachedSelf DEF Link, Linkable
    <2> SUFFICES ASSUME NEW S \in (SUBSET (DOMAIN memory)) \ {{}},
                        \A i \in S : \E j \in S : <<j, i>> \in links'
                 PROVE  FALSE
      BY <1>u DEF LinksAcyclic
    <2> HIDE DEF links
    <2>4. \A T \in (SUBSET (DOMAIN memory)) \ {{}} :
             \E i \in T : \A j \in T : <<j, i>> \notin links
      BY DEF Inv, LinksAcyclic, links
    <2>5. CASE to \notin Ids
      BY <2>1, <2>4, <2>5
    <2>6. CASE to \in Ids
      <3> DEFINE T == S \ Reached(to)
      <3>1. \A i \in T : \E j \in T : <<j, i>> \in links
        <4> SUFFICES ASSUME NEW i \in T PROVE \E j \in T : <<j, i>> \in links
          OBVIOUS
        <4>1. PICK j \in S : <<j, i>> \in links'
          OBVIOUS
        <4>2. i # to
          BY <2>3, <2>6
        <4>3. <<j, i>> \in links
          BY <4>1, <4>2, <2>1
        <4>4. j \notin Reached(to)
          BY <4>3, <2>2
        <4>5. QED  BY <4>3, <4>4
      <3>2. T = {}
        BY <3>1, <2>4
      <3>3. up \notin S
        BY <3>2, <2>3, <2>6
      <3>4. \A i \in S : \E j \in S : <<j, i>> \in links
        BY <3>3, <2>1
      <3>5. QED  BY <3>4, <2>4
    <2>7. QED  BY <2>5, <2>6
  <1>8. QED
    BY <1>1, <1>2, <1>3, <1>4, <1>5, <1>6, <1>7 DEF Inv, Typed

\* What closing an invalidation leaves open.
LEMMA Closed ==
    ASSUME TypeOK, OneEach, NEW n \in Open, NEW status \in {"repaired", "dismissed"},
           Close(n, status)
    PROVE  /\ Open' = Open \ {n}
           /\ invalidation' \subseteq Invalidations
           /\ \A k \in invalidation' :
                 \/ k \in invalidation /\ k # n
                 \/ k.dependency = n.dependency /\ k.status = status
           /\ \A k, m \in invalidation' : k.dependency = m.dependency => k = m
  <1> DEFINE closed == [n EXCEPT !.status = status]
  <1>1. n \in invalidation /\ n \in Invalidations /\ n.status = "open"
    BY DEF Open, TypeOK
  <1>2. closed \in Invalidations /\ closed.dependency = n.dependency
        /\ closed.status = status
    BY <1>1 DEF Invalidations
  <1>3. invalidation' = (invalidation \ {n}) \cup {closed}
    BY DEF Close
  <1> HIDE DEF closed
  <1>4. Open' = Open \ {n}
    BY <1>1, <1>2, <1>3 DEF Open
  <1>5. \A k \in invalidation \ {n} : k.dependency # n.dependency
    BY <1>1 DEF OneEach
  <1>6. \A k, m \in invalidation' : k.dependency = m.dependency => k = m
    BY <1>2, <1>3, <1>5 DEF OneEach
  <1>7. QED  BY <1>2, <1>3, <1>4, <1>6 DEF TypeOK

\* Dismissing an invalidation keeps the invariant (resolve).
LEMMA DismissStep ==
    ASSUME Inv, NEW n \in invalidation, Dismiss(n)
    PROVE  Inv'
  <1> Typed /\ TypeOK /\ DoingTyped /\ LinksTyped /\ OneEach
    BY DEF Inv, Typed
  <1> DEFINE e == n.dependency
  <1>n. n \in Open /\ e \in DOMAIN dependency /\ n.status = "open" /\ e \in Active
    BY DEF Dismiss, Open, TypeOK, OneEach
  <1>t. Active \subseteq DOMAIN dependency
    BY Tables
  <1>c. /\ Open' = Open \ {n} /\ invalidation' \subseteq Invalidations
        /\ \A k \in invalidation' :
              \/ k \in invalidation /\ k # n
              \/ k.dependency = e /\ k.status = "dismissed"
        /\ \A k, m \in invalidation' : k.dependency = m.dependency => k = m
    BY <1>n, Closed DEF Dismiss
  <1>d. /\ dependency' \in Seq(Dependencies) /\ Len(dependency') = Len(dependency)
        /\ DOMAIN dependency' = DOMAIN dependency /\ dependency'[e].state = "retired"
        /\ \A d \in DOMAIN dependency : d # e => dependency'[d] = dependency[d]
    BY <1>n, Retired DEF Dismiss
  <1>u. UNCHANGED <<memory, doing>>
    BY DEF Dismiss
  <1>k. Active' = Active \ {e}
    BY <1>d DEF Active
  <1>1. TypeOK'
    <2>1. \A k \in invalidation' : k.dependency \in DOMAIN dependency'
      BY <1>c, <1>d, <1>n DEF TypeOK
    <2>2. QED  BY <2>1, <1>c, <1>d, <1>u DEF TypeOK
  <1>2. DoingTyped' /\ LinksTyped'
    BY <1>c, <1>d, <1>k, <1>t, <1>u DEF DoingTyped, LinksTyped
  <1>3. OneEach'
    BY <1>c, <1>k, <1>n DEF OneEach
  <1>4. ForgottenUnlinked'
    BY <1>c, <1>d, <1>k, <1>t, <1>u DEF Inv, ForgottenUnlinked
  <1>5. LinkedFollows'
    BY <1>c, <1>d, <1>k, <1>t, <1>u DEF Inv, LinkedFollows, Replaced, Invalidated
  <1>6. OneCurrent'
    BY <1>u DEF Inv, OneCurrent, Named, Current
  <1>7. LinksAcyclic'
    <2>1. DependsOn({"explicit"})' \subseteq DependsOn({"explicit"})
      BY <1>d, <1>k, <1>t DEF DependsOn
    <2>2. QED  BY <2>1, <1>u DEF Inv, LinksAcyclic
  <1>8. QED
    BY <1>1, <1>2, <1>3, <1>4, <1>5, <1>6, <1>7 DEF Inv, Typed

\* A repair puts its own dependency in the place of the invalidated one.
LEMMA RepairStep ==
    ASSUME Inv, NEW n \in invalidation, NEW to \in DOMAIN memory \cup Artifacts, Repair(n, to)
    PROVE  Inv'
  <1> Typed /\ TypeOK /\ DoingTyped /\ LinksTyped /\ OneEach
    BY DEF Inv, Typed
  <1> DEFINE e == n.dependency
             id == Len(dependency) + 1
             up == n.replacement
  <1>n. n \in Open /\ e \in DOMAIN dependency /\ n.status = "open" /\ e \in Active
        /\ up \in DOMAIN memory
    BY DEF Repair, Open, TypeOK, OneEach, LinksTyped
  <1>t. Active \subseteq DOMAIN dependency /\ DOMAIN memory \subseteq Ids
    BY Tables
  <1>a. Artifacts \cap Ids = {}
    BY StoreAssumption DEF Ids
  <1>c. /\ Open' = Open \ {n} /\ invalidation' \subseteq Invalidations
        /\ \A k \in invalidation' :
              \/ k \in invalidation /\ k # n
              \/ k.dependency = e /\ k.status = "repaired"
        /\ \A k, m \in invalidation' : k.dependency = m.dependency => k = m
    BY <1>n, Closed DEF Repair
  <1>r. /\ Retire(e) \in Seq(Dependencies) /\ Len(Retire(e)) = Len(dependency)
        /\ Retire(e)[e].state = "retired"
        /\ \A d \in DOMAIN dependency : d # e => Retire(e)[d] = dependency[d]
    BY <1>n, Retired
  <1>d. /\ dependency' \in Seq(Dependencies) /\ Len(dependency') <= MaxDependencies
        /\ DOMAIN dependency' = (DOMAIN dependency) \cup {id}
        /\ dependency'[id].upstream = up /\ dependency'[id].downstream = to
        /\ dependency'[id].provenance = "repair" /\ dependency'[id].state = "active"
        /\ dependency'[id].current = Current(up)
        /\ \A d \in DOMAIN dependency : dependency'[d] = Retire(e)[d]
        /\ id \notin DOMAIN dependency
    <2>1. Depend(Retire(e), up, to, "repair") /\ to \in Ids \cup Artifacts
      BY <1>t DEF Repair
    <2> HIDE DEF up
    <2>2. QED  BY <2>1, <1>n, <1>r, Depended
  <1>o. /\ dependency'[e].state = "retired"
        /\ \A d \in DOMAIN dependency : d # e => dependency'[d] = dependency[d]
    BY <1>d, <1>n, <1>r
  <1>u. UNCHANGED <<memory, doing>>
    BY DEF Repair
  <1>k. Active' = (Active \ {e}) \cup {id}
    BY <1>d, <1>n, <1>o DEF Active
  <1>1. TypeOK'
    <2>1. \A k \in invalidation' : k.dependency \in DOMAIN dependency'
      BY <1>c, <1>d, <1>n DEF TypeOK
    <2>2. QED  BY <2>1, <1>c, <1>d, <1>u DEF TypeOK
  <1>2. DoingTyped' /\ LinksTyped'
    <2>1. \A d \in Active' : /\ dependency'[d].upstream \in DOMAIN memory
                             /\ dependency'[d].downstream \in Ids =>
                                   dependency'[d].downstream \in DOMAIN memory
      BY <1>a, <1>d, <1>k, <1>n, <1>o, <1>t DEF LinksTyped
    <2>2. QED  BY <2>1, <1>c, <1>u DEF DoingTyped, LinksTyped
  <1>3. OneEach'
    <2> SUFFICES ASSUME NEW k \in invalidation'
                 PROVE  k.status = "open" <=> k.dependency \in Active'
      BY <1>c DEF OneEach
    <2>1. CASE k \in invalidation /\ k # n
      <3>1. k.dependency # e /\ k.dependency # id
        BY <2>1, <1>d DEF OneEach, TypeOK
      <3>2. QED  BY <2>1, <3>1, <1>k DEF OneEach
    <2>2. CASE k.dependency = e /\ k.status = "repaired"
      BY <2>2, <1>d, <1>k, <1>n
    <2>3. QED  BY <2>1, <2>2, <1>c
  <1>4. ForgottenUnlinked'
    <2>1. ~memory[up].forgotten
      BY <1>n DEF Inv, ForgottenUnlinked
    <2>2. to \in Ids => ~memory[to].forgotten
      BY <1>a DEF Repair, Repairs, Current
    <2>3. QED
      BY <2>1, <2>2, <1>c, <1>d, <1>k, <1>o, <1>t, <1>u DEF Inv, ForgottenUnlinked
  <1>5. LinkedFollows'
    <2>1. ~(Current(up) /\ Replaced(up))
      BY DEF Current, Replaced
    <2> SUFFICES ASSUME NEW d \in Active', dependency'[d].current, ~dependency'[d].swept,
                        Replaced(dependency[d].upstream)'
                 PROVE  Invalidated(d)'
      BY DEF LinkedFollows
    <2>2. CASE d = id
      BY <2>1, <2>2, <1>d, <1>u DEF Replaced
    <2>3. CASE d # id
      <3>1. d \in Active /\ d # e /\ dependency'[d] = dependency[d]
        BY <2>3, <1>k, <1>o, <1>t
      <3>2. Replaced(dependency[d].upstream)
        BY <3>1, <1>u DEF Replaced
      <3>3. Invalidated(d)
        BY <3>1, <3>2 DEF Inv, LinkedFollows
      <3>4. QED  BY <3>1, <3>3, <1>c DEF Invalidated
    <2>4. QED  BY <2>2, <2>3
  <1>6. OneCurrent'
    BY <1>u DEF Inv, OneCurrent, Named, Current
  <1>7. LinksAcyclic'
    <2>1. DependsOn({"explicit"})' \subseteq DependsOn({"explicit"})
      BY <1>d, <1>k, <1>o, <1>t DEF DependsOn
    <2>2. QED  BY <2>1, <1>u DEF Inv, LinksAcyclic
  <1>8. QED
    BY <1>1, <1>2, <1>3, <1>4, <1>5, <1>6, <1>7 DEF Inv, Typed

-----------------------------------------------------------------------------
(* Every step preserves the invariant.                                      *)

\* A step that reads memories for a client changes nothing else.
LEMMA ReadStep ==
    ASSUME Inv, UNCHANGED <<memory, dependency, invalidation>>,
           doing' \in [Clients -> Operations],
           \A c \in Clients : doing'[c].ids \subseteq DOMAIN memory
    PROVE  Inv'
  <1>1. Active' = Active /\ Open' = Open
    BY DEF Active, Open
  <1>2. Typed'
    BY <1>1 DEF Inv, Typed, TypeOK, DoingTyped, LinksTyped
  <1>3. OneEach' /\ ForgottenUnlinked'
    BY <1>1 DEF Inv, OneEach, ForgottenUnlinked
  <1>4. LinkedFollows'
    BY <1>1 DEF Inv, LinkedFollows, Replaced, Invalidated
  <1>5. OneCurrent'
    BY DEF Inv, OneCurrent, Named, Current
  <1>6. LinksAcyclic'
    BY <1>1 DEF Inv, LinksAcyclic, DependsOn
  <1>7. QED  BY <1>2, <1>3, <1>4, <1>5, <1>6 DEF Inv

\* Forgetting takes the versions, and whatever names them.
LEMMA ForgetStep ==
    ASSUME Inv, NEW c \in Clients, FinishForget(c)
    PROVE  Inv'
  <1> Typed /\ TypeOK /\ DoingTyped /\ LinksTyped /\ OneEach
    BY DEF Inv, Typed
  <1> DEFINE ids == doing[c].ids
             gone == {n \in invalidation : \/ n.trigger \in ids \/ n.replacement \in ids
                                           \/ Names(n.dependency, ids)}
  <1>t. /\ Len(memory) \in Nat /\ DOMAIN memory = 1..Len(memory) /\ DOMAIN memory \subseteq Ids
        /\ Len(dependency) \in Nat /\ DOMAIN dependency = 1..Len(dependency)
        /\ \A i \in DOMAIN memory : memory[i] \in Versions
        /\ \A d \in DOMAIN dependency : dependency[d] \in Dependencies
        /\ Active \subseteq DOMAIN dependency
    BY Tables
  <1>i. ids \subseteq DOMAIN memory /\ Idle \in Operations /\ Idle.ids = {}
    BY DEF DoingTyped, Idle, Operations, Places
  <1>m. /\ memory' \in Seq(Versions) /\ Len(memory') = Len(memory)
        /\ DOMAIN memory' = DOMAIN memory
        /\ \A i \in DOMAIN memory :
              /\ memory'[i].key = memory[i].key /\ memory'[i].place = memory[i].place
              /\ memory'[i].by = memory[i].by
              /\ memory'[i].supersedes = memory[i].supersedes
              /\ memory'[i].superseded_by = memory[i].superseded_by
              /\ memory'[i].forgotten = (memory[i].forgotten \/ i \in ids)
    <2> DEFINE now(i) == memory[i].forgotten \/ i \in ids
    <2>1. memory' = [i \in DOMAIN memory |-> [memory[i] EXCEPT !.forgotten = now(i)]]
      BY DEF FinishForget
    <2>a. \A i \in DOMAIN memory : now(i) \in BOOLEAN
      OBVIOUS
    <2>b. \A i \in DOMAIN memory : now(i) = (memory[i].forgotten \/ i \in ids)
      OBVIOUS
    <2> HIDE DEF now
    <2>2. memory' \in [1..Len(memory) -> Versions]
      BY <2>1, <2>a, <1>t DEF Versions
    <2>3. memory' \in Seq(Versions) /\ Len(memory') = Len(memory)
          /\ DOMAIN memory' = DOMAIN memory
      BY <2>2, <1>t, RowsUpdated
    <2>4. \A i \in DOMAIN memory :
              /\ memory'[i].key = memory[i].key /\ memory'[i].place = memory[i].place
              /\ memory'[i].by = memory[i].by
              /\ memory'[i].supersedes = memory[i].supersedes
              /\ memory'[i].superseded_by = memory[i].superseded_by
              /\ memory'[i].forgotten = now(i)
      BY <2>1, <1>t DEF Versions
    <2>5. QED  BY <2>b, <2>3, <2>4
  <1>d. /\ dependency' \in Seq(Dependencies) /\ Len(dependency') = Len(dependency)
        /\ DOMAIN dependency' = DOMAIN dependency
        /\ \A d \in DOMAIN dependency :
              /\ dependency'[d].upstream = dependency[d].upstream
              /\ dependency'[d].downstream = dependency[d].downstream
              /\ dependency'[d].provenance = dependency[d].provenance
              /\ dependency'[d].current = dependency[d].current
              /\ dependency'[d].state = IF Names(d, ids) THEN "deleted"
                                        ELSE dependency[d].state
              /\ dependency'[d].swept =
                    (dependency[d].swept \/ \E n \in gone : n.dependency = d)
    <2> DEFINE swept(d) == dependency[d].swept \/ \E n \in gone : n.dependency = d
               next(d) == IF Names(d, ids) THEN "deleted" ELSE dependency[d].state
    <2>1. dependency' = [d \in DOMAIN dependency |->
                            [dependency[d] EXCEPT !.state = next(d), !.swept = swept(d)]]
      BY DEF FinishForget
    <2>a. \A d \in DOMAIN dependency :
             swept(d) = (dependency[d].swept \/ \E n \in gone : n.dependency = d)
      OBVIOUS
    <2>b. \A d \in DOMAIN dependency :
             next(d) = IF Names(d, ids) THEN "deleted" ELSE dependency[d].state
      OBVIOUS
    <2>c. \A d \in DOMAIN dependency : swept(d) \in BOOLEAN
      OBVIOUS
    <2>d. \A d \in DOMAIN dependency : next(d) \in {"active", "retired", "deleted"}
      BY <1>t DEF Dependencies
    <2> HIDE DEF swept, next, gone
    <2>2. dependency' \in [1..Len(dependency) -> Dependencies]
      BY <2>1, <2>c, <2>d, <1>t DEF Dependencies
    <2>3. dependency' \in Seq(Dependencies) /\ Len(dependency') = Len(dependency)
          /\ DOMAIN dependency' = DOMAIN dependency
      BY <2>2, <1>t, RowsUpdated
    <2>4. \A d \in DOMAIN dependency :
              /\ dependency'[d].upstream = dependency[d].upstream
              /\ dependency'[d].downstream = dependency[d].downstream
              /\ dependency'[d].provenance = dependency[d].provenance
              /\ dependency'[d].current = dependency[d].current
              /\ dependency'[d].state = next(d)
              /\ dependency'[d].swept = swept(d)
      BY <2>1, <1>t DEF Dependencies
    <2>5. QED  BY <2>3, <2>4, <2>a, <2>b
  <1>n. invalidation' = invalidation \ gone /\ Open' = Open \ gone
    BY DEF FinishForget, Open
  <1>u. doing' = [doing EXCEPT ![c] = Idle]
    BY DEF FinishForget
  <1>k. Active' = {d \in Active : ~Names(d, ids)}
    BY <1>d DEF Active
  <1>1. TypeOK'
    BY <1>m, <1>d, <1>n, <1>u, <1>i DEF TypeOK
  <1>2. DoingTyped' /\ LinksTyped'
    <2>1. DoingTyped'
      BY <1>m, <1>u, <1>i DEF DoingTyped, TypeOK
    <2>2. LinksTyped'
      BY <1>m, <1>d, <1>n, <1>k, <1>t DEF LinksTyped
    <2>3. QED  BY <2>1, <2>2
  <1>3. OneEach'
    <2>1. \A n \in invalidation' : n \in invalidation /\ ~Names(n.dependency, ids)
      BY <1>n
    <2>2. QED  BY <2>1, <1>k DEF OneEach
  <1>4. ForgottenUnlinked'
    <2>1. \A d \in Active' : \A i \in {dependency'[d].upstream, dependency'[d].downstream}
                                        \cap Ids : ~memory'[i].forgotten
      <3> SUFFICES ASSUME NEW d \in Active, ~Names(d, ids),
                          NEW i \in {dependency[d].upstream, dependency[d].downstream} \cap Ids
                   PROVE  ~memory'[i].forgotten
        BY <1>d, <1>k, <1>t
      <3>1. i \in DOMAIN memory
        BY <1>t DEF LinksTyped
      <3>2. i \notin ids /\ ~memory[i].forgotten
        BY DEF Names, Inv, ForgottenUnlinked
      <3>3. QED  BY <3>1, <3>2, <1>m
    <2>2. \A n \in Open' : ~memory'[n.trigger].forgotten /\ ~memory'[n.replacement].forgotten
      BY <1>m, <1>n DEF Inv, ForgottenUnlinked, LinksTyped, Open
    <2>3. QED  BY <2>1, <2>2 DEF ForgottenUnlinked
  <1>5. LinkedFollows'
    <2> SUFFICES ASSUME NEW d \in Active', dependency'[d].current, ~dependency'[d].swept,
                        Replaced(dependency[d].upstream)'
                 PROVE  Invalidated(d)'
      BY DEF LinkedFollows
    <2>1. d \in Active /\ dependency[d].current /\ ~dependency[d].swept
          /\ dependency'[d].upstream = dependency[d].upstream
          /\ \A n \in gone : n.dependency # d
      <3> HIDE DEF gone
      <3> QED  BY <1>d, <1>k, <1>t
    <2>2. dependency[d].upstream \in DOMAIN memory
      BY <2>1 DEF LinksTyped
    <2>3. memory[dependency[d].upstream].superseded_by \in {None} \cup DOMAIN memory
      BY <2>2, <1>t DEF TypeOK
    <2>4. Replaced(dependency[d].upstream)
      BY <2>1, <2>2, <2>3, <1>m DEF Replaced
    <2>5. Invalidated(d)
      BY <2>1, <2>4 DEF Inv, LinkedFollows
    <2>6. QED  BY <2>1, <2>5, <1>n DEF Invalidated
  <1>6. OneCurrent'
    <2>1. \A key, place : Named(key, place)' \subseteq Named(key, place)
      BY <1>m DEF Named, Current
    <2>2. QED  BY <2>1, <1>m DEF Inv, OneCurrent
  <1>7. LinksAcyclic'
    <2>1. DependsOn({"explicit"})' \subseteq DependsOn({"explicit"})
      BY <1>d, <1>k, <1>t DEF DependsOn
    <2>2. QED  BY <2>1, <1>m DEF Inv, LinksAcyclic
  <1>8. QED
    BY <1>1, <1>2, <1>3, <1>4, <1>5, <1>6, <1>7 DEF Inv, Typed

\* Every step keeps the invariant.
LEMMA InvStep ==
    ASSUME Inv, [Next]_vars
    PROVE  Inv'
  <1> Typed /\ TypeOK /\ DoingTyped /\ StoreAssumption
    BY StoreAssumption DEF Inv, Typed
  <1>i. Idle \in Operations /\ Idle.ids = {}
    BY DEF Idle, Operations, Places
  <1>t. DOMAIN memory \subseteq Ids /\ \A i \in DOMAIN memory : memory[i] \in Versions
    BY Tables
  <1>o. \A c \in Clients : doing[c] \in Operations
    BY DEF TypeOK
  <1>1. CASE \E place \in Places : Remember(place)
    <2> PICK place \in Places : Remember(place)  BY <1>1
    <2> DEFINE v == Version(NoKey, place, None, "remember")
    <2>1. /\ v \in Versions /\ v.supersedes = None /\ v.superseded_by = None
          /\ v.by = "remember" /\ v.forgotten = FALSE
      BY DEF Version, Versions
    <2>2. Write(v) /\ UNCHANGED <<dependency, invalidation, doing>>
      BY DEF Remember
    <2> HIDE DEF v
    <2>3. Typed' /\ OneEach' /\ ForgottenUnlinked' /\ LinkedFollows' /\ LinksAcyclic'
      BY <2>1, <2>2, QuietWrite DEF TypeOK, DoingTyped
    <2>4. OneCurrent'
      BY <2>1, <2>2, OneCurrentWrite
    <2>5. QED  BY <2>3, <2>4 DEF Inv
  <1>2. CASE \E place \in Places, key \in Keys : SetCurrent(key, place)
    <2> PICK place \in Places, key \in Keys : SetCurrent(key, place)  BY <1>2
    <2>1. CASE Named(key, place) = {} /\ Write(Version(key, place, None, "set_current"))
               /\ UNCHANGED invalidation
      <3> DEFINE v == Version(key, place, None, "set_current")
      <3>1. /\ v \in Versions /\ v.supersedes = None /\ v.superseded_by = None
            /\ v.forgotten = FALSE /\ v.key = key /\ v.place = place
        BY DEF Version, Versions
      <3>2. Write(v) /\ UNCHANGED <<dependency, invalidation, doing>>
            /\ Named(key, place) = {}
        BY <2>1 DEF SetCurrent
      <3> HIDE DEF v
      <3>3. Typed' /\ OneEach' /\ ForgottenUnlinked' /\ LinkedFollows' /\ LinksAcyclic'
        BY <3>1, <3>2, QuietWrite DEF TypeOK, DoingTyped
      <3>4. OneCurrent'
        BY <3>1, <3>2, OneCurrentWrite
      <3>5. QED  BY <3>3, <3>4 DEF Inv
    <2>2. CASE \E i \in Named(key, place) :
                  /\ Write(Version(key, place, i, "set_current"))
                  /\ Invalidate(i, Len(memory) + 1)
      <3> PICK i \in Named(key, place) :
                  /\ Write(Version(key, place, i, "set_current"))
                  /\ Invalidate(i, Len(memory) + 1)
        BY <2>2
      <3> DEFINE v == Version(key, place, i, "set_current")
      <3>0. i \in DOMAIN memory
        BY DEF Named
      <3>1. /\ v \in Versions /\ v.supersedes = i /\ v.superseded_by = None
            /\ v.forgotten = FALSE /\ v.key = key /\ v.place = place
        BY <3>0, <1>t DEF Version, Versions
      <3>2. Write(v) /\ UNCHANGED <<dependency, doing>>
        BY DEF SetCurrent
      <3> HIDE DEF v
      <3>3. Typed' /\ OneEach' /\ ForgottenUnlinked' /\ LinkedFollows' /\ LinksAcyclic'
        BY <3>0, <3>1, <3>2, ChangingWrite DEF TypeOK, DoingTyped
      <3>4. OneCurrent'
        BY <3>0, <3>1, <3>2, OneCurrentWrite
      <3>5. QED  BY <3>3, <3>4 DEF Inv
    <2>3. QED  BY <2>1, <2>2 DEF SetCurrent
  <1>3. CASE \E c \in Clients, i \in DOMAIN memory, op \in {"correct", "rescope"},
                place \in Places : BeginUpdate(c, op, i, place)
    <2> PICK c \in Clients, i \in DOMAIN memory, op \in {"correct", "rescope"},
             place \in Places : BeginUpdate(c, op, i, place)
      BY <1>3
    <2> DEFINE now == [op |-> op, ids |-> {i}, place |-> place]
    <2>1. now \in Operations /\ now.ids \subseteq DOMAIN memory
      BY <1>t DEF Operations
    <2>2. doing' = [doing EXCEPT ![c] = now]
      BY DEF BeginUpdate
    <2> HIDE DEF now
    <2>3. doing' \in [Clients -> Operations]
          /\ \A b \in Clients : doing'[b].ids \subseteq DOMAIN memory
      BY <2>1, <2>2 DEF TypeOK, DoingTyped
    <2>4. QED  BY <2>3, ReadStep DEF BeginUpdate
  <1>4. CASE \E c \in Clients : FinishCorrect(c)
    <2> PICK c \in Clients : FinishCorrect(c)  BY <1>4
    <2> PICK i \in doing[c].ids :
            /\ Write(Version(memory[i].key, doing[c].place, i, "correct"))
            /\ Invalidate(i, Len(memory) + 1)
            /\ doing' = [doing EXCEPT ![c] = Idle]
            /\ UNCHANGED dependency
      BY DEF FinishCorrect
    <2> DEFINE v == Version(memory[i].key, doing[c].place, i, "correct")
    <2>1. i \in DOMAIN memory /\ memory[i].key \in Keys \cup {NoKey}
          /\ doing[c].place \in Places
      BY <1>t, <1>o DEF DoingTyped, Versions, Operations
    <2>2. /\ v \in Versions /\ v.supersedes = i /\ v.superseded_by = None
          /\ v.forgotten = FALSE /\ v.by = "correct"
      BY <2>1, <1>t DEF Version, Versions
    <2>3. Write(v)
      OBVIOUS
    <2> HIDE DEF v
    <2>4. doing' \in [Clients -> Operations]
          /\ \A b \in Clients : doing'[b].ids \subseteq DOMAIN memory
      BY <1>i DEF TypeOK, DoingTyped
    <2>5. Typed' /\ OneEach' /\ ForgottenUnlinked' /\ LinkedFollows' /\ LinksAcyclic'
      BY <2>1, <2>2, <2>3, <2>4, ChangingWrite
    <2>6. OneCurrent'
      BY <2>1, <2>2, <2>3, OneCurrentWrite
    <2>7. QED  BY <2>5, <2>6 DEF Inv
  <1>5. CASE \E c \in Clients : FinishRescope(c)
    <2> PICK c \in Clients : FinishRescope(c)  BY <1>5
    <2> PICK i \in doing[c].ids :
            /\ Write(Version(memory[i].key, doing[c].place, i, "rescope"))
            /\ doing' = [doing EXCEPT ![c] = Idle]
            /\ UNCHANGED <<dependency, invalidation>>
      BY DEF FinishRescope
    <2> DEFINE v == Version(memory[i].key, doing[c].place, i, "rescope")
    <2>1. i \in DOMAIN memory /\ memory[i].key \in Keys \cup {NoKey}
          /\ doing[c].place \in Places
      BY <1>t, <1>o DEF DoingTyped, Versions, Operations
    <2>2. /\ v \in Versions /\ v.supersedes = i /\ v.superseded_by = None
          /\ v.forgotten = FALSE /\ v.by = "rescope"
      BY <2>1, <1>t DEF Version, Versions
    <2>3. Write(v)
      OBVIOUS
    <2> HIDE DEF v
    <2>4. doing' \in [Clients -> Operations]
          /\ \A b \in Clients : doing'[b].ids \subseteq DOMAIN memory
      BY <1>i DEF TypeOK, DoingTyped
    <2>5. Typed' /\ OneEach' /\ ForgottenUnlinked' /\ LinkedFollows' /\ LinksAcyclic'
      BY <2>1, <2>2, <2>3, <2>4, QuietWrite
    <2>6. OneCurrent'
      BY <2>1, <2>2, <2>3, OneCurrentWrite
    <2>7. QED  BY <2>5, <2>6 DEF Inv
  <1>6. CASE \E c \in Clients, i \in DOMAIN memory : BeginForget(c, i)
    <2> PICK c \in Clients, i \in DOMAIN memory : BeginForget(c, i)  BY <1>6
    <2> DEFINE now == [op |-> "forget", ids |-> Lineage(i), place |-> Global]
    <2>1. Lineage(i) \subseteq DOMAIN memory
      BY DEF Lineage
    <2>2. now \in Operations /\ now.ids \subseteq DOMAIN memory
      BY <2>1, <1>t DEF Operations, Places
    <2>3. doing' = [doing EXCEPT ![c] = now]
      BY DEF BeginForget
    <2> HIDE DEF now
    <2>4. doing' \in [Clients -> Operations]
          /\ \A b \in Clients : doing'[b].ids \subseteq DOMAIN memory
      BY <2>2, <2>3 DEF TypeOK, DoingTyped
    <2>5. QED  BY <2>4, ReadStep DEF BeginForget
  <1>7. CASE \E c \in Clients : FinishForget(c)
    BY <1>7, ForgetStep
  <1>8. CASE \E up \in DOMAIN memory, to \in DOMAIN memory \cup Artifacts : Link(up, to)
    BY <1>8, LinkStep
  <1>9. CASE \E n \in invalidation : Dismiss(n)
    BY <1>9, DismissStep
  <1>10. CASE \E n \in invalidation, to \in DOMAIN memory \cup Artifacts : Repair(n, to)
    BY <1>10, RepairStep
  <1>11. CASE UNCHANGED vars
    BY <1>11, ReadStep DEF vars, TypeOK, DoingTyped
  <1>12. QED
    BY <1>1, <1>2, <1>3, <1>4, <1>5, <1>6, <1>7, <1>8, <1>9, <1>10, <1>11, NextCases

\* The invariant holds in every reachable state.
LEMMA Invariance == Spec => []Inv
  BY InvInit, InvStep, PTL DEF Spec

-----------------------------------------------------------------------------
(* The theorems.                                                            *)

\* Every state of the store is of its type.
THEOREM TypeCorrect == Spec => []TypeOK
  <1>1. Inv => TypeOK
    BY DEF Inv, Typed
  <1>2. QED  BY <1>1, Invariance, PTL

\* A named state that only set_current writes has one current version, however many
\* clients write it (set_current in one transaction).
THEOREM OneCurrentVersion == Spec => []OneCurrent
  <1>1. Inv => OneCurrent
    BY DEF Inv
  <1>2. QED  BY <1>1, Invariance, PTL

\* What was built on a current version is open to repair once its content is replaced
\* (propagate_invalidation).
THEOREM DependentsFollow == Spec => []LinkedFollows
  <1>1. Inv => LinkedFollows
    BY DEF Inv
  <1>2. QED  BY <1>1, Invariance, PTL

\* An open invalidation is the only one of an active dependency.
THEOREM OpenIsRepairable == Spec => []OpenIsActive
  <1>1. Inv => OpenIsActive
    BY DEF Inv, OneEach, OpenIsActive, Open
  <1>2. QED  BY <1>1, Invariance, PTL

\* Nothing names a version that is forgotten, whatever ran while it was (forget).
THEOREM ForgottenForGood == Spec => []ForgottenUnlinked
  <1>1. Inv => ForgottenUnlinked
    BY DEF Inv
  <1>2. QED  BY <1>1, Invariance, PTL

\* Links make no cycle (link_many).
THEOREM NoCycle == Spec => []LinksAcyclic
  <1>1. Inv => LinksAcyclic
    BY DEF Inv
  <1>2. QED  BY <1>1, Invariance, PTL
=============================================================================
