-------------------------- MODULE DeviceSyncProofs --------------------------
(***************************************************************************)
(* What TLAPS proves of DeviceSync for any number of devices, memories,    *)
(* epochs and revisions: the type invariant, that nothing published is     *)
(* lost, by a lost reply, a crash or a removal, that a removed device gets *)
(* no later key, and what the merge makes of corrections and tombstones,   *)
(* be it overtaken by a local program or not.                              *)
(***************************************************************************)
EXTENDS DeviceSync, TableLemmas

USE DEF local

-----------------------------------------------------------------------------
(* The inductive invariant.                                                 *)

\* Only what is known is forgotten, only corrections are named, and what a known version
\* corrects is known.
Sound(p) ==
    /\ p.forgotten \subseteq p.known /\ p.named \subseteq Corrections(p)
    /\ \A m \in Corrections(p) : Corrects[m] \in p.known

\* No correction in p is in S without the version it corrects, and conversely.
Closed(S, p) == \A m \in Corrections(p) : m \in S <=> Corrects[m] \in S

\* Epochs count rotations; nobody is ahead of the server; who is approved has a grant.
EpochsMatch ==
    /\ Len(rotations) = epoch - 1
    /\ \A d \in Device : saved[d] # None => saved[d].epoch <= epoch
    /\ \A d \in Device : grant[d] # None => grant[d].epoch <= epoch
    /\ \A d \in Device : enrolment[d] = "approved" => grant[d] # None

LogSound ==
    /\ Len(log) <= MaxRevision
    /\ \A i \in 1..Len(log) : log[i].epoch = epoch /\ Sound(log[i].body)

\* A revision in a page is of a past epoch, or where the log has it.
Fetched(r) ==
    /\ r.epoch <= epoch /\ r.number <= MaxRevision /\ Sound(r.body)
    /\ r.epoch = epoch => r.number <= Len(log) /\ log[r.number] = r

\* A profile that a device has taken from its store: the device has all that is in it
\* still, and it has all that the chain has up to where the device is.
Taken(d, p) ==
    /\ Sound(p) /\ Within(p, store[d])
    /\ saved[d].epoch = epoch =>
          \A i \in 1..Len(log) : i <= saved[d].head => Within(log[i].body, p)

\* A draft is of the device, on top of its head, and was taken from its store.
Drafted(d, r) ==
    /\ r \in Revisions /\ r.by = d /\ Taken(d, r.body)
    /\ r.epoch = saved[d].epoch /\ r.number = saved[d].head + 1

\* A merge is about to write what it computed of a revision and of the store it read.
Writing(d, o) ==
    /\ o.page # <<>> /\ Applies(saved[d], Head(o.page)) /\ Taken(d, o.seen)
    /\ Mergeable(Merge(o.seen, Head(o.page).body))

\* What an operation of a device has in hand.
Doing(d, o) ==
    /\ o.upto <= epoch
    /\ o.at # "idle" => saved[d] # None
    /\ \A i \in 1..Len(o.page) : Fetched(o.page[i])
    /\ o.at = "push" => Drafted(d, o.draft)
    /\ o.at = "write" => Writing(d, o)

OperationsSound == \A d \in Device : Doing(d, op[d])

StoresSound == \A d \in Device : Sound(store[d])

\* What a local program has in hand is of the store; it is as good as when the program
\* read it unless a merge overtook the program.
Changing(d, c) ==
    /\ c.at = "correct" => \A m \in c.versions :
          /\ Corrects[m] \in store[d].known
          /\ d \notin raced => /\ Corrects[m] \notin store[d].forgotten
                               /\ \A n \in store[d].named : Corrects[n] # Corrects[m]
    /\ c.at = "forget" => /\ c.versions \subseteq store[d].known
                          /\ d \notin raced => Closed(c.versions, store[d])

ClientsSound == \A d \in Device : Changing(d, client[d])

\* A removed device was let in before its removal, and is never let in again.
RemovedForGood ==
    \A i \in 1..Len(rotations) :
        LET d == rotations[i].revoked
        IN  row[d] = "revoked" /\ (grant[d] # None => grant[d].epoch <= i)

Typed == TypeOK /\ EpochsMatch /\ LogSound /\ StoresSound

Inv ==
    /\ Typed
    /\ OperationsSound
    /\ ClientsSound
    /\ RemovedForGood
    /\ HeadCovered
    /\ LogGrows
    /\ RemovedStayBehind
    /\ WritersActive
    /\ ForgottenLineage
    /\ NoDivergence

\* Every step is one of the actions, of some device.
LEMMA NextCases ==
    ASSUME Next
    PROVE  \/ \E d \in Device, m \in Memory : Remember(d, m)
           \/ \E d \in Device, m \in Memory : BeginCorrect(d, m)
           \/ \E d \in Device, m \in Memory : BeginForget(d, m)
           \/ \E d \in Device : FinishCorrect(d)
           \/ \E d \in Device : FinishForget(d)
           \/ \E d \in Device : GiveUp(d)
           \/ \E d \in Device : Request(d)
           \/ \E d \in Device : EndEnrolment(d)
           \/ \E a, d \in Device : Approve(a, d)
           \/ \E d \in Device : Accept(d)
           \/ \E d \in Device : Start(d)
           \/ \E d \in Device : PullAgain(d)
           \/ \E d \in Device : ApplyRotation(d)
           \/ \E d \in Device : ApplyGrants(d)
           \/ \E d \in Device : Fetch(d)
           \/ \E d \in Device : ReadProfile(d)
           \/ \E d \in Device : MergeRevision(d)
           \/ \E d \in Device : PullDone(d)
           \/ \E d \in Device : Prepare(d)
           \/ \E d \in Device : Push(d)
           \/ \E d \in Device : PushStale(d)
           \/ \E d \in Device : Abort(d)
           \/ \E d, t \in Device : Remove(d, t)
  BY DEF Next

-----------------------------------------------------------------------------
(* Types.                                                                   *)

\* Sequences of the model have their entries at 1..Len(s).
LEMMA Sequences ==
    ASSUME TypeOK
    PROVE  /\ Len(log) \in Nat /\ DOMAIN log = 1..Len(log)
           /\ \A i \in 1..Len(log) : log[i] \in Revisions
           /\ Len(rotations) \in Nat /\ DOMAIN rotations = 1..Len(rotations)
           /\ \A i \in 1..Len(rotations) : rotations[i] \in Rotations
           /\ \A d \in Device : /\ op[d].page \in Seq(Revisions)
                                /\ Len(op[d].page) \in Nat
                                /\ \A i \in 1..Len(op[d].page) : op[d].page[i] \in Revisions
  <1>1. log \in Seq(Revisions) /\ rotations \in Seq(Rotations)
    BY DEF TypeOK
  <1>2. \A d \in Device : op[d].page \in Seq(Revisions)
    BY DEF TypeOK, Operations
  <1>3. QED  BY <1>1, <1>2, RowsTyped

\* The idle operation is one, with an empty page.
LEMMA IdleTyped ==
    Idle \in Operations /\ Idle.page = <<>> /\ Len(Idle.page) = 0 /\ Nothing \in Profiles
  <1>1. <<>> \in Seq(Revisions) /\ Len(<<>>) = 0
    BY EmptySeq
  <1>2. 1 \in Epochs
    BY SyncAssumption DEF Epochs
  <1>3. Nothing \in Profiles
    BY DEF Nothing, Profiles
  <1>4. QED  BY <1>1, <1>2, <1>3 DEF Idle, Operations

\* The page of a pull, and what remains of it, is made of revisions.
LEMMA PageTyped ==
    ASSUME TypeOK, NEW d \in Device, saved[d] \in States
    PROVE  LET page == SubSeq(log, saved[d].head + 1, Len(log))
           IN  /\ page \in Seq(Revisions)
               /\ \A i \in 1..Len(page) : \E j \in 1..Len(log) : page[i] = log[j]
  <1> DEFINE m == saved[d].head + 1
             page == SubSeq(log, m, Len(log))
  <1>1. m \in Int /\ m >= 1 /\ Len(log) \in Int /\ Len(log) \in Nat
    BY Sequences, SyncAssumption DEF States
  <1>2. \A i \in m..Len(log) : log[i] \in Revisions
    BY <1>1, Sequences
  <1>3. /\ page \in Seq(Revisions)
        /\ Len(page) = IF m <= Len(log) THEN Len(log) - m + 1 ELSE 0
        /\ \A i \in 1 .. Len(log) - m + 1 : page[i] = log[m + i - 1]
    BY <1>1, <1>2, SubSeqProperties
  <1>4. ASSUME NEW i \in 1..Len(page)
        PROVE  \E j \in 1..Len(log) : page[i] = log[j]
    <2>1. i \in 1 .. Len(log) - m + 1 /\ m + i - 1 \in 1..Len(log)
      BY <1>1, <1>3
    <2>2. QED  BY <1>3, <2>1
  <1>5. QED  BY <1>3, <1>4

\* The head of a page and what follows.
LEMMA PageParts ==
    ASSUME TypeOK, NEW d \in Device, op[d].page # <<>>
    PROVE  /\ Head(op[d].page) \in Revisions /\ Tail(op[d].page) \in Seq(Revisions)
           /\ 1 \in 1..Len(op[d].page) /\ Head(op[d].page) = op[d].page[1]
           /\ \A i \in 1..Len(Tail(op[d].page)) :
                 /\ i + 1 \in 1..Len(op[d].page)
                 /\ Tail(op[d].page)[i] = op[d].page[i + 1]
  <1> DEFINE page == op[d].page
  <1>1. page \in Seq(Revisions) /\ Len(page) \in Nat
    BY Sequences
  <1>2. /\ Head(page) \in Revisions /\ Tail(page) \in Seq(Revisions)
        /\ Len(Tail(page)) = Len(page) - 1
        /\ \A i \in 1..Len(Tail(page)) : Tail(page)[i] = page[i + 1]
    BY <1>1, HeadTailProperties
  <1>3. Len(page) # 0
    BY <1>1, EmptySeq
  <1>4. Head(page) = page[1]
    BY <1>1
  <1>5. QED  BY <1>1, <1>2, <1>3, <1>4

-----------------------------------------------------------------------------
(* What a merge makes of profiles.                                          *)

LEMMA WithinTransitive ==
    ASSUME NEW p, NEW q, NEW r, Within(p, q), Within(q, r)
    PROVE  Within(p, r)
  BY DEF Within

\* Merging sound profiles gives one that has all that they have, and no tombstone that
\* leaves out a version of its lineage.
LEMMA MergeSound ==
    ASSUME NEW p \in Profiles, NEW q \in Profiles, Sound(p), Sound(q)
    PROVE  LET M == Merge(p, q)
           IN  /\ M \in Profiles /\ Sound(M) /\ Within(p, M) /\ Within(q, M)
               /\ M.known = p.known \cup q.known /\ M.named = p.named \cup q.named
               /\ Closed(M.forgotten, M)
  <1> DEFINE K == p.known \cup q.known
             F == p.forgotten \cup q.forgotten
             L == UNION {Lineage(m, K) : m \in F}
             M == Merge(p, q)
  <1>1. /\ K \subseteq Memory /\ F \subseteq K /\ p.known \subseteq K /\ q.known \subseteq K
        /\ p.forgotten \subseteq F /\ q.forgotten \subseteq F
    BY DEF Profiles, Sound
  <1>2. M.known = K /\ M.forgotten = L /\ M.named = p.named \cup q.named
    BY DEF Merge
  <1>3. \A x : x \in L <=> x \in K /\ \E m \in F : Origin[x] = Origin[m]
    BY DEF Lineage
  <1>4. L \subseteq K /\ F \subseteq L
    BY <1>1, <1>3
  <1>5. M \in Profiles
    <2>1. p.named \cup q.named \subseteq Memory
      BY DEF Profiles
    <2>2. M = [known |-> K, forgotten |-> L, named |-> p.named \cup q.named]
      BY DEF Merge
    <2> HIDE DEF K, F, L, M
    <2>3. QED  BY <1>1, <1>4, <2>1, <2>2 DEF Profiles
  <1> HIDE DEF L, M
  <1>6. Corrections(M) = Corrections(p) \cup Corrections(q)
    BY <1>2 DEF Corrections
  <1>7. Sound(M)
    <2>1. M.named \subseteq Corrections(M)
      BY <1>2, <1>6 DEF Sound
    <2>2. \A m \in Corrections(M) : Corrects[m] \in M.known
      BY <1>2, <1>6 DEF Sound
    <2>3. QED  BY <1>2, <1>4, <2>1, <2>2 DEF Sound
  <1>8. Within(p, M) /\ Within(q, M)
    BY <1>1, <1>2, <1>4 DEF Within
  <1>9. ASSUME NEW m \in Corrections(M)
        PROVE  m \in M.forgotten <=> Corrects[m] \in M.forgotten
    <2>1. m \in K /\ Corrects[m] \in K /\ Corrects[m] # None
      BY <1>2, <1>7 DEF Sound, Corrections
    <2>2. Origin[m] = Origin[Corrects[m]]
      BY <1>1, <2>1, LineageAssumption
    <2>3. QED  BY <1>2, <1>3, <2>1, <2>2
  <1>10. QED  BY <1>2, <1>5, <1>7, <1>8, <1>9 DEF Closed, M

\* The rows a merge writes are among those it has computed, and include all that are
\* not as they were when it read them.
LEMMA RowsWritten ==
    ASSUME NEW s \in Profiles, NEW b \in Profiles, NEW M \in Profiles, Sound(M),
           s.known \subseteq M.known,
           NEW rows \in Written(s, M, b)
    PROVE  /\ rows \subseteq M.known /\ M.known \ s.known \subseteq rows
           /\ M.forgotten \ s.forgotten \subseteq rows
           /\ \A n \in M.named \ s.named : Corrects[n] \in rows
  <1> DEFINE missing == M.known \ s.known
             changed == {x \in s.known : \/ x \in M.forgotten \ s.forgotten
                                         \/ \E n \in M.named \ s.named : Corrects[n] = x}
             others  == s.known \cap (b.known \cup M.forgotten)
  <1>1. PICK more \in SUBSET others : rows = missing \cup changed \cup more
    BY DEF Written
  <1>2. rows \subseteq M.known /\ missing \subseteq rows /\ changed \subseteq rows
    BY <1>1
  <1>3. M.forgotten \ s.forgotten \subseteq rows
    BY <1>2 DEF Sound
  <1>4. ASSUME NEW n \in M.named \ s.named
        PROVE  Corrects[n] \in rows
    <2>1. Corrects[n] \in M.known
      BY DEF Sound
    <2>2. QED  BY <1>2, <2>1
  <1>5. QED  BY <1>2, <1>3, <1>4

\* Rows written over a store that has all that the merge read leave it sound, with all
\* that was computed and every version it had.
LEMMA OverwriteSound ==
    ASSUME NEW p \in Profiles, NEW s \in Profiles, NEW M \in Profiles,
           Sound(p), Sound(M), Within(s, p), s.known \subseteq M.known,
           NEW rows, rows \subseteq M.known, M.known \ s.known \subseteq rows,
           M.forgotten \ s.forgotten \subseteq rows
    PROVE  LET q == Overwrite(p, M, rows)
           IN  /\ q \in Profiles /\ Sound(q) /\ Within(M, q) /\ p.known \subseteq q.known
  <1> DEFINE q == Overwrite(p, M, rows)
             K == p.known \cup rows
             F == (p.forgotten \ rows) \cup (M.forgotten \cap rows)
             N == {n \in p.named : Corrects[n] \notin rows}
                    \cup {n \in M.named : Corrects[n] \in rows}
  <1>1. q = [known |-> K, forgotten |-> F, named |-> N]
    BY DEF Overwrite
  <1>2. q.known = K /\ q.forgotten = F /\ q.named = N
    BY <1>1
  <1>3. K \subseteq Memory /\ F \subseteq Memory /\ N \subseteq Memory
    BY DEF Profiles
  <1>4. q \in Profiles
    <2> HIDE DEF K, F, N, q
    <2>1. QED  BY <1>1, <1>3 DEF Profiles
  <1>5. M.known \subseteq K /\ p.known \subseteq K
    BY DEF Within
  <1>6. F \subseteq K
    BY DEF Sound
  <1>7. \A x \in K : x \in p.known \/ x \in M.known
    OBVIOUS
  <1>8. N \subseteq p.named \cup M.named
    OBVIOUS
  <1>9. M.forgotten \subseteq F
    BY DEF Within
  <1> HIDE DEF q, K, F, N
  <1>10. \A m \in Corrections(q) : m \in Corrections(p) \/ m \in Corrections(M)
    BY <1>2, <1>7 DEF Corrections
  <1>11. \A m \in Corrections(q) : Corrects[m] \in q.known
    BY <1>2, <1>5, <1>10 DEF Sound
  <1>12. q.named \subseteq Corrections(q)
    <2>1. \A m \in q.named : m \in Corrections(p) \/ m \in Corrections(M)
      BY <1>2, <1>8 DEF Sound
    <2>2. QED  BY <1>2, <1>5, <2>1 DEF Corrections
  <1>13. Sound(q)
    BY <1>2, <1>6, <1>11, <1>12 DEF Sound
  <1>14. Within(M, q)
    BY <1>2, <1>5, <1>9 DEF Within
  <1>15. QED  BY <1>2, <1>4, <1>5, <1>13, <1>14 DEF q

\* Written over what was read, they leave what was computed.
LEMMA OverwriteWhole ==
    ASSUME NEW s \in Profiles, NEW M \in Profiles, Within(s, M), s.named \subseteq M.named,
           NEW rows, rows \subseteq M.known, M.known \ s.known \subseteq rows,
           M.forgotten \ s.forgotten \subseteq rows,
           \A n \in M.named \ s.named : Corrects[n] \in rows
    PROVE  Overwrite(s, M, rows) = M
  <1> DEFINE K == s.known \cup rows
             F == (s.forgotten \ rows) \cup (M.forgotten \cap rows)
             N == {n \in s.named : Corrects[n] \notin rows}
                    \cup {n \in M.named : Corrects[n] \in rows}
  <1>1. K = M.known
    BY DEF Within
  <1>2. F = M.forgotten
    BY DEF Within
  <1>3. N = M.named
    OBVIOUS
  <1>4. M = [known |-> M.known, forgotten |-> M.forgotten, named |-> M.named]
    BY DEF Profiles
  <1>5. Overwrite(s, M, rows) = [known |-> K, forgotten |-> F, named |-> N]
    BY DEF Overwrite
  <1> HIDE DEF K, F, N
  <1>6. QED  BY <1>1, <1>2, <1>3, <1>4, <1>5

\* What a merge leaves in the store of its device: what it computed, and more if a local
\* program changed the store since it read it.
LEMMA MergeEffect ==
    ASSUME TypeOK, StoresSound, OperationsSound, NEW d \in Device, MergeRevision(d)
    PROVE  LET s == op[d].seen
               b == Head(op[d].page).body
               M == Merge(s, b)
           IN  \E p \in Profiles :
                  /\ store' = [store EXCEPT ![d] = p] /\ Sound(p)
                  /\ Within(s, p) /\ Within(b, p) /\ store[d].known \subseteq p.known
                  /\ d \notin raced' => /\ client[d] = AtRest /\ p = M
                                        /\ Mergeable(M) /\ Closed(M.forgotten, M)
  <1> DEFINE s == op[d].seen
             r == Head(op[d].page)
             b == r.body
             M == Merge(s, b)
  <1>1. op[d].at = "write" /\ MergeWrites(d)
    BY DEF MergeRevision, At
  <1>2. Doing(d, op[d]) /\ Writing(d, op[d])
    BY <1>1 DEF OperationsSound, Doing
  <1>3. Sound(s) /\ Within(s, store[d]) /\ Mergeable(M)
    BY <1>2 DEF Writing, Taken
  <1>4. r \in Revisions /\ r = op[d].page[1] /\ 1 \in 1..Len(op[d].page)
    BY <1>2, PageParts DEF Writing
  <1>5. b \in Profiles /\ Sound(b) /\ s \in Profiles /\ store[d] \in Profiles /\ Sound(store[d])
    BY <1>2, <1>4 DEF Revisions, Doing, Fetched, TypeOK, Operations, StoresSound
  <1>6. PICK rows \in Written(s, M, b) :
           store' = [store EXCEPT ![d] = Overwrite(store[d], M, rows)]
    BY <1>1 DEF MergeWrites
  <1> DEFINE p == Overwrite(store[d], M, rows)
  <1>7. /\ M \in Profiles /\ Sound(M) /\ Within(s, M) /\ Within(b, M)
        /\ s.named \subseteq M.named /\ Closed(M.forgotten, M) /\ s.known \subseteq M.known
    BY <1>3, <1>5, MergeSound
  <1> HIDE DEF M, s, b, r
  <1>8. /\ rows \subseteq M.known /\ M.known \ s.known \subseteq rows
        /\ M.forgotten \ s.forgotten \subseteq rows
        /\ \A n \in M.named \ s.named : Corrects[n] \in rows
    BY <1>5, <1>7, RowsWritten
  <1>9. p \in Profiles /\ Sound(p) /\ Within(M, p) /\ store[d].known \subseteq p.known
    BY <1>3, <1>5, <1>7, <1>8, OverwriteSound
  <1>10. Within(s, p) /\ Within(b, p)
    BY <1>7, <1>9, WithinTransitive
  <1>11. ASSUME d \notin raced'
         PROVE  client[d] = AtRest /\ p = M
    <2>1. ~Overlapped(d)
      BY <1>1, <1>11 DEF MergeWrites
    <2>2. store[d] = s /\ client[d] = AtRest
      BY <2>1 DEF Overlapped, s
    <2>3. QED  BY <1>5, <1>7, <1>8, <2>2, OverwriteWhole
  <1>12. QED  BY <1>3, <1>6, <1>7, <1>9, <1>10, <1>11 DEF M, s, b, r

-----------------------------------------------------------------------------
(* Which steps change what.                                                 *)

\* What a local program does touches the stores and nothing else.
LEMMA LocalSteps ==
    ASSUME NEW d \in Device,
           \/ \E m \in Memory : Remember(d, m) \/ BeginCorrect(d, m) \/ BeginForget(d, m)
           \/ FinishCorrect(d) \/ FinishForget(d) \/ GiveUp(d)
    PROVE  UNCHANGED <<server, saved, op, raced>>
  BY DEF Change, Reads, Remember, BeginCorrect, BeginForget, FinishCorrect, FinishForget, GiveUp

\* A merge changes one store and what its device knows of itself.
LEMMA MergeSteps ==
    ASSUME NEW d \in Device, MergeRevision(d)
    PROVE  /\ UNCHANGED <<server, client>> /\ MergeWrites(d) /\ op[d].at = "write"
           /\ \/ CursorMoves(d) /\ NextRevision(d)
              \/ Fail(d) /\ UNCHANGED saved
  BY DEF MergeRevision, MergeWrites, CursorMoves, At, server

\* The chain and its epoch change by a push and by a removal only.
LEMMA ChainSteps ==
    ASSUME [Next]_vars
    PROVE  \/ UNCHANGED <<epoch, log, rotations>>
           \/ \E d \in Device : Push(d)
           \/ \E d, t \in Device : Remove(d, t)
  <1>1. CASE Next
    BY <1>1, NextCases, LocalSteps, MergeSteps
       DEF Request, EndEnrolment, Approve, Accept,
           Start, PullAgain, ApplyRotation, ApplyGrants, Fetch, ReadProfile, PullDone, Prepare,
           PushStale, Abort, server
  <1>2. CASE UNCHANGED vars
    BY <1>2 DEF vars
  <1>3. QED  BY <1>1, <1>2

\* Who is registered changes by an approval and by a removal only.
LEMMA RegistrySteps ==
    ASSUME [Next]_vars
    PROVE  \/ UNCHANGED <<row, grant>>
           \/ \E a, d \in Device : Approve(a, d)
           \/ \E d, t \in Device : Remove(d, t)
  <1>1. CASE Next
    BY <1>1, NextCases, LocalSteps, MergeSteps
       DEF Request, EndEnrolment, Accept, Start,
           PullAgain, ApplyRotation, ApplyGrants, Fetch, ReadProfile, PullDone, Prepare,
           Push, PushStale, Abort, server
  <1>2. CASE UNCHANGED vars
    BY <1>2 DEF vars
  <1>3. QED  BY <1>1, <1>2

\* An enrolment changes at the hands of the user and of the device that ends it.
LEMMA EnrolmentSteps ==
    ASSUME [Next]_vars
    PROVE  \/ UNCHANGED enrolment
           \/ \E d \in Device : Request(d) \/ EndEnrolment(d) \/ Accept(d)
           \/ \E a, d \in Device : Approve(a, d)
  <1>1. CASE Next
    BY <1>1, NextCases, LocalSteps, MergeSteps
       DEF Start, PullAgain, ApplyRotation,
           ApplyGrants, Fetch, ReadProfile, PullDone, Prepare, Push, PushStale, Abort, Remove,
           server
  <1>2. CASE UNCHANGED vars
    BY <1>2 DEF vars
  <1>3. QED  BY <1>1, <1>2

\* A store changes by a local program and by a merge only.
LEMMA StoreSteps ==
    ASSUME [Next]_vars
    PROVE  \/ UNCHANGED local
           \/ \E d \in Device, m \in Memory : Remember(d, m)
           \/ \E d \in Device, m \in Memory : BeginCorrect(d, m)
           \/ \E d \in Device, m \in Memory : BeginForget(d, m)
           \/ \E d \in Device : FinishCorrect(d)
           \/ \E d \in Device : FinishForget(d)
           \/ \E d \in Device : GiveUp(d)
           \/ \E d \in Device : MergeRevision(d)
  <1>1. CASE Next
    BY <1>1, NextCases
       DEF Request, EndEnrolment, Approve, Accept, Start, PullAgain, ApplyRotation, ApplyGrants,
           Fetch, ReadProfile, PullDone, Prepare, Push, PushStale, Abort, Remove
  <1>2. CASE UNCHANGED vars
    BY <1>2 DEF vars
  <1>3. QED  BY <1>1, <1>2

\* The saved state of a device changes by these.
LEMMA SavedSteps ==
    ASSUME [Next]_vars
    PROVE  \/ UNCHANGED saved
           \/ \E a, d \in Device : Approve(a, d)
           \/ \E d \in Device : Accept(d)
           \/ \E d \in Device : ApplyRotation(d)
           \/ \E d \in Device : ApplyGrants(d)
           \/ \E d \in Device : MergeRevision(d)
           \/ \E d \in Device : Push(d)
           \/ \E d, t \in Device : Remove(d, t)
  <1>1. CASE Next
    BY <1>1, NextCases, LocalSteps
       DEF Request, EndEnrolment, Start, PullAgain,
           Fetch, ReadProfile, PullDone, Prepare, PushStale, Abort
  <1>2. CASE UNCHANGED vars
    BY <1>2 DEF vars
  <1>3. QED  BY <1>1, <1>2

\* An operation goes on by these.
LEMMA OperationSteps ==
    ASSUME [Next]_vars
    PROVE  \/ UNCHANGED op
           \/ \E d \in Device : Accept(d)
           \/ \E d \in Device : Start(d)
           \/ \E d \in Device : PullAgain(d)
           \/ \E d \in Device : ApplyRotation(d)
           \/ \E d \in Device : ApplyGrants(d)
           \/ \E d \in Device : Fetch(d)
           \/ \E d \in Device : ReadProfile(d)
           \/ \E d \in Device : MergeRevision(d)
           \/ \E d \in Device : PullDone(d)
           \/ \E d \in Device : Prepare(d)
           \/ \E d \in Device : Push(d)
           \/ \E d \in Device : PushStale(d)
           \/ \E d \in Device : Abort(d)
           \/ \E d, t \in Device : Remove(d, t)
  <1>1. CASE Next
    BY <1>1, NextCases, LocalSteps
       DEF Request, EndEnrolment, Approve
  <1>2. CASE UNCHANGED vars
    BY <1>2 DEF vars
  <1>3. QED  BY <1>1, <1>2

-----------------------------------------------------------------------------
(* Every step keeps the types.                                              *)

\* The chain stays one, of numbered revisions of its epoch.
LEMMA ChainTyped ==
    ASSUME Typed, OperationsSound, [Next]_vars
    PROVE  /\ epoch' \in Epochs
           /\ log' \in Seq(Revisions) /\ \A i \in 1..Len(log') : log'[i].number = i
           /\ rotations' \in Seq(Rotations) /\ Len(rotations') = epoch' - 1
           /\ LogSound'
  <1> USE SyncAssumption
  <1> TypeOK /\ EpochsMatch /\ LogSound
    BY DEF Typed
  <1>s. /\ log \in Seq(Revisions) /\ rotations \in Seq(Rotations)
        /\ Len(log) \in Nat /\ DOMAIN log = 1..Len(log)
        /\ Len(rotations) \in Nat /\ epoch \in Epochs
    BY Sequences DEF TypeOK
  <1>1. CASE UNCHANGED <<epoch, log, rotations>>
    BY <1>1 DEF TypeOK, EpochsMatch, LogSound, Sound, Corrections
  <1>2. CASE \E d \in Device : Push(d)
    <2> PICK d \in Device : Push(d)
      BY <1>2
    <2> DEFINE r == op[d].draft
    <2>1. r \in Revisions /\ Sound(r.body) /\ r.number = Len(log) + 1 /\ r.epoch = epoch
      BY DEF OperationsSound, Doing, Drafted, Taken, Push, At, Extends, Writable
    <2>2. /\ epoch' = epoch /\ rotations' = rotations /\ log' = Append(log, r)
          /\ Len(log) + 1 <= MaxRevision
      BY <1>s DEF Push, Extends
    <2>3. /\ log' \in Seq(Revisions) /\ Len(log') = Len(log) + 1
          /\ log'[Len(log) + 1] = r /\ \A i \in 1..Len(log) : log'[i] = log[i]
      BY <1>s, <2>1, <2>2, RowInserted
    <2>4. \A i \in 1..Len(log') : i \in 1..Len(log) \/ i = Len(log) + 1
      BY <1>s, <2>3
    <2>5. \A i \in 1..Len(log') : log'[i].number = i
      BY <2>1, <2>3, <2>4 DEF TypeOK
    <2>6. LogSound'
      <3>1. Len(log') <= MaxRevision
        BY <2>2, <2>3
      <3>2. \A i \in 1..Len(log') : log'[i].epoch = epoch' /\ Sound(log'[i].body)
        BY <2>1, <2>2, <2>3, <2>4 DEF LogSound
      <3>3. QED  BY <3>1, <3>2 DEF LogSound, Sound, Corrections
    <2>7. QED  BY <1>s, <2>2, <2>3, <2>5, <2>6 DEF EpochsMatch
  <1>3. CASE \E d, t \in Device : Remove(d, t)
    <2> PICK d \in Device, t \in Device : Remove(d, t)
      BY <1>3
    <2> DEFINE r == [revoked |-> t, initiator |-> d, active |-> Remaining(d, t)]
    <2>1. epoch' = epoch + 1 /\ epoch < MaxEpoch /\ log' = <<>>
      BY DEF Remove, Rotates
    <2>2. saved[d] \in States /\ rotations' = Append(rotations, r)
      BY DEF Remove, Pulled, At, OperationsSound, Doing, TypeOK
    <2>3. r \in Rotations
      BY <2>2 DEF Rotations, Remaining, Active, States
    <2>4. rotations' \in Seq(Rotations) /\ Len(rotations') = Len(rotations) + 1
      BY <1>s, <2>2, <2>3, RowInserted
    <2>5. log' \in Seq(Revisions) /\ Len(log') = 0
      BY <2>1, EmptySeq
    <2>6. epoch' \in Epochs /\ Len(rotations') = epoch' - 1
      BY <1>s, <2>1, <2>4 DEF EpochsMatch, Epochs
    <2>7. QED  BY <2>4, <2>5, <2>6 DEF LogSound
  <1>4. QED  BY <1>1, <1>2, <1>3, ChainSteps

\* The registry names devices, the grants are of past epochs.
LEMMA RegistryTyped ==
    ASSUME Typed, OperationsSound, [Next]_vars
    PROVE  /\ row' \in [Device -> {"absent", "active", "revoked"}]
           /\ grant' \in [Device -> Grants \cup {None}]
           /\ enrolment' \in [Device -> {"none", "waiting", "approved"}]
           /\ \A d \in Device : grant'[d] # None => grant'[d].epoch <= epoch'
           /\ \A d \in Device : enrolment'[d] = "approved" => grant'[d] # None
  <1> USE SyncAssumption, NoneAssumption
  <1> TypeOK /\ EpochsMatch
    BY DEF Typed
  <1>e. epoch \in Nat /\ epoch' \in Nat /\ epoch <= epoch'
    <2>1. epoch' = epoch \/ epoch' = epoch + 1
      BY ChainSteps DEF Push, Remove
    <2>2. QED  BY <2>1 DEF TypeOK, Epochs
  <1>g. \A d \in Device : grant[d] # None => grant[d] \in Grants /\ grant[d].epoch \in Nat
    BY DEF TypeOK, Grants, Epochs
  <1>a. ASSUME NEW a \in Device, NEW d \in Device, Approve(a, d)
        PROVE  GrantFor(a, d) \in Grants /\ GrantFor(a, d).epoch <= epoch
    <2>1. saved[a] \in States /\ saved[a].epoch <= epoch
      BY <1>a DEF Approve, TypeOK, EpochsMatch
    <2>2. QED  BY <2>1 DEF GrantFor, Grants, Active, States
  <1>1. /\ row' \in [Device -> {"absent", "active", "revoked"}]
        /\ grant' \in [Device -> Grants \cup {None}]
        /\ \A d \in Device : grant'[d] # None => grant'[d].epoch <= epoch'
        /\ \A d \in Device : grant[d] # None => grant'[d] # None
    <2>1. CASE UNCHANGED <<row, grant>>
      BY <1>e, <1>g, <2>1 DEF TypeOK, EpochsMatch
    <2>2. CASE \E a, d \in Device : Approve(a, d)
      <3> PICK a \in Device, d \in Device : Approve(a, d)
        BY <2>2
      <3>1. /\ row' = [row EXCEPT ![d] = "active"]
            /\ grant' = [grant EXCEPT ![d] = GrantFor(a, d)] /\ epoch' = epoch
        BY DEF Approve
      <3>2. GrantFor(a, d) \in Grants /\ GrantFor(a, d).epoch <= epoch /\ GrantFor(a, d) # None
        BY <1>a
      <3>3. QED  BY <3>1, <3>2 DEF TypeOK, EpochsMatch
    <2>3. CASE \E d, t \in Device : Remove(d, t)
      <3>1. /\ \E t \in Device : row' = [row EXCEPT ![t] = "revoked"]
            /\ grant' = grant
        BY <2>3 DEF Remove
      <3>2. QED  BY <1>e, <1>g, <3>1 DEF TypeOK, EpochsMatch
    <2>4. QED  BY <2>1, <2>2, <2>3, RegistrySteps
  <1>2. /\ enrolment' \in [Device -> {"none", "waiting", "approved"}]
        /\ \A d \in Device : enrolment'[d] = "approved" => grant'[d] # None
    <2>1. CASE UNCHANGED enrolment
      BY <1>1, <2>1 DEF TypeOK, EpochsMatch
    <2>2. CASE \E d \in Device : Request(d) \/ EndEnrolment(d) \/ Accept(d)
      <3> PICK d \in Device : Request(d) \/ EndEnrolment(d) \/ Accept(d)
        BY <2>2
      <3>1. PICK x \in {"none", "waiting"} : enrolment' = [enrolment EXCEPT ![d] = x]
        BY DEF Request, EndEnrolment, Accept
      <3>2. x # "approved" /\ x \in {"none", "waiting", "approved"}
        OBVIOUS
      <3>3. QED  BY <1>1, <3>1, <3>2 DEF TypeOK, EpochsMatch
    <2>3. CASE \E a, d \in Device : Approve(a, d)
      <3> PICK a \in Device, d \in Device : Approve(a, d)
        BY <2>3
      <3>1. /\ enrolment' = [enrolment EXCEPT ![d] = "approved"]
            /\ grant' = [grant EXCEPT ![d] = GrantFor(a, d)]
        BY DEF Approve
      <3>2. GrantFor(a, d) # None
        BY <1>a
      <3>3. QED  BY <3>1, <3>2 DEF TypeOK, EpochsMatch
    <2>4. QED  BY <2>1, <2>2, <2>3, EnrolmentSteps
  <1>3. QED  BY <1>1, <1>2

\* The user's changes and merges leave sound profiles.
\* A correction that is written names itself, alone, to the version it corrects.
LEMMA Corrected ==
    ASSUME NEW p \in Profiles, Sound(p), NEW m \in Memory, Corrects[m] \in p.known
    PROVE  LET q == [p EXCEPT !.known = @ \cup {m},
                              !.named = {n \in @ : Corrects[n] # Corrects[m]} \cup {m}]
           IN  /\ q \in Profiles /\ Sound(q) /\ Within(p, q)
               /\ q.forgotten = p.forgotten /\ Corrections(q) = Corrections(p) \cup {m}
               /\ q.named = {n \in p.named : Corrects[n] # Corrects[m]} \cup {m}
  <1> DEFINE K == p.known \cup {m}
             N == {n \in p.named : Corrects[n] # Corrects[m]} \cup {m}
             q == [p EXCEPT !.known = K, !.named = N]
  <1>1. K \subseteq Memory /\ N \subseteq Memory /\ p.named \subseteq p.known
    BY DEF Profiles, Sound, Corrections
  <1>2. Corrects[m] # None
    BY SyncAssumption DEF Profiles
  <1>3. N \subseteq p.named \cup {m} /\ p.known \subseteq K /\ m \in K
    OBVIOUS
  <1> HIDE DEF N
  <1>4. q \in Profiles /\ q.known = K /\ q.forgotten = p.forgotten /\ q.named = N
    BY <1>1 DEF Profiles
  <1> HIDE DEF q
  <1>5. Corrections(q) = Corrections(p) \cup {m}
    BY <1>2, <1>4 DEF Corrections
  <1>6. Sound(q)
    BY <1>3, <1>4, <1>5 DEF Sound
  <1>7. Within(p, q)
    BY <1>3, <1>4 DEF Within
  <1>8. QED  BY <1>4, <1>5, <1>6, <1>7 DEF q, N

\* A memory that corrects none is added.
LEMMA Remembered ==
    ASSUME NEW p \in Profiles, Sound(p), NEW m \in Memory, Corrects[m] = None
    PROVE  LET q == [p EXCEPT !.known = @ \cup {m}]
           IN  /\ q \in Profiles /\ Sound(q) /\ Within(p, q)
               /\ q.forgotten = p.forgotten /\ q.named = p.named
               /\ Corrections(q) = Corrections(p)
  <1> DEFINE q == [p EXCEPT !.known = @ \cup {m}]
  <1>1. /\ q \in Profiles /\ q.known = p.known \cup {m} /\ q.forgotten = p.forgotten
        /\ q.named = p.named
    BY DEF Profiles
  <1> HIDE DEF q
  <1>2. Corrections(q) = Corrections(p)
    BY <1>1 DEF Corrections
  <1>3. QED  BY <1>1, <1>2 DEF Sound, Within, q

\* Tombstones are put on versions there are.
LEMMA Forgotten ==
    ASSUME NEW p \in Profiles, Sound(p), NEW S, S \subseteq p.known
    PROVE  LET q == [p EXCEPT !.forgotten = @ \cup S]
           IN  /\ q \in Profiles /\ Sound(q) /\ Within(p, q)
               /\ q.forgotten = p.forgotten \cup S /\ q.named = p.named
               /\ Corrections(q) = Corrections(p)
  <1> DEFINE q == [p EXCEPT !.forgotten = @ \cup S]
  <1>1. /\ q \in Profiles /\ q.known = p.known /\ q.forgotten = p.forgotten \cup S
        /\ q.named = p.named
    BY DEF Profiles
  <1> HIDE DEF q
  <1>2. Corrections(q) = Corrections(p)
    BY <1>1 DEF Corrections
  <1>3. QED  BY <1>1, <1>2 DEF Sound, Within, q

\* Local changes and merges leave sound profiles; only a merge takes a tombstone away.
LEMMA StoresTyped ==
    ASSUME Typed, OperationsSound, ClientsSound, [Next]_vars
    PROVE  /\ store' \in [Device -> Profiles]
           /\ StoresSound'
           /\ \A d \in Device : MergeRevision(d) \/ Within(store[d], store'[d])
           /\ \A d \in Device : store[d].known \subseteq store'[d].known
  <1> USE SyncAssumption
  <1> TypeOK /\ StoresSound
    BY DEF Typed
  <1>t. \A d \in Device : store[d] \in Profiles /\ Sound(store[d]) /\ Within(store[d], store[d])
    BY DEF TypeOK, Within, StoresSound
  <1>u. ASSUME NEW d \in Device, NEW p \in Profiles, Sound(p), store[d].known \subseteq p.known,
               MergeRevision(d) \/ Within(store[d], p),
               store' = [store EXCEPT ![d] = p]
        PROVE  /\ store' \in [Device -> Profiles] /\ StoresSound'
               /\ \A x \in Device : MergeRevision(x) \/ Within(store[x], store'[x])
               /\ \A x \in Device : store[x].known \subseteq store'[x].known
    <2>1. \A x \in Device : store'[x] = IF x = d THEN p ELSE store[x]
      BY <1>u DEF TypeOK
    <2>2. store' \in [Device -> Profiles]
      BY <1>u, <1>t DEF TypeOK
    <2>3. \A x \in Device : Sound(store'[x])
      BY <1>u, <1>t, <2>1
    <2>4. \A x \in Device : MergeRevision(x) \/ Within(store[x], store'[x])
      BY <1>u, <1>t, <2>1
    <2>5. \A x \in Device : store[x].known \subseteq store'[x].known
      BY <1>u, <2>1
    <2>6. QED  BY <2>2, <2>3, <2>4, <2>5 DEF StoresSound, Sound, Corrections
  <1>v. ASSUME NEW d \in Device, NEW p \in Profiles, Sound(p), Within(store[d], p),
               store' = [store EXCEPT ![d] = p]
        PROVE  /\ store' \in [Device -> Profiles] /\ StoresSound'
               /\ \A x \in Device : MergeRevision(x) \/ Within(store[x], store'[x])
               /\ \A x \in Device : store[x].known \subseteq store'[x].known
    BY <1>u, <1>v DEF Within
  <1>0. CASE UNCHANGED store
    BY <1>0, <1>t DEF TypeOK, StoresSound, Sound, Corrections
  <1>1. ASSUME NEW d \in Device, NEW m \in Memory, Remember(d, m)
        PROVE  \E p \in Profiles : /\ Sound(p) /\ Within(store[d], p)
                                   /\ store' = [store EXCEPT ![d] = p]
    <2>1. /\ store' = [store EXCEPT ![d] = [store[d] EXCEPT !.known = @ \cup {m}]]
          /\ Corrects[m] = None
      BY <1>1 DEF Remember, Change
    <2>2. QED  BY <1>t, <2>1, Remembered
  <1>2. ASSUME NEW d \in Device, FinishCorrect(d)
        PROVE  \E p \in Profiles : /\ Sound(p) /\ Within(store[d], p)
                                   /\ store' = [store EXCEPT ![d] = p]
    <2>1. PICK m \in client[d].versions :
             store' = [store EXCEPT ![d] =
                         [store[d] EXCEPT !.known = @ \cup {m},
                                          !.named = {n \in @ : Corrects[n] # Corrects[m]} \cup {m}]]
      BY <1>2 DEF FinishCorrect, Change
    <2>2. m \in Memory /\ Corrects[m] \in store[d].known
      BY <1>2 DEF FinishCorrect, ClientsSound, Changing, TypeOK, Changes
    <2>3. QED  BY <1>t, <2>1, <2>2, Corrected
  <1>3. ASSUME NEW d \in Device, FinishForget(d)
        PROVE  \E p \in Profiles : /\ Sound(p) /\ Within(store[d], p)
                                   /\ store' = [store EXCEPT ![d] = p]
    <2> DEFINE S == client[d].versions
    <2>1. store' = [store EXCEPT ![d] = [store[d] EXCEPT !.forgotten = @ \cup S]]
      BY <1>3 DEF FinishForget, Change
    <2>2. S \subseteq store[d].known
      BY <1>3 DEF FinishForget, ClientsSound, Changing
    <2> HIDE DEF S
    <2>3. QED  BY <1>t, <2>1, <2>2, Forgotten
  <1>4. ASSUME NEW d \in Device, MergeRevision(d)
        PROVE  \E p \in Profiles : /\ Sound(p) /\ store[d].known \subseteq p.known
                                   /\ store' = [store EXCEPT ![d] = p]
    BY <1>4, MergeEffect
  <1>5. ASSUME NEW d \in Device,
               (\E m \in Memory : BeginCorrect(d, m) \/ BeginForget(d, m)) \/ GiveUp(d)
        PROVE  UNCHANGED store
    BY <1>5 DEF BeginCorrect, BeginForget, GiveUp, Reads
  <1>6. QED  BY <1>0, <1>u, <1>v, <1>1, <1>2, <1>3, <1>4, <1>5, StoreSteps

\* What local programs have in hand are changes.
LEMMA ClientsTyped ==
    ASSUME TypeOK, [Next]_vars
    PROVE  client' \in [Device -> Changes] /\ raced' \subseteq Device
  <1>1. raced' \subseteq Device
    BY StoreSteps, LocalSteps DEF MergeRevision, MergeWrites, TypeOK
  <1>t. AtRest \in Changes
    BY DEF AtRest, Changes
  <1>2. \/ UNCHANGED client
        \/ \E d \in Device, c \in Changes : client' = [client EXCEPT ![d] = c]
    <2>1. ASSUME NEW d \in Device, NEW m \in Memory, BeginCorrect(d, m)
          PROVE  \E c \in Changes : client' = [client EXCEPT ![d] = c]
      <3>1. [at |-> "correct", versions |-> {m}] \in Changes
        BY DEF Changes
      <3>2. QED  BY <2>1, <3>1 DEF BeginCorrect, Reads
    <2>2. ASSUME NEW d \in Device, NEW m \in Memory, BeginForget(d, m)
          PROVE  \E c \in Changes : client' = [client EXCEPT ![d] = c]
      <3> DEFINE S == Walk(m, store[d])
      <3>1. S \subseteq Memory
        BY DEF Walk, TypeOK, Profiles
      <3>2. client' = [client EXCEPT ![d] = [at |-> "forget", versions |-> S]]
        BY <2>2 DEF BeginForget, Reads
      <3> HIDE DEF S
      <3>3. [at |-> "forget", versions |-> S] \in Changes
        BY <3>1 DEF Changes
      <3>4. QED  BY <3>2, <3>3
    <2>3. ASSUME NEW d \in Device,
                 \/ \E m \in Memory : Remember(d, m)
                 \/ FinishCorrect(d) \/ FinishForget(d) \/ GiveUp(d)
          PROVE  client' = [client EXCEPT ![d] = AtRest]
      BY <2>3 DEF Remember, FinishCorrect, FinishForget, GiveUp, Change
    <2>4. QED  BY <1>t, <2>1, <2>2, <2>3, StoreSteps, MergeSteps
  <1>3. QED  BY <1>1, <1>2 DEF TypeOK

\* The state after a rotation, if there is an epoch for it.
LEMMA RotatedTyped ==
    ASSUME NEW s \in States, NEW d \in Device, s.epoch + 1 \in Epochs
    PROVE  /\ Rotated(s, d) \in States
           /\ Rotated(s, d).epoch = s.epoch + 1 /\ Rotated(s, d).head = 0
  <1>1. s.revoked \cup {d} \subseteq Device
    BY DEF States
  <1>2. 0 \in 0..MaxRevision
    BY SyncAssumption
  <1> DEFINE gone == s.revoked \cup {d}
             next == s.epoch + 1
  <1>3. Rotated(s, d) = [s EXCEPT !.epoch = next, !.head = 0, !.revoked = gone]
    BY DEF Rotated
  <1>4. next \in Epochs /\ gone \subseteq Device
    BY <1>1
  <1> HIDE DEF gone, next
  <1>5. QED  BY <1>2, <1>3, <1>4 DEF States, next

\* What a device saves is a state, of an epoch there is.
LEMMA SavedTyped ==
    ASSUME Typed, OperationsSound, [Next]_vars
    PROVE  /\ saved' \in [Device -> States \cup {None}]
           /\ \A d \in Device : saved'[d] # None => saved'[d].epoch <= epoch'
           /\ \A d \in Device : saved[d] # None => saved'[d] # None
  <1> USE SyncAssumption, NoneAssumption
  <1> TypeOK /\ EpochsMatch
    BY DEF Typed
  <1>e. epoch \in Nat /\ epoch' \in Nat /\ epoch <= epoch' /\ epoch' \in Epochs
    <2>1. epoch' = epoch \/ epoch' = epoch + 1
      BY ChainSteps DEF Push, Remove
    <2>2. QED  BY <2>1, ChainTyped DEF TypeOK, Epochs
  <1>t. \A d \in Device : saved[d] # None => saved[d] \in States /\ saved[d].epoch \in Nat
    BY DEF TypeOK, States, Epochs
  <1>u. ASSUME NEW d \in Device, NEW s \in States, s.epoch <= epoch',
               saved' = [saved EXCEPT ![d] = s]
        PROVE  /\ saved' \in [Device -> States \cup {None}]
               /\ \A x \in Device : saved'[x] # None => saved'[x].epoch <= epoch'
               /\ \A x \in Device : saved[x] # None => saved'[x] # None
    <2>1. \A x \in Device : saved'[x] = IF x = d THEN s ELSE saved[x]
      BY <1>u DEF TypeOK
    <2>2. s # None
      OBVIOUS
    <2>3. QED  BY <1>u, <1>e, <1>t, <2>1, <2>2 DEF TypeOK, EpochsMatch
  <1>0. CASE UNCHANGED saved
    BY <1>0, <1>e, <1>t DEF TypeOK, EpochsMatch
  <1>1. ASSUME NEW a \in Device, NEW d \in Device, Approve(a, d)
        PROVE  saved' = saved \/ \E s \in States :
                  s.epoch <= epoch' /\ saved' = [saved EXCEPT ![a] = s]
    <2> DEFINE s == [saved[a] EXCEPT !.trusted = saved[a].trusted \cup {d}]
    <2>1. saved[a] \in States
      BY <1>1, <1>t DEF Approve
    <2>2. s \in States /\ s.epoch = saved[a].epoch
      BY <2>1 DEF States
    <2>3. s.epoch <= epoch'
      BY <1>1, <1>e, <1>t, <2>2 DEF Approve, EpochsMatch
    <2>4. saved' = saved \/ saved' = [saved EXCEPT ![a] = s]
      BY <1>1 DEF Approve
    <2>5. QED  BY <2>2, <2>3, <2>4
  <1>2. ASSUME NEW d \in Device, Accept(d)
        PROVE  \E s \in States : s.epoch <= epoch' /\ saved' = [saved EXCEPT ![d] = s]
    <2> DEFINE s == [epoch |-> grant[d].epoch, trusted |-> grant[d].registry,
                     revoked |-> {}, head |-> 0]
    <2>1. grant[d] \in Grants /\ grant[d].epoch <= epoch
      BY <1>2 DEF Accept, TypeOK, EpochsMatch
    <2>2. s \in States
      BY <2>1 DEF States, Grants
    <2>3. saved' = [saved EXCEPT ![d] = s] /\ epoch' = epoch
      BY <1>2 DEF Accept
    <2>4. QED  BY <2>1, <2>2, <2>3
  <1>3. ASSUME NEW d \in Device, ApplyRotation(d)
        PROVE  saved' = saved \/ \E s \in States :
                  s.epoch <= epoch' /\ saved' = [saved EXCEPT ![d] = s]
    <2> DEFINE r == rotations[saved[d].epoch]
               s == Rotated(saved[d], r.revoked)
    <2>1. /\ saved[d] \in States /\ saved[d].epoch < op[d].upto /\ op[d].upto <= epoch
          /\ op[d].upto \in Nat
      BY <1>3, <1>t DEF ApplyRotation, At, OperationsSound, Doing, TypeOK, Operations, Epochs
    <2>2. saved[d].epoch \in 1..Len(rotations)
      BY <2>1, <1>t, Sequences DEF EpochsMatch, TypeOK, Epochs, States
    <2>3. r.revoked \in Device
      BY <2>2, Sequences DEF Rotations
    <2>4. s \in States /\ s.epoch = saved[d].epoch + 1
      <3>1. saved[d].epoch + 1 \in Epochs
        BY <2>1, <1>e DEF States, Epochs, TypeOK
      <3>2. QED  BY <2>1, <2>3, <3>1, RotatedTyped
    <2>5. saved' = saved \/ saved' = [saved EXCEPT ![d] = s]
      BY <1>3 DEF ApplyRotation
    <2>6. s.epoch <= epoch'
      BY <2>1, <2>4, <1>e, <1>t
    <2>7. QED  BY <2>4, <2>5, <2>6
  <1>4. ASSUME NEW d \in Device, ApplyGrants(d)
        PROVE  saved' = saved \/ \E s \in States :
                  s.epoch <= epoch' /\ saved' = [saved EXCEPT ![d] = s]
    <2> DEFINE s == [saved[d] EXCEPT !.trusted = Reach(saved[d].trusted)]
    <2>1. saved[d] \in States /\ saved[d].epoch <= epoch /\ epoch' = epoch
      BY <1>4, <1>t DEF ApplyGrants, At, OperationsSound, Doing, EpochsMatch, server
    <2>2. Reach(saved[d].trusted) \subseteq Device
      BY DEF Reach
    <2>3. s \in States /\ s.epoch = saved[d].epoch
      BY <2>1, <2>2 DEF States
    <2>4. saved' = saved \/ saved' = [saved EXCEPT ![d] = s]
      BY <1>4 DEF ApplyGrants
    <2>5. QED  BY <2>1, <2>3, <2>4
  <1>5. ASSUME NEW d \in Device, MergeRevision(d)
        PROVE  saved' = saved \/ \E s \in States :
                  s.epoch <= epoch' /\ saved' = [saved EXCEPT ![d] = s]
    <2> DEFINE r == Head(op[d].page)
               s == [saved[d] EXCEPT !.head = r.number]
    <2>1. op[d].at = "write" /\ epoch' = epoch
      BY <1>5, MergeSteps DEF server
    <2>2. saved[d] \in States /\ saved[d].epoch <= epoch
      BY <2>1, <1>t DEF OperationsSound, Doing, EpochsMatch
    <2>3. r \in Revisions /\ r = op[d].page[1] /\ 1 \in 1..Len(op[d].page)
      BY <2>1, PageParts DEF OperationsSound, Doing, Writing
    <2>4. r.number \in 0..MaxRevision
      BY <2>3 DEF OperationsSound, Doing, Fetched, Revisions
    <2>5. s \in States /\ s.epoch = saved[d].epoch
      BY <2>2, <2>4 DEF States
    <2>6. saved' = saved \/ saved' = [saved EXCEPT ![d] = s]
      BY <1>5, MergeSteps DEF CursorMoves
    <2>7. QED  BY <2>1, <2>2, <2>5, <2>6
  <1>6. ASSUME NEW d \in Device, Push(d)
        PROVE  saved' = saved \/ \E s \in States :
                  s.epoch <= epoch' /\ saved' = [saved EXCEPT ![d] = s]
    <2> DEFINE s == [saved[d] EXCEPT !.head = op[d].draft.number]
    <2>1. saved[d] \in States /\ saved[d].epoch <= epoch /\ epoch' = epoch
      BY <1>6, <1>t DEF Push, At, OperationsSound, Doing, EpochsMatch
    <2>2. op[d].draft.number \in 0..MaxRevision
      BY <1>6, Sequences DEF Push, Extends
    <2>3. s \in States /\ s.epoch = saved[d].epoch
      BY <2>1, <2>2 DEF States
    <2>4. saved' = saved \/ saved' = [saved EXCEPT ![d] = s]
      BY <1>6 DEF Push
    <2>5. QED  BY <2>1, <2>3, <2>4
  <1>7. ASSUME NEW d \in Device, NEW t \in Device, Remove(d, t)
        PROVE  saved' = saved \/ \E s \in States :
                  s.epoch <= epoch' /\ saved' = [saved EXCEPT ![d] = s]
    <2> DEFINE s == Rotated(saved[d], t)
    <2>1. saved[d] \in States /\ saved[d].epoch = epoch /\ epoch' = epoch + 1
      BY <1>7, <1>t DEF Remove, Pulled, At, Rotates, OperationsSound, Doing
    <2>2. s \in States /\ s.epoch = epoch + 1
      BY <2>1, <1>e, RotatedTyped
    <2>3. saved' = saved \/ saved' = [saved EXCEPT ![d] = s]
      BY <1>7 DEF Remove
    <2>4. QED  BY <2>1, <2>2, <2>3
  <1>8. \/ UNCHANGED saved
        \/ \E d \in Device, s \in States : s.epoch <= epoch' /\ saved' = [saved EXCEPT ![d] = s]
    BY <1>1, <1>2, <1>3, <1>4, <1>5, <1>6, <1>7, SavedSteps
  <1>9. QED  BY <1>0, <1>8, <1>u

-----------------------------------------------------------------------------
(* What an operation has in hand stays good while others go on.             *)

\* The invariant of the operations, taken apart.
LEMMA Operating ==
    ASSUME Inv, NEW d \in Device
    PROVE  /\ op[d] \in Operations /\ op[d].upto <= epoch
           /\ op[d].at # "idle" => saved[d] # None /\ saved[d] \in States
           /\ \A i \in 1..Len(op[d].page) : op[d].page[i] \in Revisions /\ Fetched(op[d].page[i])
           /\ op[d].at = "push" => Drafted(d, op[d].draft)
           /\ op[d].at = "write" => Writing(d, op[d])
  <1>1. Typed /\ TypeOK /\ Doing(d, op[d])
    BY DEF Inv, Typed, OperationsSound
  <1>2. QED  BY <1>1, Sequences DEF Doing, TypeOK

\* A revision that was fetched is where it was, or of the past.
LEMMA FetchedKept ==
    ASSUME Inv, [Next]_vars, NEW r \in Revisions, Fetched(r)
    PROVE  Fetched(r)'
  <1> Typed /\ OperationsSound /\ TypeOK
    BY DEF Inv, Typed
  <1>s. /\ log \in Seq(Revisions) /\ Len(log) \in Nat /\ epoch \in Nat
        /\ r.epoch \in Nat /\ r.number \in Nat /\ r.number >= 1
    BY Sequences, SyncAssumption DEF TypeOK, Epochs, Revisions
  <1>1. CASE UNCHANGED <<epoch, log, rotations>>
    BY <1>1 DEF Fetched, Sound, Corrections
  <1>2. CASE \E d \in Device : Push(d)
    <2> PICK d \in Device : Push(d)
      BY <1>2
    <2>1. op[d].draft \in Revisions
      BY DEF OperationsSound, Doing, Drafted, Push, At
    <2>2. epoch' = epoch /\ log' = Append(log, op[d].draft)
      BY DEF Push
    <2>3. Len(log') = Len(log) + 1 /\ \A i \in 1..Len(log) : log'[i] = log[i]
      BY <1>s, <2>1, <2>2, RowInserted
    <2>4. QED  BY <1>s, <2>2, <2>3 DEF Fetched, Sound, Corrections
  <1>3. CASE \E d, t \in Device : Remove(d, t)
    <2>1. epoch' = epoch + 1
      BY <1>3 DEF Remove
    <2>2. QED  BY <1>s, <2>1 DEF Fetched, Sound, Corrections
  <1>4. QED  BY <1>1, <1>2, <1>3, ChainSteps

\* Whoever is about to push and stays there has the state it prepared the push on.
\* Whoever is about to push or to write and stays there has the state it took its profile
\* in, but for the devices that it has come to trust since.
LEMMA SavedKept ==
    ASSUME Inv, [Next]_vars, NEW x \in Device, op[x].at \in {"push", "write"}, op'[x] = op[x]
    PROVE  /\ saved'[x].epoch = saved[x].epoch /\ saved'[x].head = saved[x].head
           /\ saved[x].trusted \subseteq saved'[x].trusted
           /\ ~MergeRevision(x)
  <1> TypeOK /\ NoneAssumption
    BY NoneAssumption DEF Inv, Typed
  <1>0. op \in [Device -> Operations] /\ DOMAIN saved = Device /\ DOMAIN op = Device
    BY DEF TypeOK
  <1>i. Idle.at = "idle"
    BY DEF Idle
  <1>m. ~MergeRevision(x)
    <2> SUFFICES ASSUME MergeRevision(x)
                 PROVE  FALSE
      OBVIOUS
    <2>1. op[x].at = "write" /\ (NextRevision(x) \/ Fail(x))
      BY MergeSteps
    <2>2. op[x] \in Operations
      BY <1>0
    <2>3. op'[x].at # "write"
      BY <1>0, <1>i, <2>1, <2>2 DEF NextRevision, Fail, Operations
    <2>4. QED  BY <2>1, <2>3
  <1>1. ASSUME NEW a \in Device, NEW d \in Device, Approve(a, d)
        PROVE  saved'[x] = saved[x]
    BY <1>0, <1>1 DEF Approve, At
  <1>2. ASSUME NEW d \in Device, Accept(d)
        PROVE  saved'[x] = saved[x]
    BY <1>0, <1>2 DEF Accept, Begins, At
  <1>3. ASSUME NEW d \in Device, ApplyRotation(d)
        PROVE  saved'[x] = saved[x]
    BY <1>0, <1>3 DEF ApplyRotation, At
  <1>4. ASSUME NEW d \in Device, ApplyGrants(d)
        PROVE  saved'[x] = saved[x]
    BY <1>0, <1>4 DEF ApplyGrants, At
  <1>5. ASSUME NEW d \in Device, MergeRevision(d)
        PROVE  saved'[x] = saved[x]
    BY <1>0, <1>5, <1>m, MergeSteps DEF CursorMoves
  <1>6. ASSUME NEW d \in Device, Push(d)
        PROVE  saved'[x] = saved[x]
    BY <1>0, <1>i, <1>6 DEF Push, Fail, At
  <1>7. ASSUME NEW d \in Device, NEW t \in Device, Remove(d, t)
        PROVE  saved'[x] = saved[x]
    BY <1>0, <1>7 DEF Remove, Pulled, At
  <1>8. saved'[x] = saved[x]
    BY <1>1, <1>2, <1>3, <1>4, <1>5, <1>6, <1>7, SavedSteps
  <1>9. QED  BY <1>8, <1>m

\* The store of a device has all that the chain has up to where the device is.
LEMMA StoreTaken ==
    ASSUME Inv, NEW d \in Device, saved[d] # None
    PROVE  Taken(d, store[d])
  <1>1. Sound(store[d]) /\ Within(store[d], store[d])
    BY DEF Inv, Typed, StoresSound, Within
  <1>2. ASSUME saved[d].epoch = epoch, NEW i \in 1..Len(log), i <= saved[d].head
        PROVE  Within(log[i].body, store[d])
    <2>1. saved[d] \in States
      BY DEF Inv, Typed, TypeOK
    <2>2. i \in 1..saved[d].head
      BY <1>2, <2>1, Sequences, SyncAssumption DEF States
    <2>3. QED  BY <1>2, <2>2 DEF Inv, HeadCovered
  <1>3. QED  BY <1>1, <1>2 DEF Taken

\* What was taken from a store stays as good as long as the store does not shrink and the
\* device stays where it is.
LEMMA TakenKept ==
    ASSUME Inv, [Next]_vars, NEW x \in Device, NEW p, Taken(x, p), saved[x] # None,
           saved'[x].epoch = saved[x].epoch, saved'[x].head = saved[x].head,
           Within(store[x], store'[x])
    PROVE  Taken(x, p)'
  <1> Typed /\ OperationsSound /\ TypeOK /\ HeadCovered
    BY DEF Inv, Typed
  <1>s. /\ log \in Seq(Revisions) /\ Len(log) \in Nat /\ epoch \in Nat
        /\ saved[x] \in States /\ saved[x].head \in Nat /\ saved[x].epoch \in Nat
        /\ saved[x].epoch <= epoch
    <2>1. saved[x] \in States /\ saved[x].epoch <= epoch
      BY DEF TypeOK, Typed, EpochsMatch
    <2>2. QED  BY <2>1, Sequences, SyncAssumption DEF TypeOK, Epochs, States
  <1>c. saved[x].epoch = epoch =>
           /\ saved[x].head <= Len(log)
           /\ \A i \in 1..Len(log) : i <= saved[x].head => Within(log[i].body, p)
    BY DEF Taken, HeadCovered
  <1>1. saved[x].epoch = epoch' =>
           \A i \in 1..Len(log') : i <= saved[x].head => Within(log'[i].body, p)
    <2>1. CASE UNCHANGED <<epoch, log, rotations>>
      BY <1>c, <2>1
    <2>2. CASE \E d \in Device : Push(d)
      <3> PICK d \in Device : Push(d)
        BY <2>2
      <3>1. op[d].draft \in Revisions
        BY DEF OperationsSound, Doing, Drafted, Push, At
      <3>2. epoch' = epoch /\ log' = Append(log, op[d].draft)
        BY DEF Push
      <3>3. Len(log') = Len(log) + 1 /\ \A i \in 1..Len(log) : log'[i] = log[i]
        BY <1>s, <3>1, <3>2, RowInserted
      <3>4. ASSUME saved[x].epoch = epoch', NEW i \in 1..Len(log'), i <= saved[x].head
            PROVE  i \in 1..Len(log) /\ log'[i] = log[i]
        <4>1. saved[x].head <= Len(log)
          BY <1>c, <3>2, <3>4
        <4>2. i <= Len(log)
          BY <1>s, <3>3, <3>4, <4>1
        <4>3. QED  BY <1>s, <3>3, <4>2
      <3>5. QED  BY <1>c, <3>2, <3>4
    <2>3. CASE \E d, t \in Device : Remove(d, t)
      <3>1. epoch' = epoch + 1
        BY <2>3 DEF Remove
      <3>2. QED  BY <1>s, <3>1
    <2>4. QED  BY <2>1, <2>2, <2>3, ChainSteps
  <1>2. Within(p, store'[x])
    BY DEF Taken, Within
  <1>3. QED  BY <1>1, <1>2 DEF Taken, Sound, Corrections, Within

LEMMA Kept ==
    ASSUME Inv, [Next]_vars, NEW x \in Device, op'[x] = op[x]
    PROVE  Doing(x, op[x])'
  <1> Typed /\ OperationsSound /\ TypeOK
    BY DEF Inv, Typed
  <1>1. op[x].upto <= epoch'
    <2>1. epoch' = epoch \/ epoch' = epoch + 1
      BY ChainSteps DEF Push, Remove
    <2>2. QED  BY <2>1, Operating DEF TypeOK, Epochs, Operations
  <1>2. op[x].at # "idle" => saved'[x] # None
    BY Operating, SavedTyped
  <1>3. \A i \in 1..Len(op[x].page) : Fetched(op[x].page[i])'
    <2> SUFFICES ASSUME NEW i \in 1..Len(op[x].page)
                 PROVE  Fetched(op[x].page[i])'
      OBVIOUS
    <2> DEFINE r == op[x].page[i]
    <2>1. PICK q : q = r
      OBVIOUS
    <2>2. q \in Revisions /\ Fetched(q)
      BY <2>1, Operating
    <2>3. Fetched(q)'
      BY <2>2, FetchedKept
    <2>4. QED  BY <2>1, <2>3 DEF Fetched
  <1>k. op[x].at \in {"push", "write"} =>
           /\ saved'[x].epoch = saved[x].epoch /\ saved'[x].head = saved[x].head
           /\ saved[x].trusted \subseteq saved'[x].trusted
           /\ saved[x] # None /\ Within(store[x], store'[x])
    BY Operating, SavedKept, StoresTyped DEF Inv
  <1>4. op[x].at = "push" => Drafted(x, op[x].draft)'
    <2> SUFFICES ASSUME op[x].at = "push"
                 PROVE  Drafted(x, op[x].draft)'
      OBVIOUS
    <2>1. PICK q : q = op[x].draft
      OBVIOUS
    <2>2. Drafted(x, q) /\ Taken(x, q.body)
      BY <2>1, Operating DEF Drafted
    <2>3. Taken(x, q.body)'
      BY <1>k, <2>2, TakenKept
    <2>4. Drafted(x, q)'
      BY <1>k, <2>2, <2>3 DEF Drafted
    <2>5. QED  BY <2>1, <2>4 DEF Drafted, Taken
  <1>5. op[x].at = "write" => Writing(x, op[x])'
    <2> SUFFICES ASSUME op[x].at = "write"
                 PROVE  Writing(x, op[x])'
      OBVIOUS
    <2>1. PICK q : q = op[x]
      OBVIOUS
    <2>2. Writing(x, q) /\ Taken(x, q.seen)
      BY <2>1, Operating DEF Writing
    <2>3. Taken(x, q.seen)'
      BY <1>k, <2>2, TakenKept
    <2>4. Applies(saved[x], Head(q.page))'
      BY <1>k, <2>2 DEF Writing, Applies
    <2>5. Writing(x, q)'
      BY <2>2, <2>3, <2>4 DEF Writing
    <2>6. QED  BY <2>1, <2>5 DEF Writing
  <1>6. QED  BY <1>1, <1>2, <1>3, <1>4, <1>5 DEF Doing

\* What a device goes on with is good if what it fetched was.
LEMMA GoesOn ==
    ASSUME Inv, [Next]_vars, NEW d \in Device, NEW o \in Operations,
           op' = [op EXCEPT ![d] = o], o.upto <= epoch,
           o.at # "idle" => saved'[d] # None,
           \A i \in 1..Len(o.page) : Fetched(o.page[i]),
           o.at = "push" => Drafted(d, o.draft)', o.at = "write" => Writing(d, o)'
    PROVE  op' \in [Device -> Operations] /\ OperationsSound'
  <1> Typed /\ OperationsSound /\ TypeOK
    BY DEF Inv, Typed
  <1>1. op'[d] = o /\ \A x \in Device : x # d => op'[x] = op[x]
    BY DEF TypeOK
  <1>2. op' \in [Device -> Operations]
    BY DEF TypeOK
  <1>3. Doing(d, op[d])'
    <2>1. o.upto <= epoch'
      <3>1. epoch' = epoch \/ epoch' = epoch + 1
        BY ChainSteps DEF Push, Remove
      <3>2. QED  BY <3>1 DEF TypeOK, Epochs, Operations
    <2>2. ASSUME NEW i \in 1..Len(o.page)
          PROVE  Fetched(o.page[i])'
      <3>1. o.page \in Seq(Revisions) /\ Fetched(o.page[i])
        BY DEF Operations
      <3>2. o.page[i] \in Revisions
        BY <3>1, RowsTyped
      <3>3. QED  BY <3>1, <3>2, FetchedKept
    <2>3. \A i \in 1..Len(op'[d].page) : Fetched(op[d].page[i])'
      BY <1>1, <2>2 DEF Fetched
    <2>4. op'[d].at = "push" => Drafted(d, op[d].draft)'
      BY <1>1 DEF Drafted, Taken
    <2>5. op'[d].at = "write" => Writing(d, op[d])'
      BY <1>1 DEF Writing, Taken
    <2>6. QED  BY <1>1, <2>1, <2>3, <2>4, <2>5 DEF Doing
  <1>4. \A x \in Device : Doing(x, op[x])'
    BY <1>1, <1>3, Kept
  <1>5. QED  BY <1>2, <1>4 DEF OperationsSound

\* Every step keeps what the operations have in hand.
LEMMA OperationsStep ==
    ASSUME Inv, [Next]_vars
    PROVE  op' \in [Device -> Operations] /\ OperationsSound'
  <1> USE SyncAssumption, NoneAssumption
  <1> Typed /\ OperationsSound /\ TypeOK
    BY DEF Inv, Typed
  <1>t. epoch \in Epochs /\ epoch \in Nat /\ 1 \in Epochs /\ 1 <= epoch
    BY DEF TypeOK, Epochs
  <1>s. \A d \in Device : saved[d] # None => saved'[d] # None
    BY SavedTyped
  <1>0. CASE UNCHANGED op
    <2>1. \A x \in Device : Doing(x, op[x])'
      BY <1>0, Kept
    <2>2. QED  BY <1>0, <2>1 DEF OperationsSound, TypeOK
  <1>1. ASSUME NEW d \in Device, Accept(d)
        PROVE  op' \in [Device -> Operations] /\ OperationsSound'
    <2> DEFINE o == [Idle EXCEPT !.at = "again", !.publishes = TRUE]
    <2>1. o \in Operations /\ o.upto = 1 /\ o.at = "again" /\ Len(o.page) = 0
      BY IdleTyped DEF Idle, Operations
    <2>2. op' = [op EXCEPT ![d] = o]
      BY <1>1 DEF Accept
    <2>3. saved'[d] # None
      <3> DEFINE s == [epoch |-> grant[d].epoch, trusted |-> grant[d].registry,
                       revoked |-> {}, head |-> 0]
      <3>1. grant[d] \in Grants
        BY <1>1 DEF Accept, TypeOK, Typed, EpochsMatch
      <3>2. s \in States
        BY <3>1 DEF States, Grants
      <3>3. saved'[d] = s
        BY <1>1 DEF Accept, TypeOK
      <3>4. QED  BY <3>2, <3>3
    <2> HIDE DEF o
    <2>q. PICK q : q = o
      OBVIOUS
    <2>4. /\ q \in Operations /\ q.upto <= epoch /\ op' = [op EXCEPT ![d] = q]
          /\ saved'[d] # None /\ q.at \notin {"push", "write"}
          /\ \A i \in 1..Len(q.page) : Fetched(q.page[i])
      BY <1>t, <2>1, <2>2, <2>3, <2>q
    <2>5. QED  BY <2>4, GoesOn
  <1>2. ASSUME NEW d \in Device, Start(d)
        PROVE  op' \in [Device -> Operations] /\ OperationsSound'
    <2> DEFINE o == [Idle EXCEPT !.at = "rotations", !.upto = epoch]
    <2>1. o \in Operations /\ o.upto = epoch /\ o.at = "rotations" /\ Len(o.page) = 0
      BY <1>t, IdleTyped DEF Idle, Operations
    <2>2. op' = [op EXCEPT ![d] = o] /\ saved[d] # None
      BY <1>2 DEF Start
    <2> HIDE DEF o
    <2>q. PICK q : q = o
      OBVIOUS
    <2>3. /\ q \in Operations /\ q.upto <= epoch /\ op' = [op EXCEPT ![d] = q]
          /\ saved'[d] # None /\ q.at \notin {"push", "write"}
          /\ \A i \in 1..Len(q.page) : Fetched(q.page[i])
      BY <1>s, <1>t, <2>1, <2>2, <2>q
    <2>4. QED  BY <2>3, GoesOn
  <1>3. ASSUME NEW d \in Device, PullAgain(d)
        PROVE  op' \in [Device -> Operations] /\ OperationsSound'
    <2> DEFINE o == [op[d] EXCEPT !.at = "rotations", !.upto = epoch]
    <2>1. op[d] \in Operations /\ saved[d] # None
      BY <1>3, Operating DEF PullAgain, At
    <2>2. /\ o \in Operations /\ o.upto = epoch /\ o.at = "rotations"
          /\ o.page = op[d].page
      BY <1>t, <2>1 DEF Operations
    <2>3. op' = [op EXCEPT ![d] = o]
      BY <1>3 DEF PullAgain
    <2>4. \A i \in 1..Len(o.page) : Fetched(o.page[i])
      BY <2>2, Operating
    <2> HIDE DEF o
    <2>q. PICK q : q = o
      OBVIOUS
    <2>5. /\ q \in Operations /\ q.upto <= epoch /\ op' = [op EXCEPT ![d] = q]
          /\ saved'[d] # None /\ q.at \notin {"push", "write"}
          /\ \A i \in 1..Len(q.page) : Fetched(q.page[i])
      BY <1>s, <1>t, <2>1, <2>2, <2>3, <2>4, <2>q
    <2>6. QED  BY <2>5, GoesOn
  <1>f. ASSUME NEW d \in Device, Fail(d)
        PROVE  op' \in [Device -> Operations] /\ OperationsSound'
    <2>1. Idle \in Operations /\ Idle.upto = 1 /\ Idle.at = "idle" /\ Len(Idle.page) = 0
      BY IdleTyped DEF Idle
    <2>q. PICK q : q = Idle
      OBVIOUS
    <2>2. q \in Operations /\ q.upto <= epoch /\ op' = [op EXCEPT ![d] = q]
      BY <1>f, <1>t, <2>1, <2>q DEF Fail
    <2>3. q.at = "idle" /\ \A i \in 1..Len(q.page) : Fetched(q.page[i])
      BY <2>1, <2>q
    <2>4. QED  BY <2>2, <2>3, GoesOn
  <1>4. ASSUME NEW d \in Device, ApplyRotation(d)
        PROVE  op' \in [Device -> Operations] /\ OperationsSound'
    BY <1>0, <1>f, <1>4 DEF ApplyRotation
  <1>5. ASSUME NEW d \in Device, ApplyGrants(d)
        PROVE  op' \in [Device -> Operations] /\ OperationsSound'
    <2> DEFINE o == [op[d] EXCEPT !.at = "grants", !.upto = 1]
    <2>1. op[d] \in Operations /\ saved[d] # None
      BY <1>5, Operating DEF ApplyGrants, At
    <2>2. o \in Operations /\ o.upto = 1 /\ o.at = "grants" /\ o.page = op[d].page
      BY <1>t, <2>1 DEF Operations
    <2>3. op' = [op EXCEPT ![d] = o] \/ Fail(d)
      BY <1>5 DEF ApplyGrants
    <2>4. \A i \in 1..Len(o.page) : Fetched(o.page[i])
      BY <2>2, Operating
    <2>5. QED  BY <1>f, <1>s, <1>t, <2>1, <2>2, <2>3, <2>4, GoesOn
  <1>6. ASSUME NEW d \in Device, Fetch(d)
        PROVE  op' \in [Device -> Operations] /\ OperationsSound'
    <2> DEFINE page == SubSeq(log, saved[d].head + 1, Len(log))
               o == [op[d] EXCEPT !.at = "merge", !.page = page]
    <2>1. op[d] \in Operations /\ op[d].upto <= epoch /\ saved[d] # None /\ saved[d] \in States
      BY <1>6, Operating DEF Fetch, At
    <2>2. /\ page \in Seq(Revisions)
          /\ \A i \in 1..Len(page) : \E j \in 1..Len(log) : page[i] = log[j]
      BY <2>1, PageTyped
    <2>3. \A j \in 1..Len(log) : Fetched(log[j])
      <3> SUFFICES ASSUME NEW j \in 1..Len(log)
                   PROVE  Fetched(log[j])
        OBVIOUS
      <3>1. log[j].number = j /\ log[j].epoch = epoch /\ Sound(log[j].body)
        BY DEF TypeOK, Typed, LogSound
      <3>2. Len(log) <= MaxRevision /\ Len(log) \in Nat
        BY Sequences DEF Typed, LogSound
      <3>3. QED  BY <1>t, <3>1, <3>2 DEF Fetched
    <2>4. op' = [op EXCEPT ![d] = o]
      BY <1>6 DEF Fetch
    <2> HIDE DEF page
    <2>5. o \in Operations /\ o.upto = op[d].upto /\ o.at = "merge" /\ o.page = page
      BY <2>1, <2>2 DEF Operations
    <2>6. \A i \in 1..Len(o.page) : Fetched(o.page[i])
      BY <2>2, <2>3, <2>5
    <2>7. QED  BY <1>s, <2>1, <2>4, <2>5, <2>6, GoesOn
  <1>r. ASSUME NEW d \in Device, ReadProfile(d)
        PROVE  op' \in [Device -> Operations] /\ OperationsSound'
    <2> DEFINE p == store[d]
               o == [op[d] EXCEPT !.at = "write", !.seen = p]
    <2>1. op[d] \in Operations /\ op[d].upto <= epoch /\ saved[d] # None /\ p \in Profiles
      BY <1>r, Operating DEF ReadProfile, At, TypeOK
    <2>2. Fail(d) \/ (op' = [op EXCEPT ![d] = o] /\ op[d].page # <<>>
                        /\ Applies(saved[d], Head(op[d].page))
                        /\ Mergeable(Merge(p, Head(op[d].page).body)))
      BY <1>r DEF ReadProfile
    <2>3. UNCHANGED <<saved, store, epoch, log>>
      BY <1>r DEF ReadProfile, server
    <2>t. Taken(d, p)
      BY <2>1, StoreTaken
    <2> HIDE DEF p
    <2>4. /\ o \in Operations /\ o.upto = op[d].upto /\ o.at = "write"
          /\ o.page = op[d].page /\ o.seen = p
      BY <2>1 DEF Operations
    <2>5. \A i \in 1..Len(o.page) : Fetched(o.page[i])
      BY <2>4, Operating
    <2> HIDE DEF o
    <2>q. PICK q : q = o
      OBVIOUS
    <2>6. CASE ~Fail(d)
      <3>1. Writing(d, q)
        BY <2>2, <2>t, <2>4, <2>6, <2>q DEF Writing
      <3>2. Writing(d, q)'
        BY <2>3, <3>1 DEF Writing, Taken
      <3>3. /\ q \in Operations /\ q.upto <= epoch /\ op' = [op EXCEPT ![d] = q]
            /\ saved'[d] # None /\ q.at # "push"
            /\ \A i \in 1..Len(q.page) : Fetched(q.page[i])
        BY <2>1, <2>2, <2>3, <2>4, <2>5, <2>6, <2>q
      <3>4. QED  BY <3>2, <3>3, GoesOn
    <2>7. QED  BY <1>f, <2>6
  <1>7. ASSUME NEW d \in Device, MergeRevision(d)
        PROVE  op' \in [Device -> Operations] /\ OperationsSound'
    <2> DEFINE rest == Tail(op[d].page)
               o == [op[d] EXCEPT !.at = "merge", !.page = rest, !.seen = Nothing]
    <2>1. op[d] \in Operations /\ op[d].upto <= epoch /\ op[d].at = "write" /\ saved[d] # None
      BY <1>7, Operating, MergeSteps
    <2>2. /\ rest \in Seq(Revisions)
          /\ \A i \in 1..Len(rest) : i + 1 \in 1..Len(op[d].page) /\ rest[i] = op[d].page[i + 1]
      BY <2>1, PageParts, Operating DEF Writing
    <2>3. op' = [op EXCEPT ![d] = o] \/ Fail(d)
      BY <1>7, MergeSteps DEF NextRevision
    <2> HIDE DEF rest
    <2>4. o \in Operations /\ o.upto = op[d].upto /\ o.at = "merge" /\ o.page = rest
      BY <2>1, <2>2, IdleTyped DEF Operations
    <2>5. \A i \in 1..Len(o.page) : Fetched(o.page[i])
      BY <2>2, <2>4, Operating
    <2>6. QED  BY <1>f, <1>s, <2>1, <2>3, <2>4, <2>5, GoesOn
  <1>8. ASSUME NEW d \in Device, Prepare(d)
        PROVE  op' \in [Device -> Operations] /\ OperationsSound'
    <2> DEFINE r == [epoch |-> saved[d].epoch, number |-> saved[d].head + 1,
                     by |-> d, body |-> store[d]]
               o == [op[d] EXCEPT !.at = "push", !.publishes = TRUE, !.draft = r]
    <2>1. /\ op[d] \in Operations /\ op[d].upto <= epoch /\ saved[d] # None
          /\ saved[d] \in States
      BY <1>8, Operating DEF Prepare, Pulled, At
    <2>2. r \in Revisions
      <3>1. saved[d].head + 1 \in 1..MaxRevision + 1
        BY <2>1 DEF States
      <3>2. saved[d].epoch \in Epochs /\ store[d] \in Profiles
        BY <2>1 DEF States, TypeOK
      <3>3. QED  BY <3>1, <3>2 DEF Revisions
    <2>3. op' = [op EXCEPT ![d] = o]
      BY <1>8 DEF Prepare
    <2>4. UNCHANGED <<saved, store, epoch, log>>
      BY <1>8 DEF Prepare, server
    <2>5. Drafted(d, r)
      BY <2>1, <2>2, StoreTaken DEF Drafted
    <2> HIDE DEF r
    <2>6. /\ o \in Operations /\ o.upto = op[d].upto /\ o.at = "push"
          /\ o.page = op[d].page /\ o.draft = r
      BY <2>1, <2>2 DEF Operations
    <2>7. PICK z : z = r
      OBVIOUS
    <2>8. \A i \in 1..Len(o.page) : Fetched(o.page[i])
      BY <2>6, Operating
    <2> HIDE DEF o
    <2>q. PICK q : q = o
      OBVIOUS
    <2>9. /\ q \in Operations /\ q.upto <= epoch /\ op' = [op EXCEPT ![d] = q] /\ saved'[d] # None
          /\ q.at # "write" /\ \A i \in 1..Len(q.page) : Fetched(q.page[i])
      BY <1>s, <2>1, <2>3, <2>6, <2>8, <2>q
    <2>10. Drafted(d, q.draft)'
      <3>1. Drafted(d, z)
        BY <2>5, <2>7
      <3>2. Drafted(d, z)'
        BY <2>4, <3>1 DEF Drafted, Taken
      <3>3. q.draft = z
        BY <2>6, <2>7, <2>q
      <3>4. QED  BY <3>2, <3>3
    <2>11. QED  BY <2>9, <2>10, GoesOn
  <1>9. ASSUME NEW d \in Device, PushStale(d)
        PROVE  op' \in [Device -> Operations] /\ OperationsSound'
    <2> DEFINE o == [op[d] EXCEPT !.at = "again", !.retried = TRUE, !.draft = None]
    <2>1. op[d] \in Operations /\ op[d].upto <= epoch /\ saved[d] # None
      BY <1>9, Operating DEF PushStale, At
    <2>2. o \in Operations /\ o.upto = op[d].upto /\ o.at = "again" /\ o.page = op[d].page
      BY <2>1 DEF Operations
    <2>3. op' = [op EXCEPT ![d] = o] \/ Fail(d)
      BY <1>9 DEF PushStale, Fail
    <2>4. \A i \in 1..Len(o.page) : Fetched(o.page[i])
      BY <2>2, Operating
    <2>5. QED  BY <1>f, <1>s, <2>1, <2>2, <2>3, <2>4, GoesOn
  <1>10. ASSUME NEW d \in Device, NEW t \in Device, Remove(d, t)
         PROVE  op' \in [Device -> Operations] /\ OperationsSound'
    <2> DEFINE o == [Idle EXCEPT !.at = "merge", !.publishes = TRUE]
    <2>1. o \in Operations /\ o.upto = 1 /\ o.at = "merge" /\ Len(o.page) = 0
      BY IdleTyped DEF Idle, Operations
    <2>2. saved[d] # None
      BY <1>10, Operating DEF Remove, Pulled, At
    <2>3. op' = [op EXCEPT ![d] = o] \/ Fail(d)
      BY <1>10 DEF Remove
    <2> HIDE DEF o
    <2>4. QED  BY <1>f, <1>s, <1>t, <2>1, <2>2, <2>3, GoesOn
  <1>11. ASSUME NEW d \in Device, PullDone(d) \/ Push(d) \/ Abort(d)
         PROVE  op' \in [Device -> Operations] /\ OperationsSound'
    BY <1>f, <1>11 DEF PullDone, Push, Abort
  <1>12. QED
    BY <1>0, <1>1, <1>2, <1>3, <1>4, <1>5, <1>6, <1>r, <1>7, <1>8, <1>9, <1>10, <1>11,
       OperationSteps

-----------------------------------------------------------------------------
(* Every step keeps the rest of the invariant.                              *)

\* Every step keeps the types.
LEMMA TypedStep ==
    ASSUME Inv, [Next]_vars
    PROVE  Typed'
  <1>1. Typed /\ OperationsSound /\ ClientsSound /\ TypeOK
    BY DEF Inv, Typed
  <1>2. TypeOK'
    BY <1>1, ChainTyped, RegistryTyped, StoresTyped, ClientsTyped, SavedTyped, OperationsStep
       DEF TypeOK
  <1>3. EpochsMatch'
    BY <1>1, ChainTyped, RegistryTyped, SavedTyped DEF EpochsMatch
  <1>4. LogSound' /\ StoresSound'
    BY <1>1, ChainTyped, StoresTyped
  <1>5. QED  BY <1>2, <1>3, <1>4 DEF Typed

\* The log after a push.
LEMMA Pushed ==
    ASSUME Inv, NEW d \in Device, Push(d)
    PROVE  /\ op[d].draft \in Revisions /\ Drafted(d, op[d].draft)
           /\ op[d].draft.number = Len(log) + 1 /\ op[d].draft.epoch = epoch
           /\ epoch' = epoch /\ store' = store /\ row' = row /\ row[d] = "active"
           /\ Len(log') = Len(log) + 1 /\ log'[Len(log) + 1] = op[d].draft
           /\ \A i \in 1..Len(log) : log'[i] = log[i]
           /\ saved[d] # None /\ saved[d].epoch = epoch /\ saved[d].head = Len(log)
           /\ \A i \in 1..Len(log) : Within(log[i].body, op[d].draft.body)
           /\ Within(op[d].draft.body, store[d])
  <1>1. TypeOK /\ Drafted(d, op[d].draft) /\ saved[d] # None
    BY Operating DEF Inv, Typed, Push, At
  <1>2. op[d].draft \in Revisions /\ log' = Append(log, op[d].draft)
    BY <1>1 DEF Drafted, Push
  <1>3. log \in Seq(Revisions)
    BY <1>1 DEF TypeOK
  <1>4. /\ Len(log') = Len(log) + 1 /\ log'[Len(log) + 1] = op[d].draft
        /\ \A i \in 1..Len(log) : log'[i] = log[i]
    BY <1>2, <1>3, Sequences, RowInserted
  <1>5. /\ op[d].draft.number = Len(log) + 1 /\ op[d].draft.epoch = epoch
        /\ epoch' = epoch /\ store' = store /\ row' = row /\ row[d] = "active"
    BY DEF Push, Writable, Extends
  <1>6. saved[d].epoch = epoch /\ saved[d].head = Len(log)
    <2>1. saved[d] \in States /\ saved[d].head \in Nat /\ Len(log) \in Nat
      BY <1>1, Sequences, SyncAssumption DEF TypeOK, States
    <2>2. QED  BY <1>1, <1>5, <2>1 DEF Drafted
  <1>7. QED  BY <1>1, <1>2, <1>4, <1>5, <1>6, Sequences DEF Drafted, Taken

\* A device that says it has seen a revision has all of it: it merged it before it said
\* so, or wrote it.
\* A device that says it has seen a revision has all of it: it merged it before it said
\* so, or wrote it.
LEMMA HeadCoveredStep ==
    ASSUME Inv, [Next]_vars
    PROVE  HeadCovered'
  <1> USE SyncAssumption, NoneAssumption
  <1> Typed /\ TypeOK /\ HeadCovered /\ EpochsMatch
    BY DEF Inv, Typed
  <1>s. /\ Len(log) \in Nat /\ epoch \in Nat
        /\ \A d \in Device : saved[d] # None =>
              /\ saved[d] \in States /\ saved[d].epoch \in Nat /\ saved[d].head \in Nat
              /\ saved[d].epoch <= epoch
        /\ \A d \in Device : DOMAIN saved = Device
    BY Sequences DEF TypeOK, States, Epochs, EpochsMatch
  <1>w. ASSUME NEW d \in Device, NEW p, Within(p, store[d]), ~MergeRevision(d)
        PROVE  Within(p, store'[d])
    <2>1. Within(store[d], store'[d])
      BY <1>w, StoresTyped DEF Inv
    <2>2. QED  BY <1>w, <2>1, WithinTransitive
  <1> SUFFICES ASSUME NEW d \in Device, saved'[d] # None, saved'[d].epoch = epoch'
               PROVE  /\ saved'[d].head <= Len(log')
                      /\ \A i \in 1..saved'[d].head : Within(log'[i].body, store'[d])
    BY DEF HeadCovered, Within
  <1>m. CASE MergeRevision(d)
    <2> DEFINE s == op[d].seen
               r == Head(op[d].page)
    <2>1. /\ UNCHANGED <<epoch, log>> /\ op[d].at = "write"
          /\ saved' = saved \/ saved' = [saved EXCEPT ![d].head = r.number]
      BY <1>m, MergeSteps DEF server, CursorMoves
    <2>2. /\ saved[d] \in States /\ saved[d] # None /\ Applies(saved[d], r) /\ Taken(d, s)
          /\ op[d].page # <<>>
      BY <2>1, Operating DEF Writing
    <2>3. r \in Revisions /\ Fetched(r)
      BY <2>2, PageParts, Operating
    <2>4. Within(s, store'[d]) /\ Within(r.body, store'[d])
      <3>1. PICK p \in Profiles : /\ store' = [store EXCEPT ![d] = p]
                                  /\ Within(s, p) /\ Within(r.body, p)
        BY <1>m, MergeEffect DEF Inv, Typed
      <3>2. store'[d] = p
        BY <3>1 DEF TypeOK
      <3>3. QED  BY <3>1, <3>2
    <2>5. saved[d].epoch = epoch /\ saved'[d].head \in {saved[d].head, r.number}
      <3>1. saved'[d].epoch = saved[d].epoch /\ saved'[d].head \in {saved[d].head, r.number}
        BY <1>s, <2>1, <2>2 DEF States
      <3>2. QED  BY <2>1, <3>1
    <2>6. r.number = saved[d].head + 1 /\ r.epoch = epoch
      BY <2>2, <2>5 DEF Applies
    <2>7. r.number <= Len(log) /\ log[r.number] = r /\ saved[d].head <= Len(log)
      BY <2>2, <2>3, <2>5, <2>6 DEF Fetched, HeadCovered
    <2>8. ASSUME NEW i \in 1..r.number
          PROVE  Within(log[i].body, store'[d])
      <3>1. CASE i = r.number
        BY <2>4, <2>7, <3>1
      <3>2. CASE i # r.number
        <4>1. i \in 1..Len(log) /\ i <= saved[d].head
          BY <1>s, <2>2, <2>6, <2>7, <3>2
        <4>2. Within(log[i].body, s)
          BY <2>2, <2>5, <4>1 DEF Taken
        <4>3. QED  BY <2>4, <4>2, WithinTransitive
      <3>3. QED  BY <3>1, <3>2
    <2>9. \A i \in 1..saved'[d].head : i \in 1..r.number
      BY <1>s, <2>2, <2>5, <2>6
    <2>10. saved'[d].head <= Len(log)
      BY <2>5, <2>7
    <2> HIDE DEF s, r
    <2>11. QED  BY <2>1, <2>8, <2>9, <2>10
  <1>z. CASE saved'[d].head = 0
    <2>1. Len(log') \in Nat
      <3>1. log' \in Seq(Revisions)
        BY ChainTyped DEF Inv
      <3>2. QED  BY <3>1, LenProperties
    <2>2. QED  BY <1>z, <2>1
  <1>k. CASE /\ saved[d] # None /\ saved'[d].epoch = saved[d].epoch
             /\ saved'[d].head = saved[d].head /\ ~MergeRevision(d)
    <2>1. CASE UNCHANGED <<epoch, log, rotations>>
      BY <1>k, <1>w, <2>1 DEF HeadCovered
    <2>2. CASE \E x \in Device : Push(x)
      <3> PICK x \in Device : Push(x)
        BY <2>2
      <3>1. /\ saved[d].epoch = epoch /\ saved[d].head <= Len(log)
            /\ \A i \in 1..saved[d].head : Within(log[i].body, store[d])
        BY <1>k, Pushed DEF HeadCovered
      <3>2. \A i \in 1..saved[d].head : i \in 1..Len(log) /\ log'[i] = log[i]
        BY <1>s, <1>k, <3>1, Pushed
      <3>3. saved[d].head <= Len(log')
        BY <1>s, <1>k, <3>1, Pushed
      <3>4. QED  BY <1>k, <1>w, <3>1, <3>2, <3>3
    <2>3. CASE \E x, t \in Device : Remove(x, t)
      <3>1. epoch' = epoch + 1
        BY <2>3 DEF Remove
      <3>2. saved[d].epoch \in Nat /\ saved[d].epoch <= epoch /\ epoch \in Nat
        BY <1>k, <1>s
      <3>3. saved[d].epoch = epoch + 1
        BY <1>k, <3>1
      <3>4. QED  BY <3>2, <3>3
    <2>4. QED  BY <2>1, <2>2, <2>3, ChainSteps
  <1>1. ASSUME NEW a \in Device, NEW x \in Device, Approve(a, x)
        PROVE  /\ saved[d] # None /\ saved'[d].epoch = saved[d].epoch
               /\ saved'[d].head = saved[d].head
    <2>1. saved[a] # None
      BY <1>1 DEF Approve
    <2>2. \/ saved' = saved
          \/ saved' = [saved EXCEPT ![a] = [saved[a] EXCEPT !.trusted = @ \cup {x}]]
      BY <1>1 DEF Approve
    <2>3. QED  BY <1>s, <2>1, <2>2 DEF States
  <1>2. ASSUME NEW x \in Device, Accept(x)
        PROVE  \/ saved'[d].head = 0
               \/ saved[d] # None /\ saved'[d] = saved[d]
    BY <1>s, <1>2 DEF Accept
  <1>3. ASSUME NEW x \in Device, ApplyRotation(x)
        PROVE  \/ saved'[d].head = 0
               \/ saved[d] # None /\ saved'[d] = saved[d]
    <2>1. saved[x] \in States
      BY <1>3, Operating DEF ApplyRotation, At
    <2>2. saved' = saved \/ \E t : saved' = [saved EXCEPT ![x] = Rotated(saved[x], t)]
      BY <1>3 DEF ApplyRotation
    <2>3. \A t : Rotated(saved[x], t).head = 0
      BY <2>1 DEF Rotated, States
    <2>4. QED  BY <1>s, <2>2, <2>3
  <1>4. ASSUME NEW x \in Device, ApplyGrants(x)
        PROVE  /\ saved[d] # None /\ saved'[d].epoch = saved[d].epoch
               /\ saved'[d].head = saved[d].head
    <2>1. saved[x] \in States /\ saved[x] # None
      BY <1>4, Operating DEF ApplyGrants, At
    <2>2. \/ saved' = saved
          \/ saved' = [saved EXCEPT ![x] = [saved[x] EXCEPT !.trusted = Reach(saved[x].trusted)]]
      BY <1>4 DEF ApplyGrants
    <2>3. QED  BY <1>s, <2>1, <2>2 DEF States
  <1>6. ASSUME NEW x \in Device, Push(x), x = d, saved'[d] # saved[d], ~MergeRevision(d)
        PROVE  /\ saved'[d].head <= Len(log')
               /\ \A i \in 1..saved'[d].head : Within(log'[i].body, store'[d])
    <2> DEFINE r == op[d].draft
    <2>1. saved' = [saved EXCEPT ![d].head = r.number]
      BY <1>6 DEF Push
    <2>2. /\ r.number = Len(log) + 1 /\ saved[d] # None /\ Within(r.body, store[d])
          /\ saved[d].epoch = epoch /\ saved[d].head = Len(log)
          /\ Len(log') = Len(log) + 1 /\ log'[Len(log) + 1] = r
          /\ \A i \in 1..Len(log) : log'[i] = log[i]
      BY <1>6, Pushed
    <2>3. saved'[d].head = Len(log) + 1
      BY <1>s, <2>1, <2>2 DEF States
    <2>5. ASSUME NEW i \in 1..Len(log) + 1
          PROVE  Within(log'[i].body, store'[d])
      <3>1. CASE i = Len(log) + 1
        BY <1>6, <1>w, <2>2, <3>1
      <3>2. CASE i \in 1..Len(log)
        <4>1. Within(log[i].body, store[d])
          BY <2>2, <3>2 DEF HeadCovered
        <4>2. QED  BY <1>6, <1>w, <2>2, <3>2, <4>1
      <3>3. QED  BY <1>s, <3>1, <3>2
    <2>6. QED  BY <2>2, <2>3, <2>5
  <1>7. ASSUME NEW x \in Device, NEW t \in Device, Remove(x, t)
        PROVE  \/ saved'[d].head = 0
               \/ saved[d] # None /\ saved'[d] = saved[d]
    <2>1. saved[x] \in States
      BY <1>7, Operating DEF Remove, Pulled, At
    <2>2. saved' = saved \/ saved' = [saved EXCEPT ![x] = Rotated(saved[x], t)]
      BY <1>7 DEF Remove
    <2>3. Rotated(saved[x], t).head = 0
      BY <2>1 DEF Rotated, States
    <2>4. QED  BY <1>s, <2>2, <2>3
  <1>8. ASSUME NEW x \in Device, MergeRevision(x) \/ Push(x), x # d
        PROVE  saved[d] # None /\ saved'[d] = saved[d]
    BY <1>s, <1>8, MergeSteps DEF CursorMoves, Push
  <1>9. QED
    BY <1>m, <1>z, <1>k, <1>1, <1>2, <1>3, <1>4, <1>6, <1>7, <1>8, SavedSteps

\* A revision holds what the ones below it hold: its writer was at the head.
LEMMA LogGrowsStep ==
    ASSUME Inv, [Next]_vars
    PROVE  LogGrows'
  <1> Typed /\ TypeOK /\ LogGrows
    BY DEF Inv, Typed
  <1>s. Len(log) \in Nat
    BY Sequences
  <1>1. CASE UNCHANGED <<epoch, log, rotations>>
    BY <1>1 DEF LogGrows, Within
  <1>2. CASE \E d \in Device : Push(d)
    <2> PICK d \in Device : Push(d)
      BY <1>2
    <2> DEFINE r == op[d].draft
    <2>1. /\ Len(log') = Len(log) + 1 /\ log'[Len(log) + 1] = r
          /\ \A i \in 1..Len(log) : log'[i] = log[i]
      BY Pushed
    <2>2. \A i \in 1..Len(log) : Within(log[i].body, r.body)
      BY Pushed
    <2>3. Within(r.body, r.body)
      BY DEF Within
    <2>4. ASSUME NEW i \in 1..Len(log'), NEW j \in 1..Len(log'), i <= j
          PROVE  Within(log'[i].body, log'[j].body)
      <3>1. CASE j = Len(log) + 1
        <4>1. i \in 1..Len(log) \/ i = Len(log) + 1
          BY <1>s, <2>1
        <4>2. QED  BY <2>1, <2>2, <2>3, <3>1, <4>1
      <3>2. CASE j # Len(log) + 1
        <4>1. i \in 1..Len(log) /\ j \in 1..Len(log)
          BY <1>s, <2>1, <2>4, <3>2
        <4>2. QED  BY <2>1, <2>4, <4>1 DEF LogGrows
      <3>3. QED  BY <3>1, <3>2
    <2>5. QED  BY <2>4 DEF LogGrows, Within
  <1>3. CASE \E d, t \in Device : Remove(d, t)
    <2>1. log' = <<>>
      BY <1>3 DEF Remove
    <2>2. Len(log') = 0
      BY <2>1, EmptySeq
    <2>3. QED  BY <2>2 DEF LogGrows
  <1>4. QED  BY <1>1, <1>2, <1>3, ChainSteps

\* The writer of every revision is active: a removal empties the chain.
LEMMA WritersActiveStep ==
    ASSUME Inv, [Next]_vars
    PROVE  WritersActive'
  <1> Typed /\ TypeOK /\ WritersActive
    BY DEF Inv, Typed
  <1>s. /\ Len(log) \in Nat
        /\ \A i \in 1..Len(log) : log[i].by \in Device
    BY Sequences DEF Revisions
  <1>1. CASE \E d \in Device : Push(d)
    <2> PICK d \in Device : Push(d)
      BY <1>1
    <2>1. /\ op[d].draft.by = d /\ row' = row /\ row[d] = "active"
          /\ Len(log') = Len(log) + 1 /\ log'[Len(log) + 1] = op[d].draft
          /\ \A i \in 1..Len(log) : log'[i] = log[i]
      BY Pushed DEF Drafted
    <2>2. \A i \in 1..Len(log') : i \in 1..Len(log) \/ i = Len(log) + 1
      BY <1>s, <2>1
    <2>3. QED  BY <2>1, <2>2 DEF WritersActive
  <1>2. CASE \E d, t \in Device : Remove(d, t)
    <2>1. log' = <<>>
      BY <1>2 DEF Remove
    <2>2. Len(log') = 0
      BY <2>1, EmptySeq
    <2>3. QED  BY <2>2 DEF WritersActive
  <1>3. CASE UNCHANGED <<epoch, log, rotations>>
    <2>1. CASE UNCHANGED <<row, grant>>
      BY <1>3, <2>1 DEF WritersActive
    <2>2. CASE \E a, d \in Device : Approve(a, d)
      <3>1. PICK d \in Device : row' = [row EXCEPT ![d] = "active"]
        BY <2>2 DEF Approve
      <3>2. \A x \in Device : row[x] = "active" => row'[x] = "active"
        BY <3>1 DEF TypeOK
      <3>3. QED  BY <1>s, <1>3, <3>2 DEF WritersActive
    <2>3. QED  BY <1>2, <2>1, <2>2, RegistrySteps
  <1>4. QED  BY <1>1, <1>2, <1>3, ChainSteps

\* Who is removed was let in before, and gets neither a grant nor a key afterwards.
LEMMA RemovedStep ==
    ASSUME Inv, [Next]_vars
    PROVE  RemovedForGood' /\ RemovedStayBehind'
  <1> USE SyncAssumption, NoneAssumption
  <1> Typed /\ TypeOK /\ EpochsMatch /\ RemovedForGood /\ RemovedStayBehind
    BY DEF Inv, Typed
  <1>s. /\ Len(rotations) \in Nat /\ epoch \in Nat /\ Len(rotations) = epoch - 1
        /\ rotations \in Seq(Rotations)
        /\ \A i \in 1..Len(rotations) : rotations[i].revoked \in Device
        /\ \A d \in Device : saved[d] # None =>
              saved[d] \in States /\ saved[d].epoch \in Nat /\ saved[d].epoch <= epoch
        /\ \A d \in Device : grant[d] # None =>
              grant[d] \in Grants /\ grant[d].epoch \in Nat /\ grant[d].epoch <= epoch
        /\ DOMAIN saved = Device /\ DOMAIN grant = Device /\ DOMAIN row = Device
    BY Sequences DEF TypeOK, States, Grants, Rotations, Epochs, EpochsMatch
  <1>b. \A i \in 1..Len(rotations), d \in Device :
           rotations[i].revoked = d =>
              /\ row[d] = "revoked"
              /\ grant[d] # None => grant[d].epoch <= i
              /\ saved[d] # None => saved[d].epoch <= i
    BY <1>s DEF RemovedForGood, RemovedStayBehind
  <1>1. ASSUME NEW d \in Device, NEW t \in Device, Remove(d, t)
        PROVE  RemovedForGood' /\ RemovedStayBehind'
    <2> DEFINE r == [revoked |-> t, initiator |-> d, active |-> Remaining(d, t)]
    <2>1. /\ saved[d] # None /\ saved[d] \in States /\ saved[d].epoch = epoch
          /\ row[d] = "active" /\ t # d
          /\ rotations' = Append(rotations, r) /\ grant' = grant
          /\ row' = [row EXCEPT ![t] = "revoked"]
          /\ saved' = saved \/ saved' = [saved EXCEPT ![d] = Rotated(saved[d], t)]
      BY <1>1, Operating DEF Remove, Pulled, At, Rotates, Registered
    <2>2. r \in Rotations
      BY <2>1 DEF Rotations, Remaining, Active, States
    <2>3. /\ Len(rotations') = Len(rotations) + 1
          /\ rotations'[Len(rotations) + 1].revoked = t
          /\ \A i \in 1..Len(rotations) : rotations'[i] = rotations[i]
      BY <1>s, <2>1, <2>2, RowInserted
    <2>4. \A i \in 1..Len(rotations') : i \in 1..Len(rotations) \/ i = Len(rotations) + 1
      BY <1>s, <2>3
    <2>5. \A x \in Device : x # d => saved'[x] = saved[x]
      BY <1>s, <2>1
    <2>6. \A i \in 1..Len(rotations') : rotations'[i].revoked # d
      BY <1>b, <2>1, <2>3, <2>4
    <2>7. row'[t] = "revoked" /\ \A x \in Device : row[x] = "revoked" => row'[x] = "revoked"
      BY <1>s, <2>1
    <2>8. ASSUME NEW i \in 1..Len(rotations')
          PROVE  LET x == rotations'[i].revoked
                 IN  /\ x \in Device /\ row'[x] = "revoked"
                     /\ grant'[x] # None => grant'[x].epoch <= i
                     /\ saved'[x] # None => saved'[x].epoch <= i
      <3>1. CASE i \in 1..Len(rotations)
        BY <1>s, <1>b, <2>1, <2>3, <2>5, <2>6, <2>7, <3>1
      <3>2. CASE i = Len(rotations) + 1
        BY <1>s, <2>1, <2>3, <2>5, <2>7, <3>2
      <3>3. QED  BY <2>4, <3>1, <3>2
    <2>9. QED  BY <2>8 DEF RemovedForGood, RemovedStayBehind
  <1>r. ASSUME UNCHANGED rotations,
               \A i \in 1..Len(rotations) :
                  LET d == rotations[i].revoked
                  IN  /\ row'[d] = "revoked"
                      /\ grant'[d] # None => grant'[d].epoch <= i
                      /\ saved'[d] # None => saved'[d].epoch <= i
        PROVE  RemovedForGood' /\ RemovedStayBehind'
    BY <1>r DEF RemovedForGood, RemovedStayBehind
  <1>2. CASE ~\E d, t \in Device : Remove(d, t)
    <2>1. UNCHANGED rotations
      BY <1>2, ChainSteps DEF Push
    <2>2. ASSUME NEW i \in 1..Len(rotations), NEW x \in Device, rotations[i].revoked = x
          PROVE  /\ row'[x] = "revoked" /\ grant'[x] = grant[x]
      <3>1. row[x] = "revoked"
        BY <1>b, <2>2
      <3>2. CASE UNCHANGED <<row, grant>>
        BY <3>1, <3>2
      <3>3. CASE \E a, d \in Device : Approve(a, d)
        <4>1. PICK a \in Device, d \in Device : Approve(a, d)
          BY <3>3
        <4>2. /\ row[d] = "absent" /\ row' = [row EXCEPT ![d] = "active"]
              /\ \E g : grant' = [grant EXCEPT ![d] = g]
          BY <4>1 DEF Approve, Registers
        <4>3. x # d
          BY <3>1, <4>2
        <4>4. QED  BY <1>s, <3>1, <4>2, <4>3
      <3>4. QED  BY <1>2, <3>2, <3>3, RegistrySteps
    <2>3. ASSUME NEW i \in 1..Len(rotations), NEW x \in Device, rotations[i].revoked = x,
                 saved'[x] # None
          PROVE  saved'[x].epoch <= i
      <3>0. saved[x] # None => saved[x].epoch <= i /\ saved[x] \in States
        BY <1>b, <1>s, <2>3
      <3>k. CASE saved[x] # None /\ saved'[x].epoch = saved[x].epoch
        BY <3>0, <3>k
      <3>1. ASSUME NEW a \in Device, NEW d \in Device, Approve(a, d)
            PROVE  saved[x] # None /\ saved'[x].epoch = saved[x].epoch
        <4>1. saved[a] # None
          BY <3>1 DEF Approve
        <4>2. \/ saved' = saved
              \/ saved' = [saved EXCEPT ![a] = [saved[a] EXCEPT !.trusted = @ \cup {d}]]
          BY <3>1 DEF Approve
        <4>3. QED  BY <1>s, <2>3, <4>1, <4>2 DEF States
      <3>2. ASSUME NEW d \in Device, Accept(d)
            PROVE  saved'[x].epoch <= i
        <4>1. CASE x = d
          <5>1. saved'[x].epoch = grant[x].epoch /\ grant[x] # None
            BY <1>s, <3>2, <4>1 DEF Accept, EpochsMatch
          <5>2. QED  BY <1>b, <2>3, <5>1
        <4>2. CASE x # d
          <5>1. saved'[x] = saved[x]
            BY <1>s, <3>2, <4>2 DEF Accept
          <5>2. QED  BY <2>3, <3>0, <5>1
        <4>3. QED  BY <4>1, <4>2
      <3>3. ASSUME NEW d \in Device, ApplyRotation(d)
            PROVE  saved'[x].epoch <= i
        <4>1. CASE saved' = saved
          BY <2>3, <3>0, <4>1
        <4>2. CASE saved' # saved /\ x = d
          <5> DEFINE r == rotations[saved[x].epoch]
          <5>1. /\ saved' = [saved EXCEPT ![x] = Rotated(saved[x], r.revoked)]
                /\ Follows(saved[x], r) /\ x \in r.active
            BY <3>3, <4>2 DEF ApplyRotation
          <5>2. saved[x] # None /\ saved[x] \in States
            BY <3>3, <4>2, Operating DEF ApplyRotation, At
          <5>3. saved'[x].epoch = saved[x].epoch + 1
            BY <1>s, <5>1, <5>2 DEF Rotated, States
          <5>4. r.revoked # x
            BY <5>1 DEF Follows
          <5>5. saved[x].epoch # i
            BY <2>3, <5>4
          <5>6. saved[x].epoch <= i /\ saved[x].epoch \in Nat /\ i \in Nat
            BY <1>s, <3>0, <5>2
          <5>7. QED  BY <5>3, <5>5, <5>6
        <4>3. CASE x # d
          <5>1. saved'[x] = saved[x]
            BY <1>s, <3>3, <4>3 DEF ApplyRotation
          <5>2. QED  BY <2>3, <3>0, <5>1
        <4>4. QED  BY <4>1, <4>2, <4>3
      <3>4. ASSUME NEW d \in Device, ApplyGrants(d)
            PROVE  saved[x] # None /\ saved'[x].epoch = saved[x].epoch
        <4>1. saved[d] # None
          BY <3>4, Operating DEF ApplyGrants, At
        <4>2. \/ saved' = saved
              \/ saved' = [saved EXCEPT ![d] =
                                [saved[d] EXCEPT !.trusted = Reach(saved[d].trusted)]]
          BY <3>4 DEF ApplyGrants
        <4>3. QED  BY <1>s, <2>3, <4>1, <4>2 DEF States
      <3>5. ASSUME NEW d \in Device, MergeRevision(d) \/ Push(d)
            PROVE  saved[x] # None /\ saved'[x].epoch = saved[x].epoch
        <4>1. saved[d] # None
          BY <3>5, Operating, MergeSteps DEF Push, At
        <4>2. saved' = saved \/ \E h : saved' = [saved EXCEPT ![d].head = h]
          BY <3>5, MergeSteps DEF CursorMoves, Push
        <4>3. QED  BY <1>s, <2>3, <4>1, <4>2 DEF States
      <3>6. CASE UNCHANGED saved
        BY <2>3, <3>0, <3>6
      <3>7. QED
        BY <1>2, <3>k, <3>1, <3>2, <3>3, <3>4, <3>5, <3>6, SavedSteps
    <2>4. QED  BY <1>s, <1>b, <1>r, <2>1, <2>2, <2>3
  <1>3. QED  BY <1>1, <1>2

\* A tombstone covers its lineage, and every version has one correction, named, wherever
\* the last merge did not overlap a local change.
LEMMA StoresStep ==
    ASSUME Inv, [Next]_vars
    PROVE  ForgottenLineage' /\ NoDivergence'
  <1> USE SyncAssumption
  <1> TypeOK /\ ForgottenLineage /\ NoDivergence /\ ClientsSound
    BY DEF Inv, Typed
  <1>t. /\ DOMAIN store = Device
        /\ \A d \in Device : store[d] \in Profiles /\ Sound(store[d])
    BY DEF TypeOK, Inv, Typed, StoresSound
  <1>g. \A d \in Device \ raced : Mergeable(store[d]) /\ Closed(store[d].forgotten, store[d])
    BY DEF ForgottenLineage, NoDivergence, Closed
  <1>u. ASSUME NEW d \in Device, NEW p, store' = [store EXCEPT ![d] = p],
               \A x \in Device \ {d} : x \notin raced' => x \notin raced,
               d \notin raced' => Mergeable(p) /\ Closed(p.forgotten, p)
        PROVE  ForgottenLineage' /\ NoDivergence'
    <2>1. \A x \in Device : store'[x] = IF x = d THEN p ELSE store[x]
      BY <1>u, <1>t
    <2>2. \A x \in Device \ raced' :
             Mergeable(store'[x]) /\ Closed(store'[x].forgotten, store'[x])
      BY <1>u, <1>g, <2>1
    <2>3. QED  BY <2>2 DEF ForgottenLineage, NoDivergence, Closed, Mergeable, Corrections
  <1>0. CASE UNCHANGED <<store, raced>>
    BY <1>0 DEF ForgottenLineage, NoDivergence, Closed, Mergeable, Corrections
  <1>1. ASSUME NEW d \in Device, NEW m \in Memory, Remember(d, m)
        PROVE  ForgottenLineage' /\ NoDivergence'
    <2> DEFINE p == [store[d] EXCEPT !.known = @ \cup {m}]
    <2>1. store' = [store EXCEPT ![d] = p] /\ Corrects[m] = None /\ raced' = raced
      BY <1>1 DEF Remember, Change
    <2>2. /\ p.forgotten = store[d].forgotten /\ p.named = store[d].named
          /\ Corrections(p) = Corrections(store[d])
      BY <1>t, <2>1, Remembered
    <2> HIDE DEF p
    <2>3. d \notin raced => Mergeable(p) /\ Closed(p.forgotten, p)
      BY <1>g, <2>2 DEF Mergeable, Closed
    <2>4. QED  BY <1>u, <2>1, <2>3
  <1>2. ASSUME NEW d \in Device, FinishCorrect(d)
        PROVE  ForgottenLineage' /\ NoDivergence'
    <2>1. PICK m \in client[d].versions :
             /\ store' = [store EXCEPT ![d] =
                  [store[d] EXCEPT !.known = @ \cup {m},
                                   !.named = {n \in @ : Corrects[n] # Corrects[m]} \cup {m}]]
             /\ raced' = raced
      BY <1>2 DEF FinishCorrect, Change
    <2> DEFINE p == [store[d] EXCEPT !.known = @ \cup {m},
                                     !.named = {n \in @ : Corrects[n] # Corrects[m]} \cup {m}]
    <2>2. /\ m \in Memory /\ Corrects[m] \in store[d].known
          /\ d \notin raced => /\ Corrects[m] \notin store[d].forgotten
                               /\ \A n \in store[d].named : Corrects[n] # Corrects[m]
      BY <1>2 DEF FinishCorrect, ClientsSound, Changing, TypeOK, Changes
    <2>3. /\ p.forgotten = store[d].forgotten /\ Corrections(p) = Corrections(store[d]) \cup {m}
          /\ p.named = {n \in store[d].named : Corrects[n] # Corrects[m]} \cup {m}
      BY <1>t, <2>2, Corrected
    <2>4. store' = [store EXCEPT ![d] = p]
      BY <2>1
    <2> HIDE DEF p
    <2>5. ASSUME d \notin raced
          PROVE  Mergeable(p) /\ Closed(p.forgotten, p)
      <3>1. /\ Mergeable(store[d]) /\ Closed(store[d].forgotten, store[d])
            /\ p.named = store[d].named \cup {m}
        BY <1>g, <2>2, <2>3, <2>5
      <3>2. p.named = Corrections(p)
        BY <2>3, <3>1 DEF Mergeable
      <3>3. \A x, y \in p.named : Corrects[x] = Corrects[y] => x = y
        BY <2>2, <2>5, <3>1 DEF Mergeable
      <3>4. m \in Corrections(store[d]) \/ m \notin store[d].forgotten
        <4>1. Corrects[m] # None
          BY <1>t, <2>2 DEF Profiles
        <4>2. QED  BY <1>t, <4>1 DEF Corrections, Sound
      <3>5. m \notin store[d].forgotten
        BY <2>2, <2>5, <3>1, <3>4 DEF Closed
      <3>6. Closed(p.forgotten, p)
        BY <2>2, <2>3, <2>5, <3>1, <3>5 DEF Closed
      <3>7. QED  BY <3>2, <3>3, <3>6 DEF Mergeable
    <2>6. QED  BY <1>u, <2>1, <2>4, <2>5
  <1>3. ASSUME NEW d \in Device, FinishForget(d)
        PROVE  ForgottenLineage' /\ NoDivergence'
    <2> DEFINE S == client[d].versions
               p == [store[d] EXCEPT !.forgotten = @ \cup S]
    <2>1. store' = [store EXCEPT ![d] = p] /\ raced' = raced
      BY <1>3 DEF FinishForget, Change
    <2>2. S \subseteq store[d].known /\ (d \notin raced => Closed(S, store[d]))
      BY <1>3 DEF FinishForget, ClientsSound, Changing
    <2> HIDE DEF S
    <2>3. /\ p.forgotten = store[d].forgotten \cup S /\ p.named = store[d].named
          /\ Corrections(p) = Corrections(store[d])
      BY <1>t, <2>2, Forgotten
    <2> HIDE DEF p
    <2>4. d \notin raced => Mergeable(p) /\ Closed(p.forgotten, p)
      BY <1>g, <2>2, <2>3 DEF Mergeable, Closed
    <2>5. QED  BY <1>u, <2>1, <2>4
  <1>4. ASSUME NEW d \in Device, MergeRevision(d)
        PROVE  ForgottenLineage' /\ NoDivergence'
    <2>1. PICK p \in Profiles :
             /\ store' = [store EXCEPT ![d] = p]
             /\ d \notin raced' => Mergeable(p) /\ Closed(p.forgotten, p)
      <3>1. Typed /\ OperationsSound /\ StoresSound
        BY DEF Inv, Typed
      <3>2. QED  BY <1>4, <3>1, MergeEffect
    <2>2. raced' \in {raced \cup {d}, raced \ {d}}
      BY <1>4, MergeSteps DEF MergeWrites
    <2>3. QED  BY <1>u, <2>1, <2>2
  <1>5. ASSUME NEW d \in Device,
               (\E m \in Memory : BeginCorrect(d, m) \/ BeginForget(d, m)) \/ GiveUp(d)
        PROVE  UNCHANGED <<store, raced>>
    BY <1>5 DEF BeginCorrect, BeginForget, GiveUp, Reads
  <1>6. QED  BY <1>0, <1>1, <1>2, <1>3, <1>4, <1>5, StoreSteps

\* A walk in a store whose corrections are all named leaves out neither the version that
\* one of its versions corrects nor a correction of one.
LEMMA WalkClosed ==
    ASSUME NEW p \in Profiles, Sound(p), Mergeable(p), NEW m
    PROVE  Walk(m, p) \subseteq p.known /\ Closed(Walk(m, p), p)
  <1>1. ASSUME NEW c \in Corrections(p)
        PROVE  c \in Walk(m, p) <=> Corrects[c] \in Walk(m, p)
    <2>1. c \in p.known /\ c \in p.named /\ Corrects[c] \in p.known
      BY DEF Sound, Mergeable, Corrections
    <2>2. \A S : Walked(S, p) => (c \in S <=> Corrects[c] \in S)
      BY <2>1 DEF Walked
    <2>3. QED  BY <2>1, <2>2 DEF Walk
  <1>2. QED  BY <1>1 DEF Closed, Walk

\* What a local program has read holds until it writes, or a merge has overtaken it.
LEMMA ClientsStep ==
    ASSUME Inv, [Next]_vars
    PROVE  ClientsSound'
  <1> USE SyncAssumption
  <1> Typed /\ TypeOK /\ ClientsSound
    BY DEF Inv, Typed
  <1>t. \A d \in Device : store[d] \in Profiles /\ Sound(store[d])
    BY DEF TypeOK, Typed, StoresSound
  <1>k. ASSUME NEW x \in Device, NEW c, Changing(x, c), store'[x] = store[x],
               x \in raced' <=> x \in raced
        PROVE  Changing(x, c)'
    BY <1>k DEF Changing, Closed, Corrections
  <1>u. ASSUME NEW d \in Device, NEW c \in Changes, client' = [client EXCEPT ![d] = c],
               Changing(d, c)', raced' = raced, \A x \in Device \ {d} : store'[x] = store[x]
        PROVE  ClientsSound'
    <2>1. client'[d] = c /\ \A x \in Device \ {d} : client'[x] = client[x]
      BY <1>u DEF TypeOK
    <2>2. ASSUME NEW x \in Device \ {d}
          PROVE  Changing(x, client[x])'
      <3>1. PICK e : e = client[x]
        OBVIOUS
      <3>2. Changing(x, e)'
        BY <1>k, <1>u, <2>2, <3>1 DEF ClientsSound
      <3>3. client'[x] = e
        BY <2>1, <3>1
      <3>4. QED  BY <3>2, <3>3 DEF Changing, Closed, Corrections
    <2>3. Changing(d, client[d])'
      BY <1>u, <2>1 DEF Changing, Closed, Corrections
    <2>4. QED  BY <2>2, <2>3 DEF ClientsSound
  <1>0. CASE UNCHANGED local
    BY <1>0 DEF ClientsSound, Changing, Closed, Corrections
  <1>1. ASSUME NEW d \in Device, NEW m \in Memory, BeginCorrect(d, m)
        PROVE  ClientsSound'
    <2> DEFINE c == [at |-> "correct", versions |-> {m}]
    <2>1. /\ client' = [client EXCEPT ![d] = c] /\ UNCHANGED <<store, raced>>
          /\ Corrects[m] \in store[d].known \ store[d].forgotten
          /\ \A n \in store[d].named : Corrects[n] # Corrects[m]
      BY <1>1 DEF BeginCorrect, Reads
    <2>2. c \in Changes /\ c.at = "correct" /\ c.versions = {m}
      BY DEF Changes
    <2> HIDE DEF c
    <2>q. PICK q : q = c
      OBVIOUS
    <2>3. Changing(d, q)
      BY <2>1, <2>2, <2>q DEF Changing
    <2>4. Changing(d, q)'
      BY <1>k, <2>1, <2>3
    <2>5. QED  BY <1>u, <2>1, <2>2, <2>4, <2>q
  <1>2. ASSUME NEW d \in Device, NEW m \in Memory, BeginForget(d, m)
        PROVE  ClientsSound'
    <2> DEFINE S == Walk(m, store[d])
               c == [at |-> "forget", versions |-> S]
    <2>1. client' = [client EXCEPT ![d] = c] /\ UNCHANGED <<store, raced>>
      BY <1>2 DEF BeginForget, Reads
    <2>2. S \subseteq store[d].known /\ (d \notin raced => Closed(S, store[d]))
      <3>1. S \subseteq store[d].known
        BY DEF Walk
      <3>2. d \notin raced => Mergeable(store[d])
        BY DEF Inv, NoDivergence
      <3>3. QED  BY <1>t, <3>1, <3>2, WalkClosed
    <2>3. S \subseteq Memory
      BY <1>t, <2>2 DEF Profiles
    <2> HIDE DEF S
    <2>4. c \in Changes /\ c.at = "forget" /\ c.versions = S
      BY <2>3 DEF Changes
    <2> HIDE DEF c
    <2>q. PICK q : q = c
      OBVIOUS
    <2>5. Changing(d, q)
      BY <2>2, <2>4, <2>q DEF Changing
    <2>6. Changing(d, q)'
      BY <1>k, <2>1, <2>5
    <2>7. QED  BY <1>u, <2>1, <2>4, <2>6, <2>q
  <1>3. ASSUME NEW d \in Device,
               \/ \E m \in Memory : Remember(d, m)
               \/ FinishCorrect(d) \/ FinishForget(d) \/ GiveUp(d)
        PROVE  ClientsSound'
    <2>1. PICK p : /\ client' = [client EXCEPT ![d] = AtRest] /\ raced' = raced
                   /\ store' = [store EXCEPT ![d] = p] \/ store' = store
      BY <1>3 DEF Remember, FinishCorrect, FinishForget, GiveUp, Change
    <2>2. \A x \in Device \ {d} : store'[x] = store[x]
      BY <2>1 DEF TypeOK
    <2>3. AtRest \in Changes /\ Changing(d, AtRest)'
      BY DEF Changing, AtRest, Changes
    <2>4. QED  BY <1>u, <2>1, <2>2, <2>3
  <1>4. ASSUME NEW d \in Device, MergeRevision(d)
        PROVE  ClientsSound'
    <2>1. /\ client' = client /\ raced' \in {raced \cup {d}, raced \ {d}}
          /\ client[d] # AtRest => d \in raced'
      BY <1>4, MergeSteps DEF MergeWrites, Overlapped
    <2>2. \A x \in Device \ {d} : store'[x] = store[x] /\ (x \in raced' <=> x \in raced)
      BY <1>4, <2>1, MergeSteps DEF MergeWrites, TypeOK
    <2>3. ASSUME NEW x \in Device \ {d}
          PROVE  Changing(x, client[x])'
      <3>1. PICK e : e = client[x]
        OBVIOUS
      <3>2. Changing(x, e)'
        BY <1>k, <2>2, <3>1 DEF ClientsSound
      <3>3. QED  BY <2>1, <3>1, <3>2 DEF Changing, Closed, Corrections
    <2>4. Changing(d, client[d])'
      <3>1. store[d].known \subseteq store'[d].known
        BY StoresTyped DEF Inv
      <3>2. CASE client[d] = AtRest
        BY <2>1, <3>2 DEF Changing, AtRest
      <3>3. CASE client[d] # AtRest
        <4>1. Changing(d, client[d]) /\ d \in raced'
          BY <2>1, <3>3 DEF ClientsSound
        <4>2. QED  BY <2>1, <3>1, <4>1 DEF Changing
      <3>4. QED  BY <3>2, <3>3
    <2>5. QED  BY <2>3, <2>4 DEF ClientsSound
  <1>5. QED  BY <1>0, <1>1, <1>2, <1>3, <1>4, StoreSteps

-----------------------------------------------------------------------------
(* The theorems.                                                            *)

\* The workspace begins with the invariant.
LEMMA InvInit == Init => Inv
  <1> SUFFICES ASSUME Init
               PROVE  Inv
    OBVIOUS
  <1> USE SyncAssumption, NoneAssumption DEF Init
  <1> DEFINE first == {Root, Second} \ {None}
             state == [epoch |-> 1, trusted |-> first, revoked |-> {}, head |-> 0]
             granted == [epoch |-> 1, approver |-> Root, registry |-> first]
  <1>1. first \subseteq Device /\ 1 \in Epochs /\ 0 \in 0..MaxRevision
    BY DEF Epochs
  <1>2. state \in States /\ granted \in Grants /\ Nothing \in Profiles
    BY <1>1 DEF States, Grants, Nothing, Profiles
  <1>3. Idle \in Operations /\ Idle.at = "idle" /\ Idle.upto = 1 /\ Len(Idle.page) = 0
    BY IdleTyped DEF Idle
  <1>c. AtRest \in Changes /\ AtRest.at = "rest"
    BY DEF AtRest, Changes
  <1>4. /\ log \in Seq(Revisions) /\ Len(log) = 0
        /\ rotations \in Seq(Rotations) /\ Len(rotations) = 0
    BY EmptySeq
  <1>5. TypeOK
    <2>1. saved \in [Device -> States \cup {None}] /\ grant \in [Device -> Grants \cup {None}]
      BY <1>2
    <2>2. store \in [Device -> Profiles] /\ op \in [Device -> Operations]
      BY <1>2, <1>3
    <2>3. row \in [Device -> {"absent", "active", "revoked"}]
      OBVIOUS
    <2>4. enrolment \in [Device -> {"none", "waiting", "approved"}]
      OBVIOUS
    <2>5. epoch \in Epochs
      BY <1>1
    <2>6. log \in Seq(Revisions) /\ \A i \in 1..Len(log) : log[i].number = i
      BY <1>4
    <2>7. client \in [Device -> Changes] /\ raced \subseteq Device
      BY <1>c
    <2> HIDE DEF Init
    <2>8. QED  BY <1>4, <2>1, <2>2, <2>3, <2>4, <2>5, <2>6, <2>7 DEF TypeOK
  <1>6. EpochsMatch
    <2>1. \A d \in Device : saved[d] # None => saved[d].epoch = 1
      OBVIOUS
    <2>2. \A d \in Device : grant[d] # None => grant[d].epoch = 1
      OBVIOUS
    <2>3. QED  BY <1>4, <2>1, <2>2 DEF EpochsMatch
  <1>7. LogSound /\ StoresSound /\ RemovedForGood /\ LogGrows /\ RemovedStayBehind /\ WritersActive
    BY <1>4 DEF LogSound, StoresSound, RemovedForGood, LogGrows, RemovedStayBehind,
                WritersActive, Sound, Corrections, Nothing
  <1>8. OperationsSound /\ ClientsSound
    BY <1>3, <1>c DEF OperationsSound, Doing, ClientsSound, Changing
  <1>9. HeadCovered
    <2>1. \A d \in Device : saved[d] # None => saved[d].head = 0
      OBVIOUS
    <2>2. QED  BY <1>4, <2>1 DEF HeadCovered
  <1>10. ForgottenLineage /\ NoDivergence
    BY DEF ForgottenLineage, NoDivergence, Mergeable, Corrections, Nothing
  <1>11. QED  BY <1>5, <1>6, <1>7, <1>8, <1>9, <1>10 DEF Inv, Typed

\* The invariant holds in every reachable state.
LEMMA Invariance == Spec => []Inv
  <1>1. Inv /\ [Next]_vars => Inv'
    <2> SUFFICES ASSUME Inv, [Next]_vars
                 PROVE  Inv'
      OBVIOUS
    <2>1. Typed' /\ OperationsSound'
      BY TypedStep, OperationsStep
    <2>2. HeadCovered' /\ LogGrows' /\ WritersActive'
      BY HeadCoveredStep, LogGrowsStep, WritersActiveStep
    <2>3. /\ RemovedForGood' /\ RemovedStayBehind' /\ ForgottenLineage' /\ NoDivergence'
          /\ ClientsSound'
      BY RemovedStep, StoresStep, ClientsStep
    <2>4. QED  BY <2>1, <2>2, <2>3 DEF Inv
  <1>2. QED  BY InvInit, <1>1, PTL DEF Spec

\* Every reachable state of the server and of the devices is well typed.
THEOREM TypeCorrect == Spec => []TypeOK
  <1>1. Inv => TypeOK
    BY DEF Inv, Typed
  <1>2. QED  BY <1>1, Invariance, PTL

\* A device at a revision has all that the chain holds up to there (apply_revision,
\* acknowledge_revision), whatever messages and processes are lost.
THEOREM NothingSkipped == Spec => []HeadCovered
  <1>1. Inv => HeadCovered
    BY DEF Inv
  <1>2. QED  BY <1>1, Invariance, PTL

\* No published memory or tombstone is missing from a later revision (push_revision).
THEOREM NothingOverwritten == Spec => []LogGrows
  <1>1. Inv => LogGrows
    BY DEF Inv
  <1>2. QED  BY <1>1, Invariance, PTL

\* A removed device holds no key of the epoch its removal began, or of a later one
\* (remove_device_and_rotate_key).
THEOREM RemovedKeepOut == Spec => []RemovedStayBehind
  <1>1. Inv => RemovedStayBehind
    BY DEF Inv
  <1>2. QED  BY <1>1, Invariance, PTL

\* Nothing in the chain was written by a removed device (push_revision).
THEOREM OnlyActiveWrite == Spec => []WritersActive
  <1>1. Inv => WritersActive
    BY DEF Inv
  <1>2. QED  BY <1>1, Invariance, PTL

\* A forgotten memory is forgotten in all its versions on every device whose last merge no
\* local change overlapped, whatever was corrected elsewhere meanwhile, and whatever the
\* races before (_propagate_forgotten_lineages, forget).
THEOREM ForgottenEverywhere == Spec => []ForgottenLineage
  <1>1. Inv => ForgottenLineage
    BY DEF Inv
  <1>2. QED  BY <1>1, Invariance, PTL

\* On the same condition, every version has one correction at most, which it names
\* (_validate_combined_lineage, correct).
THEOREM OneCorrection == Spec => []NoDivergence
  <1>1. Inv => NoDivergence
    BY DEF Inv
  <1>2. QED  BY <1>1, Invariance, PTL

\* When a removal deletes the revisions of the server, a device that remains has all
\* that was in them (_key_rotation).
THEOREM RemovalKeepsAll == Spec => RemovalLosesNothing
  <1>1. ASSUME Inv, [Next]_vars
        PROVE  [epoch' # epoch =>
                  \E d \in Device : /\ row'[d] = "active"
                                    /\ \A i \in 1..Len(log) : Within(log[i].body, store[d])]_vars
    <2> SUFFICES ASSUME epoch' # epoch
                 PROVE  \E d \in Device :
                            /\ row'[d] = "active"
                            /\ \A i \in 1..Len(log) : Within(log[i].body, store[d])
      OBVIOUS
    <2> TypeOK /\ HeadCovered
      BY <1>1 DEF Inv, Typed
    <2>1. PICK d \in Device, t \in Device : Remove(d, t)
      BY <1>1, ChainSteps DEF Push
    <2>2. /\ saved[d] # None /\ saved[d].epoch = epoch /\ saved[d].head = Len(log)
          /\ row[d] = "active" /\ t # d /\ row' = [row EXCEPT ![t] = "revoked"]
      BY <1>1, <2>1, Operating DEF Remove, Pulled, At, Rotates, Registered
    <2>3. row'[d] = "active"
      BY <2>2 DEF TypeOK
    <2>4. \A i \in 1..Len(log) : Within(log[i].body, store[d])
      BY <2>2 DEF HeadCovered
    <2>5. QED  BY <2>3, <2>4
  <1>2. QED  BY <1>1, Invariance, PTL DEF Spec, RemovalLosesNothing

-----------------------------------------------------------------------------
(* Every step is one of SharedProfile.                                      *)

\* A profile within another carries nothing the other does not.
LEMMA FactsWithin ==
    ASSUME NEW p, NEW q, Within(p, q)
    PROVE  Facts(p) \subseteq Facts(q)
  BY DEF Within, Facts

LEMMA FactsTyped ==
    ASSUME NEW p \in Profiles
    PROVE  Facts(p) \subseteq {"known", "forgotten"} \X Memory
  BY DEF Profiles, Facts

\* The removals and the revisions are as many as the server has rows.
LEMMA ChainsMapped ==
    ASSUME NEW S, NEW s \in Seq(S), NEW T, NEW f \in [1..Len(s) -> T]
    PROVE  f \in Seq(T) /\ Len(f) = Len(s)
  <1>1. Len(s) \in Nat
    BY LenProperties
  <1>2. QED  BY <1>1, RowsUpdated

\* One row more on either side keeps the mapping.
LEMMA MappedAppend ==
    ASSUME NEW T, NEW f \in Seq(T), NEW g \in Seq(T), NEW e \in T,
           Len(g) = Len(f) + 1, g[Len(f) + 1] = e, \A i \in 1..Len(f) : g[i] = f[i]
    PROVE  g = Append(f, e)
  <1>1. Len(f) \in Nat
    BY LenProperties
  <1>2. /\ Append(f, e) \in Seq(T) /\ Len(Append(f, e)) = Len(f) + 1
        /\ Append(f, e)[Len(f) + 1] = e /\ \A i \in 1..Len(f) : Append(f, e)[i] = f[i]
    BY AppendProperties
  <1>3. \A i \in 1..Len(g) : i \in 1..Len(f) \/ i = Len(f) + 1
    BY <1>1
  <1>4. \A i \in 1..Len(g) : g[i] = Append(f, e)[i]
    BY <1>2, <1>3
  <1>5. QED  BY <1>2, <1>4, SeqEqual

\* What the abstract variables are.
Mapping ==
    /\ RemovedDevices \in Seq(Device) /\ Len(RemovedDevices) = epoch - 1
    /\ Len(rotations) = epoch - 1
    /\ \A i \in 1..Len(rotations) : RemovedDevices[i] = rotations[i].revoked
    /\ Chain \in Seq(SUBSET ({"known", "forgotten"} \X Memory))
    /\ Len(Chain) = Len(log)
    /\ \A i \in 1..Len(log) : Chain[i] = Facts(log[i].body)
    /\ Shared!Epoch = epoch

LEMMA Mapped == Inv => Mapping
  <1> SUFFICES ASSUME Inv
               PROVE  Mapping
    OBVIOUS
  <1> TypeOK /\ EpochsMatch
    BY DEF Inv, Typed
  <1>1. /\ \A i \in 1..Len(rotations) : rotations[i].revoked \in Device
        /\ \A i \in 1..Len(log) : log[i].body \in Profiles
    BY Sequences DEF Rotations, Revisions
  <1>2. RemovedDevices \in [1..Len(rotations) -> Device]
    BY <1>1 DEF RemovedDevices
  <1>3. Chain \in [1..Len(log) -> SUBSET ({"known", "forgotten"} \X Memory)]
    BY <1>1, FactsTyped DEF Chain
  <1>4. RemovedDevices \in Seq(Device) /\ Len(RemovedDevices) = Len(rotations)
    BY <1>2, ChainsMapped DEF TypeOK
  <1>5. /\ Chain \in Seq(SUBSET ({"known", "forgotten"} \X Memory))
        /\ Len(Chain) = Len(log)
    BY <1>3, ChainsMapped DEF TypeOK
  <1>6. Shared!Epoch = epoch
    BY <1>4, SyncAssumption DEF Shared!Epoch, EpochsMatch, TypeOK, Epochs
  <1>7. QED  BY <1>4, <1>5, <1>6 DEF RemovedDevices, Chain, EpochsMatch, Mapping

\* And after a step.
LEMMA MappedNext == Inv' => Mapping'
  BY Mapped, PTL

\* What one device holds changes with its store.
LEMMA Holding ==
    ASSUME Inv, NEW d \in Device, NEW p \in Profiles, store' = [store EXCEPT ![d] = p]
    PROVE  /\ Facts(p) \in SUBSET ({"known", "forgotten"} \X Memory)
           /\ Holdings' = [Holdings EXCEPT ![d] = Facts(p)]
           /\ Holdings[d] = Facts(store[d])
  <1> DEFINE facts == Facts(p)
  <1>1. facts \in SUBSET ({"known", "forgotten"} \X Memory)
    BY FactsTyped
  <1>2. \A x \in Device : store'[x] = IF x = d THEN p ELSE store[x]
    BY DEF Inv, Typed, TypeOK
  <1>3. /\ Holdings' = [x \in Device |-> Facts(store'[x])]
        /\ Holdings = [x \in Device |-> Facts(store[x])]
    BY DEF Holdings
  <1>4. Holdings'[d] = facts /\ \A x \in Device : x # d => Holdings'[x] = Holdings[x]
    BY <1>2, <1>3
  <1> HIDE DEF facts
  <1>5. Holdings' = [Holdings EXCEPT ![d] = facts]
    BY <1>3, <1>4
  <1>6. QED  BY <1>1, <1>3, <1>5 DEF facts

\* Who has looked, and at what, is seen of the operations that are about to write.
LEMMA LooksKept ==
    ASSUME TypeOK, \A d \in Device : \/ op'[d] = op[d]
                                     \/ op[d].at # "write" /\ op'[d].at # "write"
    PROVE  UNCHANGED <<Merging, Looks>>
  <1>1. \A d \in Device : d \in Merging' <=> d \in Merging
    BY DEF Merging, At
  <1>2. Merging' = Merging
    BY <1>1 DEF Merging
  <1>3. \A d \in Merging : op'[d] = op[d]
    BY DEF Merging, At
  <1>4. QED  BY <1>2, <1>3 DEF Looks

\* They change when a merge begins and when it ends.
LEMMA LookSteps ==
    ASSUME Inv, [Next]_vars
    PROVE  \/ UNCHANGED <<Merging, Looks>>
           \/ \E d \in Device : ReadProfile(d) \/ MergeRevision(d) \/ Abort(d)
  <1> TypeOK
    BY DEF Inv, Typed
  <1>t. op \in [Device -> Operations]
    BY DEF TypeOK
  <1>u. ASSUME NEW d \in Device, NEW o, op' = [op EXCEPT ![d] = o] \/ op' = op,
               op[d].at # "write", o.at # "write"
        PROVE  UNCHANGED <<Merging, Looks>>
    <2>1. \A x \in Device : op'[x] = op[x] \/ (x = d /\ op'[x] = o)
      BY <1>t, <1>u
    <2>2. QED  BY <1>u, <2>1, LooksKept
  <1>i. Idle.at = "idle"
    BY DEF Idle
  <1>0. CASE UNCHANGED op
    BY <1>0, LooksKept
  <1>1. ASSUME NEW d \in Device, Accept(d)
        PROVE  UNCHANGED <<Merging, Looks>>
    <2> DEFINE o == [Idle EXCEPT !.at = "again", !.publishes = TRUE]
    <2>1. op' = [op EXCEPT ![d] = o] /\ op[d].at = "idle"
      BY <1>1 DEF Accept, Begins, At
    <2>2. o.at = "again"
      BY DEF Idle
    <2> HIDE DEF o
    <2>3. QED  BY <1>u, <2>1, <2>2
  <1>2. ASSUME NEW d \in Device, Start(d)
        PROVE  UNCHANGED <<Merging, Looks>>
    <2> DEFINE o == [Idle EXCEPT !.at = "rotations", !.upto = epoch]
    <2>1. op' = [op EXCEPT ![d] = o] /\ op[d].at = "idle"
      BY <1>2 DEF Start, Begins, At
    <2>2. o.at = "rotations"
      BY DEF Idle
    <2> HIDE DEF o
    <2>3. QED  BY <1>u, <2>1, <2>2
  <1>3. ASSUME NEW d \in Device, PullAgain(d)
        PROVE  UNCHANGED <<Merging, Looks>>
    <2>1. PICK o : op' = [op EXCEPT ![d] = o] /\ o = [op[d] EXCEPT !.at = "rotations", !.upto = epoch]
      BY <1>3 DEF PullAgain
    <2>2. op[d].at = "again" /\ o.at = "rotations"
      BY <1>t, <1>3, <2>1 DEF PullAgain, At, Operations
    <2>3. QED  BY <1>u, <2>1, <2>2
  <1>4. ASSUME NEW d \in Device, ApplyRotation(d)
        PROVE  UNCHANGED <<Merging, Looks>>
    <2>1. (op' = [op EXCEPT ![d] = Idle] \/ op' = op) /\ op[d].at = "rotations"
      BY <1>4 DEF ApplyRotation, Fail, At
    <2>2. QED  BY <1>u, <1>i, <2>1
  <1>5. ASSUME NEW d \in Device, ApplyGrants(d)
        PROVE  UNCHANGED <<Merging, Looks>>
    <2>1. PICK o : /\ op' = [op EXCEPT ![d] = o] 
                   /\ o = [op[d] EXCEPT !.at = "grants", !.upto = 1] \/ o = Idle
      BY <1>5 DEF ApplyGrants, Fail
    <2>2. op[d].at = "rotations" /\ o.at # "write"
      BY <1>t, <1>i, <1>5, <2>1 DEF ApplyGrants, At, Operations
    <2>3. QED  BY <1>u, <2>1, <2>2
  <1>6. ASSUME NEW d \in Device, Fetch(d)
        PROVE  UNCHANGED <<Merging, Looks>>
    <2>1. PICK o, page : /\ op' = [op EXCEPT ![d] = o]
                         /\ o = [op[d] EXCEPT !.at = "merge", !.page = page]
      BY <1>6 DEF Fetch
    <2>2. op[d].at = "grants" /\ o.at = "merge"
      BY <1>t, <1>6, <2>1 DEF Fetch, At, Operations
    <2>3. QED  BY <1>u, <2>1, <2>2
  <1>7. ASSUME NEW d \in Device, Prepare(d)
        PROVE  UNCHANGED <<Merging, Looks>>
    <2>1. PICK o, r : /\ op' = [op EXCEPT ![d] = o]
                      /\ o = [op[d] EXCEPT !.at = "push", !.publishes = TRUE, !.draft = r]
      BY <1>7 DEF Prepare
    <2>2. op[d].at = "merge" /\ o.at = "push"
      BY <1>t, <1>7, <2>1 DEF Prepare, Pulled, At, Operations
    <2>3. QED  BY <1>u, <2>1, <2>2
  <1>8. ASSUME NEW d \in Device, PushStale(d)
        PROVE  UNCHANGED <<Merging, Looks>>
    <2>1. PICK o : /\ op' = [op EXCEPT ![d] = o]
                   /\ \/ o = [op[d] EXCEPT !.at = "again", !.retried = TRUE, !.draft = None]
                      \/ o = Idle
      BY <1>8 DEF PushStale
    <2>2. op[d].at = "push" /\ o.at # "write"
      BY <1>t, <1>i, <1>8, <2>1 DEF PushStale, At, Operations
    <2>3. QED  BY <1>u, <2>1, <2>2
  <1>9. ASSUME NEW d \in Device, PullDone(d) \/ Push(d)
        PROVE  UNCHANGED <<Merging, Looks>>
    <2>1. op' = [op EXCEPT ![d] = Idle] /\ op[d].at # "write"
      BY <1>9 DEF PullDone, Pulled, Push, Fail, At
    <2>2. QED  BY <1>u, <1>i, <2>1
  <1>10. ASSUME NEW d \in Device, NEW t \in Device, Remove(d, t)
         PROVE  UNCHANGED <<Merging, Looks>>
    <2> DEFINE o == [Idle EXCEPT !.at = "merge", !.publishes = TRUE]
    <2>1. (op' = [op EXCEPT ![d] = o] \/ op' = [op EXCEPT ![d] = Idle]) /\ op[d].at = "merge"
      BY <1>10 DEF Remove, Pulled, Fail, At
    <2>2. o.at = "merge"
      BY DEF Idle
    <2> HIDE DEF o
    <2>3. QED  BY <1>u, <1>i, <2>1, <2>2
  <1>11. QED
    BY <1>0, <1>1, <1>2, <1>3, <1>4, <1>5, <1>6, <1>7, <1>8, <1>9, <1>10, OperationSteps

\* Where a device is as long as its cursor and its key stay.
PlaceOf(state) == IF state = None THEN [epoch |-> 0, head |-> 0]
                  ELSE [epoch |-> state.epoch, head |-> state.head]

\* The place of a device moves with its saved state.
LEMMA Placing ==
    ASSUME Inv, Inv'
    PROVE  /\ Places = [d \in Device |-> PlaceOf(saved[d])]
           /\ Places' = [d \in Device |-> PlaceOf(saved'[d])]
           /\ \A d \in Device : saved[d] # None =>
                 /\ saved[d] \in States /\ saved[d].epoch \in Nat /\ saved[d].head \in Nat
                 /\ saved[d].epoch >= 1 /\ saved[d].epoch <= epoch
                 /\ PlaceOf(saved[d]) = [epoch |-> saved[d].epoch, head |-> saved[d].head]
  <1>1. Places = [d \in Device |-> PlaceOf(saved[d])]
    BY DEF Places, PlaceOf
  <1>2. Places' = [d \in Device |-> PlaceOf(saved'[d])]
    BY DEF Places, PlaceOf
  <1>3. QED
    BY <1>1, <1>2, SyncAssumption DEF Inv, Typed, TypeOK, EpochsMatch, PlaceOf, States, Epochs

\* Nothing is seen of a step that leaves the chain, the stores, the merges and the places
\* alone.
LEMMA Unseen ==
    ASSUME Inv, Inv', UNCHANGED <<rotations, log, store, Merging, Looks>>,
           \A d \in Device : PlaceOf(saved'[d]) = PlaceOf(saved[d])
    PROVE  UNCHANGED Shared!vars
  <1>1. RemovedDevices' = RemovedDevices /\ Chain' = Chain /\ Holdings' = Holdings
    BY DEF RemovedDevices, Chain, Holdings
  <1>2. Places' = Places
    BY Placing
  <1>3. QED  BY <1>1, <1>2 DEF Shared!vars

\* What a local program writes is gathered: the store has it all and what it had.
LEMMA GatherStep ==
    ASSUME Inv, NEW d \in Device, NEW p \in Profiles, Within(store[d], p),
           store' = [store EXCEPT ![d] = p],
           UNCHANGED <<rotations, log, saved, Merging, Looks>>
    PROVE  Shared!Gather(d)
  <1> DEFINE facts == Facts(p)
  <1>1. RemovedDevices' = RemovedDevices /\ Chain' = Chain /\ Places' = Places
    BY DEF RemovedDevices, Chain, Places
  <1>2. /\ facts \in SUBSET ({"known", "forgotten"} \X Memory)
        /\ Holdings' = [Holdings EXCEPT ![d] = facts]
    BY Holding
  <1>3. Facts(store[d]) \subseteq facts
    BY FactsWithin
  <1>6. Holdings[d] = Facts(store[d])
    BY Holding
  <1> HIDE DEF facts
  <1>4. Holdings[d] \cup facts = facts
    BY <1>3, <1>6
  <1>5. QED  BY <1>1, <1>2, <1>4 DEF Shared!Gather

\* A merge that reads the store looks.
LEMMA LookStep ==
    ASSUME Inv, NEW d \in Device, ReadProfile(d), ~Fail(d)
    PROVE  Shared!Look(d)
  <1> TypeOK
    BY DEF Inv, Typed
  <1> DEFINE p == store[d]
             o == [op[d] EXCEPT !.at = "write", !.seen = p]
  <1>1. /\ op' = [op EXCEPT ![d] = o] /\ op[d].at = "merge"
        /\ UNCHANGED <<rotations, log, store, saved>>
    BY DEF ReadProfile, At, server
  <1>2. op[d] \in Operations /\ saved[d] # None /\ saved[d] \in States
    BY <1>1, Operating
  <1>3. o.at = "write" /\ o.seen = p
    BY <1>2 DEF Operations
  <1> HIDE DEF o
  <1>4. op'[d] = o /\ \A x \in Device : x # d => op'[x] = op[x]
    BY <1>1 DEF TypeOK
  <1>5. d \notin Merging /\ Merging' = Merging \cup {d}
    BY <1>1, <1>3, <1>4 DEF Merging, At
  <1>6. Looks' = [Looks EXCEPT ![d] = Holdings[d]]
    <2>1. Holdings[d] = Facts(p) /\ Looks'[d] = Facts(p)
      BY <1>3, <1>4, <1>5 DEF Holdings, Looks
    <2>2. \A x \in Device : x # d => Looks'[x] = Looks[x]
      BY <1>4, <1>5 DEF Looks
    <2>3. Looks = [x \in Device |-> Looks[x]] /\ Looks' = [x \in Device |-> Looks'[x]]
      BY DEF Looks
    <2> HIDE DEF p
    <2>4. QED  BY <2>1, <2>2, <2>3
  <1>7. Places[d].epoch # 0
    BY <1>2, SyncAssumption DEF Places, States, Epochs
  <1>8. UNCHANGED <<RemovedDevices, Chain, Holdings, Places>>
    BY <1>1 DEF RemovedDevices, Chain, Holdings, Places
  <1>9. QED  BY <1>5, <1>6, <1>7, <1>8 DEF Shared!Look

\* Whatever ends a merge, what it had seen is of no more interest.
LEMMA Forgoing ==
    ASSUME TypeOK, NEW d \in Device, op[d].at = "write", NEW o, op' = [op EXCEPT ![d] = o],
           o.at # "write"
    PROVE  d \in Merging /\ Shared!Forgo(d)
  <1>1. op'[d] = o /\ \A x \in Device : x # d => op'[x] = op[x]
    BY DEF TypeOK
  <1>2. d \in Merging /\ Merging' = Merging \ {d}
    BY <1>1 DEF Merging, At
  <1>3. Looks'[d] = {} /\ \A x \in Device : x # d => Looks'[x] = Looks[x]
    BY <1>1, <1>2 DEF Looks
  <1>4. Looks = [x \in Device |-> Looks[x]] /\ Looks' = [x \in Device |-> Looks'[x]]
    BY DEF Looks
  <1>5. Looks' = [Looks EXCEPT ![d] = {}]
    BY <1>3, <1>4
  <1>6. QED  BY <1>2, <1>5 DEF Shared!Forgo

\* An operation that ends before it writes has looked in vain.
LEMMA LookAwayStep ==
    ASSUME Inv, NEW d \in Device, Abort(d), op[d].at = "write"
    PROVE  Shared!LookAway(d)
  <1> TypeOK
    BY DEF Inv, Typed
  <1>1. op' = [op EXCEPT ![d] = Idle] /\ UNCHANGED <<rotations, log, store, saved>>
    BY DEF Abort, Fail, server
  <1>2. Idle.at # "write"
    BY DEF Idle
  <1>3. d \in Merging /\ Shared!Forgo(d)
    BY <1>1, <1>2, Forgoing
  <1>4. UNCHANGED <<RemovedDevices, Chain, Holdings, Places>>
    BY <1>1 DEF RemovedDevices, Chain, Holdings, Places
  <1>5. QED  BY <1>3, <1>4 DEF Shared!LookAway

\* A merge that writes takes the next revision of the chain, whatever local programs did
\* since it read; its cursor may not be saved.
LEMMA TakeStep ==
    ASSUME Inv, Inv', NEW d \in Device, MergeRevision(d)
    PROVE  Shared!Take(d)
  <1> DEFINE r == Head(op[d].page)
             s == op[d].seen
  <1> TypeOK
    BY DEF Inv, Typed
  <1>1. /\ UNCHANGED <<epoch, log, rotations>> /\ op[d].at = "write"
        /\ saved' = saved \/ saved' = [saved EXCEPT ![d].head = r.number]
    BY MergeSteps DEF server, CursorMoves
  <1>2. /\ saved[d] \in States /\ saved[d] # None /\ Applies(saved[d], r)
        /\ op[d].page # <<>> /\ op[d] \in Operations
    BY <1>1, Operating DEF Writing
  <1>3. r \in Revisions /\ Fetched(r)
    BY <1>2, PageParts, Operating
  <1>4. PICK p \in Profiles : /\ store' = [store EXCEPT ![d] = p]
                              /\ Within(s, p) /\ Within(r.body, p) /\ store[d].known \subseteq p.known
    BY MergeEffect DEF Inv, Typed
  <1>5. d \in Merging /\ Shared!Forgo(d)
    <2> DEFINE n == [op[d] EXCEPT !.at = "merge", !.page = Tail(op[d].page), !.seen = Nothing]
    <2>1. CASE NextRevision(d)
      <3>1. op' = [op EXCEPT ![d] = n]
        BY <2>1 DEF NextRevision
      <3>2. n.at # "write"
        BY <1>2 DEF Operations
      <3> HIDE DEF n
      <3>3. QED  BY <1>1, <3>1, <3>2, Forgoing
    <2>2. CASE Fail(d)
      <3>1. op' = [op EXCEPT ![d] = Idle] /\ Idle.at # "write"
        BY <2>2 DEF Fail, Idle
      <3>2. QED  BY <1>1, <3>1, Forgoing
    <2>3. QED  BY <2>1, <2>2, MergeSteps
  <1>6. /\ r.number = saved[d].head + 1 /\ r.epoch = saved[d].epoch
    BY <1>2 DEF Applies
  <1>7. Places[d] = [epoch |-> saved[d].epoch, head |-> saved[d].head]
    BY <1>2, Placing
  <1>8. Places' \in {Places, [Places EXCEPT ![d].head = Places[d].head + 1]}
    <2>1. CASE saved' = saved
      BY <2>1, Placing
    <2>2. CASE saved' = [saved EXCEPT ![d].head = r.number]
      <3> DEFINE e == saved[d].epoch
                 h == saved[d].head
      <3>1. saved'[d] = [saved[d] EXCEPT !.head = h + 1]
        BY <1>6, <2>2 DEF TypeOK
      <3>2. saved'[d] # None
        <4>1. r.number \in 0..MaxRevision
          BY <1>3 DEF Fetched, Revisions
        <4>2. saved'[d] \in States
          BY <1>2, <1>6, <3>1, <4>1 DEF States
        <4>3. QED  BY <4>2, NoneAssumption
      <3>3. saved'[d].epoch = e /\ saved'[d].head = h + 1
        BY <1>2, <3>1 DEF States
      <3>4. Places'[d] = [epoch |-> e, head |-> h + 1]
        BY <3>2, <3>3, Placing DEF PlaceOf
      <3>5. \A x \in Device : x # d => Places'[x] = Places[x]
        BY <2>2, Placing DEF TypeOK
      <3>6. Places = [x \in Device |-> Places[x]] /\ Places' = [x \in Device |-> Places'[x]]
        BY Placing
      <3>7. Places[d] = [epoch |-> e, head |-> h]
        BY <1>7
      <3> HIDE DEF e, h
      <3>8. QED  BY <3>4, <3>5, <3>6, <3>7
    <2>3. QED  BY <1>1, <2>1, <2>2
  <1> DEFINE facts == Facts(p)
  <1>9. /\ facts \in SUBSET ({"known", "forgotten"} \X Memory)
        /\ Holdings' = [Holdings EXCEPT ![d] = facts] /\ Holdings[d] = Facts(store[d])
    BY <1>4, Holding
  <1>10. Looks[d] \subseteq facts
    BY <1>4, <1>5, FactsWithin DEF Looks
  <1>11. Holdings[d] \ Tombstones \subseteq facts
    <2>1. store[d].forgotten \subseteq Memory
      BY DEF TypeOK, Profiles
    <2>2. QED  BY <1>4, <1>9, <2>1 DEF Facts, Tombstones
  <1>12. ASSUME Places[d].epoch = Shared!Epoch
         PROVE  Places[d].head < Len(Chain) /\ Chain[Places[d].head + 1] \subseteq facts
    <2>1. r.epoch = epoch
      BY <1>6, <1>7, <1>12, Mapped DEF Mapping
    <2>2. r.number <= Len(log) /\ log[r.number] = r
      BY <1>3, <2>1 DEF Fetched
    <2>3. r.number \in 1..Len(log) /\ saved[d].head \in Nat /\ Len(log) \in Nat
      BY <1>2, <1>3, <2>2, Sequences, SyncAssumption DEF Revisions, States
    <2>4. Chain[r.number] = Facts(r.body) /\ Len(Chain) = Len(log)
      BY <2>2, <2>3, Mapped DEF Mapping
    <2>5. Chain[r.number] \subseteq facts
      BY <1>4, <2>4, FactsWithin
    <2>6. Places[d].head = saved[d].head
      BY <1>7
    <2> HIDE DEF facts
    <2>7. QED  BY <1>6, <2>3, <2>4, <2>5, <2>6
  <1>13. UNCHANGED <<RemovedDevices, Chain>>
    BY <1>1 DEF RemovedDevices, Chain
  <1> HIDE DEF facts, r, s
  <1>14. QED
    BY <1>5, <1>8, <1>9, <1>10, <1>11, <1>12, <1>13 DEF Shared!Take

\* A push extends the chain by what the device holds, and by all that it extends.
LEMMA PublishStep ==
    ASSUME Inv, Inv', [Next]_vars, NEW d \in Device, Push(d),
           UNCHANGED <<Merging, Looks>>
    PROVE  Shared!Publish(d)
  <1> DEFINE r == op[d].draft
  <1> TypeOK /\ RemovedForGood
    BY DEF Inv, Typed
  <1>1. /\ r \in Revisions /\ r.number = Len(log) + 1
        /\ store' = store /\ row[d] = "active" /\ saved[d] # None
        /\ Len(log') = Len(log) + 1 /\ log'[Len(log) + 1] = r
        /\ \A i \in 1..Len(log) : log'[i] = log[i]
    BY Pushed
  <1>2. /\ rotations' = rotations
        /\ saved' = saved \/ saved' = [saved EXCEPT ![d].head = r.number]
    BY DEF Push
  <1>3. /\ saved[d].epoch = epoch /\ saved[d].head = Len(log) /\ Len(log) \in Nat
        /\ Within(r.body, store[d]) /\ r.body \in Profiles /\ store[d] \in Profiles
        /\ \A i \in 1..Len(log) : Within(log[i].body, r.body)
    BY <1>1, Pushed, Sequences DEF Revisions, TypeOK
  <1>4. Shared!Member(d)
    <2>1. \A i \in 1..Len(rotations) : rotations[i].revoked # d
      BY <1>1 DEF RemovedForGood
    <2>2. Len(RemovedDevices) = Len(rotations)
      BY Mapped DEF Mapping
    <2>3. QED  BY <2>1, <2>2, Mapped DEF Mapping, Shared!Member
  <1>5. Places[d] = [epoch |-> epoch, head |-> Len(log)]
    BY <1>1, <1>3, Placing DEF PlaceOf
  <1>6. Shared!AtEnd(d)
    BY <1>5, Mapped DEF Shared!AtEnd, Mapping
  <1>7. Facts(r.body) \in SUBSET Holdings[d]
    BY <1>3, FactsWithin DEF Holdings
  <1>8. \A i \in 1..Len(Chain) : Chain[i] \subseteq Facts(r.body)
    BY <1>3, FactsWithin, Mapped DEF Mapping
  <1>9. Chain' = Append(Chain, Facts(r.body))
    <2> DEFINE T == SUBSET ({"known", "forgotten"} \X Memory)
    <2>1. Chain \in Seq(T) /\ Chain' \in Seq(T) /\ Facts(r.body) \in T
      BY <1>3, Mapped, MappedNext, FactsTyped DEF Mapping
    <2>2. Len(Chain) = Len(log) /\ Len(Chain') = Len(log')
      BY Mapped, MappedNext DEF Mapping
    <2>3. Len(log) + 1 \in 1..Len(log') /\ \A i \in 1..Len(log) : i \in 1..Len(log')
      BY <1>1, <1>3
    <2>4. \A i \in 1..Len(log') : Chain'[i] = Facts(log'[i].body)
      BY MappedNext DEF Mapping
    <2>5. Chain'[Len(Chain) + 1] = Facts(r.body)
      BY <1>1, <2>2, <2>3, <2>4
    <2>6. \A i \in 1..Len(Chain) : Chain'[i] = Chain[i]
      <3>1. \A i \in 1..Len(log) : Chain[i] = Facts(log[i].body)
        BY Mapped DEF Mapping
      <3>2. QED  BY <1>1, <2>2, <2>3, <2>4, <3>1
    <2> HIDE DEF T
    <2>7. QED  BY <1>1, <2>1, <2>2, <2>5, <2>6, MappedAppend
  <1>10. Places' \in {Places, [Places EXCEPT ![d].head = Places[d].head + 1]}
    <2>1. CASE saved' = saved
      BY <2>1, Placing
    <2>2. CASE saved' = [saved EXCEPT ![d].head = r.number]
      <3> DEFINE h == Len(log)
      <3>1. saved[d] \in States /\ saved'[d] = [saved[d] EXCEPT !.head = h + 1]
        BY <1>1, <2>2, Placing DEF TypeOK
      <3>2. saved'[d] # None
        BY <1>1, SavedTyped DEF Inv
      <3>3. saved'[d].epoch = epoch /\ saved'[d].head = h + 1
        BY <1>3, <3>1 DEF States
      <3>4. Places'[d] = [epoch |-> epoch, head |-> h + 1]
        BY <3>2, <3>3, Placing DEF PlaceOf
      <3>5. \A x \in Device : x # d => Places'[x] = Places[x]
        BY <2>2, Placing DEF TypeOK
      <3>6. Places = [x \in Device |-> Places[x]] /\ Places' = [x \in Device |-> Places'[x]]
        BY Placing
      <3> HIDE DEF h
      <3>7. QED  BY <1>5, <3>4, <3>5, <3>6 DEF h
    <2>3. QED  BY <1>2, <2>1, <2>2
  <1>11. RemovedDevices' = RemovedDevices /\ Holdings' = Holdings
    BY <1>1, <1>2 DEF RemovedDevices, Holdings
  <1> HIDE DEF r
  <1>12. QED  BY <1>4, <1>6, <1>7, <1>8, <1>9, <1>10, <1>11 DEF Shared!Publish

\* One device is moved, the others stay where they are.
LEMMA Moved ==
    ASSUME Inv, Inv', NEW d \in Device, NEW e, saved'[d] # None,
           saved'[d].epoch = e, saved'[d].head = 0,
           \A x \in Device : x # d => saved'[x] = saved[x]
    PROVE  Places' = [Places EXCEPT ![d] = Shared!Start(e)]
  <1>1. Places'[d] = Shared!Start(e)
    BY Placing DEF PlaceOf, Shared!Start
  <1>2. \A x \in Device : x # d => Places'[x] = Places[x]
    BY Placing
  <1>3. Places = [x \in Device |-> Places[x]] /\ Places' = [x \in Device |-> Places'[x]]
    BY Placing
  <1>4. QED  BY <1>1, <1>2, <1>3

\* A removal begins an epoch, at the end of the chain.
LEMMA RemoveStep ==
    ASSUME Inv, Inv', [Next]_vars, NEW d \in Device, NEW t \in Device, Remove(d, t),
           UNCHANGED <<Merging, Looks>>
    PROVE  Shared!Remove(d, t)
  <1> DEFINE r == [revoked |-> t, initiator |-> d, active |-> Remaining(d, t)]
  <1> TypeOK /\ RemovedForGood /\ EpochsMatch
    BY DEF Inv, Typed
  <1>1. /\ saved[d] # None /\ saved[d] \in States /\ saved[d].epoch = epoch
        /\ saved[d].head = Len(log)
        /\ row[d] = "active" /\ row[t] = "active" /\ t # d
        /\ rotations' = Append(rotations, r) /\ store' = store /\ log' = <<>>
        /\ saved' = saved \/ saved' = [saved EXCEPT ![d] = Rotated(saved[d], t)]
    BY Operating DEF Remove, Pulled, At, Rotates, Registered
  <1>2. r \in Rotations
    BY <1>1 DEF Rotations, Remaining, Active, States
  <1>3. /\ Len(rotations') = Len(rotations) + 1
        /\ rotations'[Len(rotations) + 1] = r
        /\ \A i \in 1..Len(rotations) : rotations'[i] = rotations[i]
    BY <1>1, <1>2, RowInserted, RowsTyped DEF TypeOK
  <1>4. ASSUME NEW x \in Device, row[x] = "active"
        PROVE  Shared!Member(x)
    <2>1. \A i \in 1..Len(rotations) : rotations[i].revoked # x
      BY <1>4 DEF RemovedForGood
    <2>2. QED  BY <2>1, Mapped DEF Mapping, Shared!Member
  <1>5. Shared!AtEnd(d)
    BY <1>1, Placing, Mapped DEF Shared!AtEnd, Mapping
  <1>6. RemovedDevices' = Append(RemovedDevices, t)
    <2>1. /\ RemovedDevices \in Seq(Device) /\ RemovedDevices' \in Seq(Device)
          /\ Len(RemovedDevices) = Len(rotations) /\ Len(RemovedDevices') = Len(rotations')
          /\ \A i \in 1..Len(rotations) : RemovedDevices[i] = rotations[i].revoked
          /\ \A i \in 1..Len(rotations') : RemovedDevices'[i] = rotations'[i].revoked
          /\ Len(rotations) \in Nat
      BY Mapped, MappedNext, Sequences DEF Mapping
    <2>2. \A i \in 1..Len(rotations) : i \in 1..Len(rotations')
      BY <1>3, <2>1
    <2>3. Len(rotations) + 1 \in 1..Len(rotations')
      BY <1>3, <2>1
    <2>4. RemovedDevices'[Len(rotations) + 1] = t
      BY <1>3, <2>1, <2>3
    <2>5. \A i \in 1..Len(RemovedDevices) : RemovedDevices'[i] = RemovedDevices[i]
      BY <1>3, <2>1, <2>2
    <2>6. QED  BY <1>3, <2>1, <2>4, <2>5, MappedAppend
  <1>7. Chain' = <<>>
    <2>1. Len(Chain') = 0 /\ Chain' \in Seq(SUBSET ({"known", "forgotten"} \X Memory))
      BY <1>1, EmptySeq, MappedNext DEF Mapping
    <2>2. QED  BY <2>1, EmptySeq
  <1>8. Places' \in {Places, [Places EXCEPT ![d] = Shared!Start(Shared!Epoch + 1)]}
    <2>1. CASE saved' = saved
      BY <2>1, Placing
    <2>2. CASE saved' = [saved EXCEPT ![d] = Rotated(saved[d], t)]
      <3>1. saved'[d].epoch = epoch + 1 /\ saved'[d].head = 0
        BY <1>1, <2>2 DEF TypeOK, Rotated, States
      <3>2. saved'[d] # None
        BY <1>1, SavedTyped DEF Inv
      <3>3. \A x \in Device : x # d => saved'[x] = saved[x]
        BY <2>2 DEF TypeOK
      <3>4. QED  BY <3>1, <3>2, <3>3, Moved, Mapped DEF Mapping
    <2>3. QED  BY <1>1, <2>1, <2>2
  <1>9. Holdings' = Holdings
    BY <1>1 DEF Holdings
  <1>10. Shared!Member(d) /\ Shared!Member(t)
    BY <1>1, <1>4
  <1> HIDE DEF r
  <1>11. QED  BY <1>1, <1>5, <1>6, <1>7, <1>8, <1>9, <1>10 DEF Shared!Remove

\* A device that is let in enters with an epoch it may hold the key of.
LEMMA EnterStep ==
    ASSUME Inv, Inv', [Next]_vars, NEW d \in Device, Accept(d),
           UNCHANGED <<Merging, Looks>>
    PROVE  Shared!Enter(d)
  <1> TypeOK /\ EpochsMatch /\ RemovedStayBehind'
    BY DEF Inv, Typed
  <1> DEFINE e == grant[d].epoch
  <1>1. /\ saved[d] = None /\ enrolment[d] = "approved"
        /\ saved' = [saved EXCEPT ![d] = [epoch |-> grant[d].epoch, trusted |-> grant[d].registry,
                                          revoked |-> {}, head |-> 0]]
        /\ UNCHANGED <<log, rotations, store>>
    BY DEF Accept
  <1>2. grant[d] # None /\ grant[d] \in Grants /\ e \in Epochs /\ e <= epoch
    BY <1>1 DEF EpochsMatch, TypeOK, Grants
  <1>3. /\ saved'[d].epoch = e /\ saved'[d].head = 0
        /\ \A x \in Device : x # d => saved'[x] = saved[x]
    BY <1>1 DEF TypeOK
  <1>4. saved'[d] # None
    <2>1. saved'[d] = [epoch |-> e, trusted |-> grant[d].registry, revoked |-> {}, head |-> 0]
      BY <1>1 DEF TypeOK
    <2>2. saved'[d] \in States
      BY <1>2, <2>1, SyncAssumption DEF Grants, States
    <2>3. QED  BY <2>2, NoneAssumption
  <1>5. Places[d].epoch = 0
    BY <1>1, Placing DEF PlaceOf
  <1>6. Places' = [Places EXCEPT ![d] = Shared!Start(e)]
    BY <1>3, <1>4, Moved
  <1>7. e \in 1..Shared!Epoch
    BY <1>2, Mapped, SyncAssumption DEF Mapping, Epochs, TypeOK
  <1>8. ASSUME NEW i \in 1..e - 1
        PROVE  RemovedDevices[i] # d
    <2>1. i \in 1..Len(rotations) /\ ~ (e <= i)
      BY <1>2, SyncAssumption DEF EpochsMatch, Epochs, TypeOK
    <2>2. rotations'[i].revoked # d
      BY <1>1, <1>3, <1>4, <2>1 DEF RemovedStayBehind
    <2>3. QED  BY <1>1, <2>1, <2>2, Mapped DEF Mapping
  <1>9. RemovedDevices' = RemovedDevices /\ Chain' = Chain /\ Holdings' = Holdings
    BY <1>1 DEF RemovedDevices, Chain, Holdings
  <1> HIDE DEF e
  <1>10. QED  BY <1>5, <1>6, <1>7, <1>8, <1>9 DEF Shared!Enter

\* A rotation that a device accepts takes it to the next epoch, and is not its removal.
LEMMA FollowStep ==
    ASSUME Inv, Inv', [Next]_vars, NEW d \in Device, ApplyRotation(d), saved' # saved,
           UNCHANGED <<Merging, Looks>>
    PROVE  Shared!Follow(d)
  <1> TypeOK /\ EpochsMatch
    BY DEF Inv, Typed
  <1> DEFINE e == saved[d].epoch
             r == rotations[e]
  <1>1. /\ At(d, "rotations") /\ e < op[d].upto /\ Follows(saved[d], r) /\ d \in r.active
        /\ saved' = [saved EXCEPT ![d] = Rotated(saved[d], r.revoked)]
        /\ UNCHANGED <<log, rotations, store>>
    BY DEF ApplyRotation, server
  <1>2. /\ saved[d] # None /\ saved[d] \in States /\ op[d].upto <= epoch
        /\ op[d].upto \in Nat /\ e \in Nat /\ e >= 1 /\ epoch \in Nat
    BY <1>1, Operating, Placing, SyncAssumption DEF At, Operations, Epochs, TypeOK
  <1>3. e \in 1..Len(rotations)
    BY <1>1, <1>2 DEF EpochsMatch
  <1>4. r.revoked # d
    BY <1>1 DEF Follows
  <1>5. /\ saved'[d].epoch = e + 1 /\ saved'[d].head = 0
        /\ \A x \in Device : x # d => saved'[x] = saved[x]
    BY <1>1, <1>2 DEF TypeOK, Rotated, States
  <1>6. saved'[d] # None
    BY <1>2, SavedTyped DEF Inv
  <1>7. Places[d].epoch = e
    <2>1. Places[d] = [epoch |-> saved[d].epoch, head |-> saved[d].head]
      BY <1>2, Placing
    <2>2. QED  BY <2>1
  <1>8. Places' = [Places EXCEPT ![d] = Shared!Start(e + 1)]
    BY <1>5, <1>6, Moved
  <1>9. e \in 1..Len(RemovedDevices) /\ RemovedDevices[e] # d
    BY <1>3, <1>4, Mapped DEF Mapping
  <1>10. RemovedDevices' = RemovedDevices /\ Chain' = Chain /\ Holdings' = Holdings
    BY <1>1 DEF RemovedDevices, Chain, Holdings
  <1> HIDE DEF e
  <1>11. QED  BY <1>7, <1>8, <1>9, <1>10 DEF Shared!Follow

\* What devices are trusted is not seen.
LEMMA TrustUnseen ==
    ASSUME Inv, Inv', [Next]_vars, NEW d \in Device, NEW T, saved[d] # None,
           saved' = [saved EXCEPT ![d].trusted = T],
           UNCHANGED <<rotations, log, store, Merging, Looks>>
    PROVE  UNCHANGED Shared!vars
  <1> TypeOK
    BY DEF Inv, Typed
  <1>1. saved[d] \in States /\ saved'[d] = [saved[d] EXCEPT !.trusted = T] /\ saved'[d] # None
    BY SavedTyped DEF TypeOK, Inv
  <1>2. saved'[d].epoch = saved[d].epoch /\ saved'[d].head = saved[d].head
    BY <1>1 DEF States
  <1>3. \A x \in Device : x # d => saved'[x] = saved[x]
    BY DEF TypeOK
  <1>4. \A x \in Device : PlaceOf(saved'[x]) = PlaceOf(saved[x])
    BY <1>1, <1>2, <1>3 DEF PlaceOf
  <1>5. QED  BY <1>4, Unseen

\* A step of another kind than a merge is one of the shared profile, or is not seen.
LEMMA OtherSteps ==
    ASSUME Inv, Inv', [Next]_vars, UNCHANGED <<Merging, Looks>>,
           ~\E d \in Device : ReadProfile(d) \/ MergeRevision(d) \/ Abort(d)
    PROVE  [Shared!Next]_(Shared!vars)
  <1> TypeOK
    BY DEF Inv, Typed
  <1>u. ASSUME UNCHANGED <<rotations, log, store, saved>>
        PROVE  UNCHANGED Shared!vars
    BY <1>u, Unseen
  <1>1. ASSUME NEW d \in Device,
               \/ \E m \in Memory : Remember(d, m)
               \/ FinishCorrect(d) \/ FinishForget(d)
        PROVE  Shared!Gather(d)
    <2>1. PICK p : store' = [store EXCEPT ![d] = p] /\ UNCHANGED <<rotations, log, saved>>
      BY <1>1 DEF Remember, FinishCorrect, FinishForget, Change, server
    <2>2. p \in Profiles /\ Within(store[d], p)
      <3>1. store'[d] = p /\ ~MergeRevision(d)
        BY <2>1 DEF TypeOK
      <3>2. QED  BY <3>1, StoresTyped DEF Inv
    <2>3. QED  BY <2>1, <2>2, GatherStep
  <1>b. ASSUME NEW d \in Device,
               (\E m \in Memory : BeginCorrect(d, m) \/ BeginForget(d, m)) \/ GiveUp(d)
        PROVE  UNCHANGED Shared!vars
    BY <1>b, <1>u DEF BeginCorrect, BeginForget, GiveUp, Reads, server
  <1>2. ASSUME NEW a \in Device, NEW d \in Device, Approve(a, d)
        PROVE  UNCHANGED Shared!vars
    <2>1. /\ saved[a] # None /\ UNCHANGED <<rotations, log, store>>
          /\ saved' = [saved EXCEPT ![a].trusted = @ \cup {d}] \/ saved' = saved
      BY <1>2 DEF Approve
    <2>2. QED  BY <1>u, <2>1, TrustUnseen
  <1>3. ASSUME NEW d \in Device, ApplyGrants(d)
        PROVE  UNCHANGED Shared!vars
    <2>1. /\ saved[d] # None /\ UNCHANGED <<rotations, log, store>>
          /\ \/ saved' = [saved EXCEPT ![d].trusted = Reach(saved[d].trusted)]
             \/ saved' = saved
      BY <1>3, Operating DEF ApplyGrants, At, server
    <2>2. QED  BY <1>u, <2>1, TrustUnseen
  <1>4. ASSUME NEW d \in Device, ApplyRotation(d)
        PROVE  Shared!Follow(d) \/ UNCHANGED Shared!vars
    <2>1. UNCHANGED <<rotations, log, store>>
      BY <1>4 DEF ApplyRotation, server
    <2>2. QED  BY <1>4, <1>u, <2>1, FollowStep
  <1>5. ASSUME NEW d \in Device,
               \/ Request(d) \/ EndEnrolment(d) \/ Start(d) \/ PullAgain(d) \/ Fetch(d)
               \/ PullDone(d) \/ Prepare(d) \/ PushStale(d)
        PROVE  UNCHANGED Shared!vars
    BY <1>5, <1>u DEF Request, EndEnrolment, Start, PullAgain, Fetch, PullDone, Prepare,
                      PushStale, server
  <1>6. CASE Next
    <2>1. \/ \E d \in Device : \/ Shared!Gather(d) \/ Shared!Publish(d)
                               \/ Shared!Enter(d) \/ Shared!Follow(d)
          \/ \E d, t \in Device : Shared!Remove(d, t)
          \/ UNCHANGED Shared!vars
      BY <1>1, <1>b, <1>2, <1>3, <1>4, <1>5, <1>6, NextCases, PublishStep, EnterStep, RemoveStep
    <2>2. QED  BY <2>1 DEF Shared!Next
  <1>7. CASE UNCHANGED vars
    BY <1>7, <1>u DEF vars
  <1>8. QED  BY <1>6, <1>7

\* Every step is one of the shared profile, or is not seen.
LEMMA SharedStep ==
    ASSUME Inv, Inv', [Next]_vars
    PROVE  [Shared!Next]_(Shared!vars)
  <1> TypeOK
    BY DEF Inv, Typed
  <1>1. ASSUME NEW d \in Device, ReadProfile(d) \/ Abort(d), Fail(d), op[d].at # "write"
        PROVE  UNCHANGED Shared!vars
    <2>1. op' = [op EXCEPT ![d] = Idle] /\ Idle.at # "write"
      BY <1>1 DEF Fail, Idle
    <2>2. \A x \in Device : \/ op'[x] = op[x]
                            \/ op[x].at # "write" /\ op'[x].at # "write"
      BY <1>1, <2>1 DEF TypeOK
    <2>3. UNCHANGED <<rotations, log, store, saved>>
      BY <1>1 DEF ReadProfile, Abort, server
    <2>4. UNCHANGED <<Merging, Looks>>
      BY <2>2, LooksKept
    <2>5. QED  BY <2>3, <2>4, Unseen
  <1>2. ASSUME NEW d \in Device, ReadProfile(d) \/ MergeRevision(d) \/ Abort(d)
        PROVE  \/ Shared!Look(d) \/ Shared!Take(d) \/ Shared!LookAway(d)
               \/ UNCHANGED Shared!vars
    <2>1. CASE ReadProfile(d)
      BY <1>1, <2>1, LookStep DEF ReadProfile, At
    <2>2. CASE MergeRevision(d)
      BY <2>2, TakeStep
    <2>3. CASE Abort(d)
      BY <1>1, <2>3, LookAwayStep DEF Abort
    <2>4. QED  BY <1>2, <2>1, <2>2, <2>3
  <1>3. CASE \E d \in Device : ReadProfile(d) \/ MergeRevision(d) \/ Abort(d)
    BY <1>2, <1>3 DEF Shared!Next
  <1>4. CASE ~\E d \in Device : ReadProfile(d) \/ MergeRevision(d) \/ Abort(d)
    BY <1>4, LookSteps, OtherSteps
  <1>5. QED  BY <1>3, <1>4

\* The devices begin outside, or at the start of the first epoch, with nothing.
LEMMA SharedInit ==
    ASSUME Init
    PROVE  Shared!Init
  <1>1. Inv /\ TypeOK
    BY InvInit DEF Inv, Typed
  <1>2. RemovedDevices = <<>> /\ Chain = <<>>
    <2>1. Len(RemovedDevices) = 0 /\ Len(Chain) = 0
      <3>1. rotations = <<>> /\ log = <<>> /\ epoch = 1
        BY DEF Init
      <3>2. Len(RemovedDevices) = epoch - 1 /\ Len(Chain) = Len(log)
        BY <1>1, Mapped DEF Mapping
      <3>3. QED  BY <3>1, <3>2, EmptySeq
    <2>2. QED  BY <1>1, <2>1, Mapped, EmptySeq DEF Mapping
  <1>3. Holdings = [d \in Device |-> {}]
    BY DEF Init, Holdings, Facts, Nothing
  <1>4. Places \in [Device -> {Shared!Start(0), Shared!Start(1)}]
    <2>1. \A d \in Device : saved[d] # None => saved[d].epoch = 1 /\ saved[d].head = 0
      BY DEF Init
    <2>2. QED  BY <2>1 DEF Places, Shared!Start
  <1>5. Merging = {} /\ Looks = [d \in Device |-> {}]
    <2>1. \A d \in Device : op[d].at = "idle"
      BY DEF Init, Idle
    <2>2. Merging = {}
      BY <2>1 DEF Merging, At
    <2>3. QED  BY <2>2 DEF Looks
  <1>6. QED  BY <1>2, <1>3, <1>4, <1>5 DEF Shared!Init

\* The whole of encrypted sync (cloud_service.py, sync.py, routes_sync.py, the merge of
\* portability.py) implements one shared profile: whatever is lost, retried, interleaved,
\* overtaken by a local program or abandoned, devices walk a chain of ever larger sets of
\* facts one revision at a time, and one loses nothing but a tombstone of its own, put
\* between a merge's reads and its writes.
THEOREM ProfileIsShared == Spec => SharesProfile
  <1>1. Init => Shared!Init
    BY SharedInit
  <1>2. Inv /\ Inv' /\ [Next]_vars => [Shared!Next]_(Shared!vars)
    BY SharedStep
  <1>3. QED  BY <1>1, <1>2, Invariance, PTL DEF Spec, SharesProfile, Shared!Spec
=============================================================================
