--------------------------- MODULE WritePathProofs ---------------------------
(***************************************************************************)
(* What TLAPS proves of WritePath for any number of processes, requests    *)
(* and workers: the type invariant, that an Idempotency-Key stores one     *)
(* memory, that every memory is encrypted under the key on record or under *)
(* one whose creation is open or was rolled back, that an approved write   *)
(* is stored, and that a key on record stays there, destroyed for good.    *)
(***************************************************************************)
EXTENDS WritePath, TableLemmas

-----------------------------------------------------------------------------
(* The inductive invariant.                                                 *)

\* What a handler holds is something the process could have given it: a key that was
\* generated, a held write that exists.
TasksTyped ==
    \A w \in Workers :
        /\ task[w].key \in {NoKey} \cup 1..made
        /\ task[w].review \in {None} \cup DOMAIN pending
        /\ Does(w, "found") \/ Does(w, "keyed") => task[w].key # NoKey
        /\ Does(w, "approving") \/ Does(w, "rejecting") => task[w].review # None

Typed == TypeOK /\ TasksTyped

\* One transaction at a time has flushed a new key, and while it is open the subject
\* has none on record.
OneCreator ==
    \A w \in Creators :
        Does(w, "keyed") /\ subject.key = NoKey /\ \A v \in Creators : v = w

\* The keys that have a creation to show: on record, open, or rolled back.
Known == lost \cup {subject.key} \cup {task[w].key : w \in Creators}

KeysKnown ==
    /\ \A w \in Workers : task[w].key \in {NoKey} \cup Known
    /\ \A p \in Procs : cache[p] \in {NoKey} \cup Known
    /\ \A i \in DOMAIN memory : memory[i].key \in Known

\* A reviewer that is about to record an approval has stored the memory for it.
ApprovingIsStored ==
    \A w \in Workers :
        Does(w, "approving") =>
            /\ task[w].stored \in DOMAIN memory
            /\ memory[task[w].stored].review = task[w].review

Inv ==
    /\ Typed
    /\ OncePerKey
    /\ OneCreator
    /\ KeysKnown
    /\ ApprovingIsStored
    /\ ApprovedIsStored

\* Every step is one of the actions, of some worker or of some process.
LEMMA NextCases ==
    ASSUME Next
    PROVE  \/ \E w \in Workers, r \in Requests : Begin(w, r)
           \/ \E w \in Workers, r \in Requests : Park(w, r)
           \/ \E w \in Workers : \E i \in DOMAIN pending : BeginApprove(w, i)
           \/ \E w \in Workers : \E i \in DOMAIN pending : BeginReject(w, i)
           \/ \E w \in Workers : LookUpKey(w)
           \/ \E w \in Workers : KeyFound(w)
           \/ \E w \in Workers : CreateKey(w)
           \/ \E w \in Workers : Store(w)
           \/ \E w \in Workers : FinishReview(w)
           \/ \E w \in Workers : BeginErase(w)
           \/ \E w \in Workers : FinishErase(w)
           \/ \E w \in Workers : Evict(w)
           \/ \E w \in Workers : Fail(w)
           \/ \E p \in Procs : Crash(p)
  BY DEF Next

\* A worker without a request has nothing in hand.
LEMMA IdleTyped ==
    /\ Idle \in Tasks /\ Idle.at = "idle" /\ Idle.key = NoKey /\ ~Idle.creates
    /\ Idle.review = None /\ Idle.stored = None
  BY WriteAssumption DEF Idle, Tasks, NoKey, None, Keys

\* Initially nothing is known, nobody is busy.
LEMMA InvInit == Init => Inv
  <1> SUFFICES ASSUME Init PROVE Inv
    OBVIOUS
  <1>1. memory = <<>> /\ pending = <<>> /\ made = 0 /\ lost = {} /\ Creators = {}
    BY IdleTyped DEF Init, Creators
  <1>2. Typed
    BY <1>1, IdleTyped, WriteAssumption, EmptySeq
       DEF Init, Typed, TypeOK, TasksTyped, Does, NoKey, None
  <1>3. OncePerKey /\ ApprovedIsStored
    BY <1>1 DEF OncePerKey, ApprovedIsStored
  <1>4. OneCreator
    BY <1>1 DEF OneCreator
  <1>5. KeysKnown
    BY <1>1, IdleTyped DEF Init, KeysKnown, Known
  <1>6. ApprovingIsStored
    BY IdleTyped DEF Init, ApprovingIsStored, Does
  <1>7. QED  BY <1>2, <1>3, <1>4, <1>5, <1>6 DEF Inv

-----------------------------------------------------------------------------
(* Every step preserves it.                                                 *)

\* What the tables are made of, taken from the type invariant once.
LEMMA Tables ==
    ASSUME TypeOK
    PROVE  /\ Len(memory) \in Nat /\ DOMAIN memory = 1..Len(memory)
           /\ Len(pending) \in Nat /\ DOMAIN pending = 1..Len(pending)
           /\ \A i \in DOMAIN memory : memory[i] \in Memories
           /\ \A k \in DOMAIN pending : pending[k] \in Items
  BY RowsTyped DEF TypeOK

\* A step of one worker that leaves the tables of the database, and the keys, alone.
LEMMA TypedTask ==
    ASSUME Typed, NEW w \in Workers, NEW next \in Tasks, To(w, next),
           next.key \in {NoKey} \cup 1..made,
           next.review \in {None} \cup DOMAIN pending,
           next.at \in {"found", "keyed"} => next.key # NoKey,
           next.at \in {"approving", "rejecting"} => next.review # None
    PROVE  /\ task' \in [Workers -> Tasks]
           /\ \A v \in Workers :
                /\ task'[v].key \in {NoKey} \cup 1..made
                /\ task'[v].review \in {None} \cup DOMAIN pending
                /\ task'[v].at \in {"found", "keyed"} => task'[v].key # NoKey
                /\ task'[v].at \in {"approving", "rejecting"} => task'[v].review # None
  BY DEF Typed, TypeOK, TasksTyped, To, Does

\* Every step keeps the variables typed.
LEMMA TypedStep ==
    ASSUME Inv, [Next]_vars
    PROVE  Typed'
  <1> USE WriteAssumption DEF NoKey, None
  <1> Typed /\ TypeOK /\ TasksTyped
    BY DEF Inv, Typed
  <1>a. /\ Len(memory) \in Nat /\ DOMAIN memory = 1..Len(memory)
        /\ Len(pending) \in Nat /\ DOMAIN pending = 1..Len(pending)
        /\ \A i \in DOMAIN memory : memory[i] \in Memories
        /\ \A k \in DOMAIN pending : pending[k] \in Items
    BY Tables
  <1>i. Idle \in Tasks /\ Idle.at = "idle" /\ Idle.key = NoKey /\ Idle.review = None
    BY IdleTyped
  <1>l. \A W \in SUBSET Workers : Rolled(W) => lost' \subseteq 1..made
    <2> SUFFICES ASSUME NEW W \in SUBSET Workers, Rolled(W) PROVE lost' \subseteq 1..made
      OBVIOUS
    <2>1. \A w \in Creators : task[w].key \in 1..made
      BY DEF Inv, OneCreator, TasksTyped, Creators
    <2>2. QED  BY <2>1 DEF Rolled, TypeOK
  <1>1. CASE \E w \in Workers, r \in Requests : Begin(w, r)
    <2> PICK w \in Workers, r \in Requests : Begin(w, r)  BY <1>1
    <2> DEFINE next == [Idle EXCEPT !.at = "admitted", !.request = r]
    <2>1. next \in Tasks /\ next.at = "admitted" /\ next.key = NoKey /\ next.review = None
      BY <1>i DEF Tasks
    <2>2. To(w, next)
      BY DEF Begin
    <2> HIDE DEF next
    <2>3. QED  BY <2>1, <2>2, TypedTask DEF Begin, Typed, TypeOK, TasksTyped, Does
  <1>2. CASE \E w \in Workers, r \in Requests : Park(w, r)
    <2> PICK w \in Workers, r \in Requests : Park(w, r)  BY <1>2
    <2> DEFINE row == [request |-> r, status |-> "pending", memory |-> None]
    <2>1. row \in Items
      BY DEF Items
    <2>2. pending \in Seq(Items) /\ pending' = Append(pending, row)
      BY DEF TypeOK, Park
    <2> HIDE DEF row
    <2>3. /\ pending' \in Seq(Items) /\ Len(pending') <= MaxPending
          /\ DOMAIN pending \subseteq DOMAIN pending'
      BY <2>1, <2>2, <1>a, RowInserted DEF Park
    <2>4. QED  BY <2>3 DEF Park, Typed, TypeOK, TasksTyped, Does
  <1>3. CASE \E w \in Workers : \E i \in DOMAIN pending : BeginApprove(w, i)
    <2> PICK w \in Workers, i \in DOMAIN pending : BeginApprove(w, i)  BY <1>3
    <2> DEFINE next == [Idle EXCEPT !.at = "admitted", !.review = i,
                                    !.request = pending[i].request]
    <2>1. pending[i].request \in Requests /\ i \in 0..MaxPending
      BY <1>a DEF Items, TypeOK
    <2>2. next \in Tasks /\ next.at = "admitted" /\ next.key = NoKey /\ next.review = i
      BY <1>i, <2>1 DEF Tasks
    <2>3. To(w, next)
      BY DEF BeginApprove
    <2> HIDE DEF next
    <2>4. QED  BY <2>2, <2>3, TypedTask DEF BeginApprove, Typed, TypeOK, TasksTyped, Does
  <1>4. CASE \E w \in Workers : \E i \in DOMAIN pending : BeginReject(w, i)
    <2> PICK w \in Workers, i \in DOMAIN pending : BeginReject(w, i)  BY <1>4
    <2> DEFINE next == [Idle EXCEPT !.at = "rejecting", !.review = i]
    <2>1. i \in 0..MaxPending /\ i # None
      BY <1>a DEF TypeOK
    <2>2. next \in Tasks /\ next.at = "rejecting" /\ next.key = NoKey /\ next.review = i
      BY <1>i, <2>1 DEF Tasks
    <2>3. To(w, next)
      BY DEF BeginReject
    <2> HIDE DEF next
    <2>4. QED  BY <2>1, <2>2, <2>3, TypedTask
                  DEF BeginReject, Typed, TypeOK, TasksTyped, Does
  <1>5. CASE \E w \in Workers : LookUpKey(w)
    <2> PICK w \in Workers : LookUpKey(w)  BY <1>5
    <2>1. cache[Home[w]] \in {NoKey} \cup 1..made /\ subject.key \in {NoKey} \cup 1..made
      BY DEF TypeOK
    <2>2. task[w] \in Tasks /\ task[w].at = "admitted" /\ 1..made \subseteq Keys
      BY DEF TypeOK, LookUpKey, Does, Keys
    <2>3. PICK next : /\ To(w, next)
                      /\ \/ next = [task[w] EXCEPT !.at = "keyed", !.key = cache[Home[w]]]
                            /\ cache[Home[w]] # NoKey
                         \/ next = [task[w] EXCEPT !.at = "creating"]
                         \/ next = Idle
                         \/ next = [task[w] EXCEPT !.at = "found", !.key = subject.key]
                            /\ subject.key # NoKey
      BY <2>1 DEF LookUpKey
    <2>4. next \in Tasks
      BY <2>1, <2>2, <2>3, <1>i DEF Tasks
    <2>5. /\ next.key \in {NoKey} \cup 1..made
          /\ next.review \in {None} \cup DOMAIN pending
          /\ next.at \in {"found", "keyed"} => next.key # NoKey
          /\ next.at \notin {"approving", "rejecting"}
      BY <2>1, <2>2, <2>3, <1>i DEF Tasks, TasksTyped
    <2>6. QED  BY <2>3, <2>4, <2>5, TypedTask
                  DEF LookUpKey, Typed, TypeOK, TasksTyped, Does
  <1>6. CASE \E w \in Workers : KeyFound(w)
    <2> PICK w \in Workers : KeyFound(w)  BY <1>6
    <2> DEFINE next == [task[w] EXCEPT !.at = "keyed"]
    <2>1. task[w] \in Tasks /\ task[w].at = "found"
      BY DEF TypeOK, KeyFound, Does
    <2>2. next \in Tasks /\ next.at = "keyed"
      BY <2>1 DEF Tasks
    <2>3. next.key = task[w].key /\ next.review = task[w].review
      BY <2>1 DEF Tasks
    <2>4. To(w, next) /\ task[w].key \in 1..made
      BY <2>1 DEF KeyFound, Goes, TasksTyped, Does
    <2> HIDE DEF next
    <2>5. cache' \in [Procs -> {NoKey} \cup 1..made]
      BY <2>4 DEF KeyFound, TypeOK
    <2>6. QED  BY <2>2, <2>3, <2>4, <2>5, TypedTask
                  DEF KeyFound, Typed, TypeOK, TasksTyped, Does
  <1>7. CASE \E w \in Workers : CreateKey(w)
    <2> PICK w \in Workers : CreateKey(w)  BY <1>7
    <2>1. task[w] \in Tasks
      BY DEF TypeOK
    <2>2. CASE subject.key = NoKey
      <3> DEFINE next == [task[w] EXCEPT !.at = "keyed", !.key = made + 1, !.creates = TRUE]
      <3>1. made' = made + 1 /\ made + 1 \in 1..MaxKeys /\ To(w, next)
        BY <2>2 DEF CreateKey, TypeOK
      <3>2. next \in Tasks /\ next.at = "keyed" /\ next.key = made + 1
        BY <2>1, <3>1 DEF Tasks, Keys
      <3>3. next.review = task[w].review
        BY <2>1 DEF Tasks
      <3>4. task' \in [Workers -> Tasks] /\ TasksTyped'
        <4> HIDE DEF next
        <4> QED  BY <3>1, <3>2, <3>3 DEF TypeOK, TasksTyped, To, CreateKey, Does
      <3>5. cache' \in [Procs -> {NoKey} \cup 1..made']
        BY <2>2, <3>1 DEF CreateKey, TypeOK
      <3>6. QED  BY <3>1, <3>4, <3>5 DEF CreateKey, Typed, TypeOK
    <2>3. CASE subject.key # NoKey
      BY <2>3, <1>i, TypedTask DEF CreateKey, Typed, TypeOK, TasksTyped, Does
    <2>4. QED  BY <2>2, <2>3
  <1>8. CASE \E w \in Workers : Store(w)
    <2> PICK w \in Workers : Store(w)  BY <1>8
    <2>1. task[w] \in Tasks /\ task[w].key \in 1..made /\ 1..made \subseteq Keys
      BY DEF TypeOK, Store, Does, TasksTyped, Keys
    <2>2. CASE Answered(w)
      BY <2>2, <1>i, <1>l, TypedTask DEF Store, Typed, TypeOK, TasksTyped, Does
    <2>3. CASE ~Answered(w)
      <3> DEFINE row == [request |-> task[w].request, review |-> task[w].review,
                         key |-> task[w].key, erased |-> FALSE]
      <3> DEFINE more == [task[w] EXCEPT !.at = "approving", !.creates = FALSE,
                                         !.stored = Len(memory) + 1]
      <3>1. row \in Memories
        BY <2>1 DEF Memories, Tasks
      <3>2. memory \in Seq(Memories) /\ memory' = Append(memory, row)
        BY <2>3 DEF TypeOK, Store
      <3>3. Len(memory) < MaxMemories
        BY <2>3 DEF Store
      <3>4. memory' \in Seq(Memories) /\ Len(memory') = Len(memory) + 1
        <4> HIDE DEF row
        <4> QED  BY <3>1, <3>2, RowInserted
      <3>5. more \in Tasks /\ more.at = "approving" /\ more.key = task[w].key
        <4>1. Len(memory) + 1 \in 0..MaxMemories
          BY <3>3, <1>a
        <4>2. QED  BY <4>1, <2>1 DEF Tasks
      <3>5a. more.review = task[w].review
        BY <2>1 DEF Tasks
      <3>6. task' \in [Workers -> Tasks] /\ TasksTyped'
        <4>1. PICK next : /\ To(w, next)
                          /\ \/ next = Idle
                             \/ next = more /\ task[w].review # None
          BY <2>3 DEF Store
        <4>2. /\ next \in Tasks /\ next.key \in {NoKey} \cup 1..made
              /\ next.review \in {None} \cup DOMAIN pending
              /\ next.at \notin {"found", "keyed"}
              /\ next.at \in {"approving", "rejecting"} => next.review # None
          <5> HIDE DEF more
          <5> QED  BY <4>1, <3>5, <3>5a, <2>1, <1>i DEF TasksTyped
        <4>3. QED  BY <4>1, <4>2, TypedTask DEF Store, TasksTyped, Does
      <3>7. idem' \in [Requests -> 0..Len(memory')]
        BY <2>1, <2>3, <3>4, <1>a DEF Store, TypeOK, Tasks
      <3>8. subject' \in [key : {NoKey} \cup 1..made, destroyed : BOOLEAN]
            /\ (subject'.destroyed => subject'.key # NoKey)
        <4>1. \/ subject' = [key |-> task[w].key, destroyed |-> FALSE]
              \/ subject' = subject
          BY <2>3 DEF Store
        <4>2. CASE subject' = [key |-> task[w].key, destroyed |-> FALSE]
          BY <4>2, <2>1
        <4>3. CASE subject' = subject
          BY <4>3 DEF TypeOK
        <4>4. QED  BY <4>1, <4>2, <4>3
      <3>9. QED  BY <2>3, <3>3, <3>4, <3>6, <3>7, <3>8, <1>a DEF Store, Typed, TypeOK
    <2>4. QED  BY <2>2, <2>3
  <1>9. CASE \E w \in Workers : FinishReview(w)
    <2> PICK w \in Workers : FinishReview(w)  BY <1>9
    <2>1. task[w] \in Tasks /\ task[w].review \in DOMAIN pending
      BY DEF TypeOK, FinishReview, TasksTyped, Does
    <2>2. PICK status \in {"approved", "rejected"} : Resolve(w, status)
      BY DEF FinishReview
    <2> DEFINE row == [pending[task[w].review] EXCEPT !.status = status,
                         !.memory = IF task[w].stored = None THEN @ ELSE task[w].stored]
    <2>3. row \in Items
      BY <2>1, <1>a DEF Items, Tasks
    <2>4a. pending \in Seq(Items)
      BY DEF TypeOK
    <2>4. pending' = [pending EXCEPT ![task[w].review] = row]
      BY <2>2 DEF Resolve
    <2>5. pending' \in Seq(Items) /\ Len(pending') = Len(pending)
          /\ DOMAIN pending' = DOMAIN pending
      <3> HIDE DEF row
      <3> QED  BY <2>1, <2>3, <2>4, <2>4a, RowUpdated
    <2>6. QED  BY <2>5, <1>i, TypedTask DEF FinishReview, Typed, TypeOK, TasksTyped, Does
  <1>10. CASE \E w \in Workers : BeginErase(w)
    <2> PICK w \in Workers : BeginErase(w)  BY <1>10
    <2> DEFINE selected == {i \in DOMAIN memory : ~memory[i].erased}
    <2> DEFINE next == [Idle EXCEPT !.at = "erasing", !.selected = selected]
    <2>1. selected \in SUBSET (1..MaxMemories)
      BY <1>a DEF TypeOK
    <2>2. To(w, next)
      BY DEF BeginErase
    <2> HIDE DEF selected
    <2>3. next \in Tasks /\ next.at = "erasing" /\ next.key = NoKey /\ next.review = None
      BY <1>i, <2>1 DEF Tasks
    <2> HIDE DEF next
    <2>4. QED  BY <2>2, <2>3, TypedTask DEF BeginErase, Typed, TypeOK, TasksTyped, Does
  <1>11. CASE \E w \in Workers : FinishErase(w)
    <2> PICK w \in Workers : FinishErase(w)  BY <1>11
    <2> DEFINE next == [task[w] EXCEPT !.at = "evicting"]
    <2>1. task[w] \in Tasks
      BY DEF TypeOK
    <2>2. next \in Tasks /\ next.at = "evicting" /\ next.key = task[w].key
          /\ next.review = task[w].review
      BY <2>1 DEF Tasks
    <2>3. To(w, next)
      BY DEF FinishErase, Goes
    <2> HIDE DEF next
    <2>4. memory' \in [1..Len(memory) -> Memories]
      BY <1>a DEF FinishErase, Memories
    <2>5. memory' \in Seq(Memories) /\ Len(memory') = Len(memory)
      BY <2>4, <1>a, RowsUpdated
    <2>6. subject' = [subject EXCEPT !.destroyed = subject.key # NoKey]
      BY DEF FinishErase, Destroyed
    <2>7. subject' \in [key : {NoKey} \cup 1..made, destroyed : BOOLEAN]
          /\ (subject'.destroyed => subject'.key # NoKey)
      BY <2>6 DEF TypeOK
    <2>8. QED  BY <2>2, <2>3, <2>5, <2>7, TypedTask
                  DEF FinishErase, Typed, TypeOK, TasksTyped, Does
  <1>12. CASE \E w \in Workers : Evict(w)
    <2> PICK w \in Workers : Evict(w)  BY <1>12
    <2>1. cache' \in [Procs -> {NoKey} \cup 1..made]
      BY DEF Evict, TypeOK
    <2>2. QED  BY <2>1, <1>i, TypedTask DEF Evict, Typed, TypeOK, TasksTyped, Does
  <1>13. CASE \E w \in Workers : Fail(w)
    <2> PICK w \in Workers : Fail(w)  BY <1>13
    <2>1. lost' \subseteq 1..made /\ faults' \in 0..MaxFaults
      BY <1>l DEF Fail, TypeOK
    <2>2. QED  BY <2>1, <1>i, TypedTask DEF Fail, Typed, TypeOK, TasksTyped, Does
  <1>14. CASE \E p \in Procs : Crash(p)
    <2> PICK p \in Procs : Crash(p)  BY <1>14
    <2>1. lost' \subseteq 1..made /\ faults' \in 0..MaxFaults
      BY <1>l DEF Crash, TypeOK
    <2>2. cache' \in [Procs -> {NoKey} \cup 1..made]
      BY DEF Crash, TypeOK
    <2>3. task' \in [Workers -> Tasks] /\ \A w \in Workers : task'[w] \in {Idle, task[w]}
      BY <1>i DEF Crash, TypeOK
    <2>4. QED  BY <2>1, <2>2, <2>3, <1>i DEF Crash, Typed, TypeOK, TasksTyped, Does
  <1>15. CASE UNCHANGED vars
    BY <1>15 DEF vars, Typed, TypeOK, TasksTyped, Does
  <1>16. QED
    BY <1>1, <1>2, <1>3, <1>4, <1>5, <1>6, <1>7, <1>8, <1>9, <1>10, <1>11, <1>12, <1>13,
       <1>14, <1>15, NextCases

\* The row that a successful write inserts.
LEMMA StoreInserts ==
    ASSUME Typed, NEW w \in Workers, Store(w), ~Answered(w)
    PROVE  /\ DOMAIN memory' = (DOMAIN memory) \cup {Len(memory) + 1}
           /\ memory'[Len(memory) + 1].request = task[w].request
           /\ memory'[Len(memory) + 1].review = task[w].review
           /\ memory'[Len(memory) + 1].key = task[w].key
           /\ \A i \in DOMAIN memory : memory'[i] = memory[i]
  <1> USE WriteAssumption DEF NoKey, None
  <1> DEFINE row == [request |-> task[w].request, review |-> task[w].review,
                     key |-> task[w].key, erased |-> FALSE]
  <1>1. task[w] \in Tasks /\ task[w].key \in 1..made /\ 1..made \subseteq Keys
    BY DEF Typed, TypeOK, Store, Does, TasksTyped, Keys
  <1>2. row \in Memories
    BY <1>1 DEF Memories, Tasks
  <1>3. memory \in Seq(Memories)
    BY DEF Typed, TypeOK
  <1>4. memory' = Append(memory, row)
    BY DEF Store
  <1>5. /\ DOMAIN memory' = 1..(Len(memory) + 1) /\ memory'[Len(memory) + 1] = row
        /\ \A i \in DOMAIN memory : memory'[i] = memory[i]
    <2> HIDE DEF row
    <2> QED  BY <1>2, <1>3, <1>4, RowInserted
  <1>6. DOMAIN memory' = (DOMAIN memory) \cup {Len(memory) + 1}
    BY <1>3, <1>5, RowsTyped
  <1>7. QED  BY <1>5, <1>6

\* Rows are neither removed nor encrypted anew, and keep the request they are for.
LEMMA MemoryKept ==
    ASSUME Typed, [Next]_vars
    PROVE  /\ DOMAIN memory \subseteq DOMAIN memory'
           /\ \A i \in DOMAIN memory :
                 /\ memory'[i].request = memory[i].request
                 /\ memory'[i].review = memory[i].review
                 /\ memory'[i].key = memory[i].key
  <1>a. /\ Len(memory) \in Nat /\ DOMAIN memory = 1..Len(memory)
        /\ \A i \in DOMAIN memory : memory[i] \in Memories
    BY Tables DEF Typed
  <1>1. CASE UNCHANGED memory
    BY <1>1
  <1>2. CASE \E w \in Workers : Store(w)
    <2> PICK w \in Workers : Store(w)  BY <1>2
    <2>1. CASE Answered(w)
      BY <2>1 DEF Store
    <2>2. CASE ~Answered(w)
      BY <2>2, <1>a, StoreInserts
    <2>3. QED  BY <2>1, <2>2
  <1>3. CASE \E w \in Workers : FinishErase(w)
    BY <1>3, <1>a DEF FinishErase, Memories
  <1>4. QED
    BY <1>1, <1>2, <1>3, NextCases
       DEF vars, Begin, Park, BeginApprove, BeginReject, LookUpKey, KeyFound, CreateKey,
           FinishReview, BeginErase, Evict, Fail, Crash

\* A write without a review is only stored when its Idempotency-Key names nothing.
LEMMA OnceStep ==
    ASSUME Inv, [Next]_vars
    PROVE  OncePerKey'
  <1> USE WriteAssumption DEF NoKey, None
  <1> Typed /\ TypeOK /\ OncePerKey
    BY DEF Inv, Typed
  <1>a. Len(memory) \in Nat /\ DOMAIN memory = 1..Len(memory)
    BY Tables
  <1>1. CASE UNCHANGED <<memory, idem>>
    BY <1>1 DEF OncePerKey
  <1>2. CASE \E w \in Workers : Store(w)
    <2> PICK w \in Workers : Store(w)  BY <1>2
    <2>1. CASE Answered(w)
      BY <2>1 DEF Store, OncePerKey
    <2>2. CASE ~Answered(w)
      <3>1. task[w].request \in Requests
        BY DEF TypeOK, Tasks
      <3>2. CASE task[w].review = None
        <4>1. idem[task[w].request] = None
          BY <2>2, <3>2 DEF Answered
        <4>2. idem' = [idem EXCEPT ![task[w].request] = Len(memory) + 1]
          BY <2>2, <3>2 DEF Store
        <4>3. \A i \in DOMAIN memory :
                 memory[i].review = None => memory[i].request # task[w].request
          BY <4>1, <1>a DEF OncePerKey
        <4>4. \A i \in DOMAIN memory :
                 memory'[i].review = None => idem'[memory'[i].request] = i
          BY <2>2, <4>2, <4>3, <1>a, StoreInserts DEF OncePerKey, TypeOK
        <4>5. idem'[memory'[Len(memory) + 1].request] = Len(memory) + 1
          BY <2>2, <3>1, <4>2, StoreInserts DEF TypeOK
        <4>6. DOMAIN memory' = (DOMAIN memory) \cup {Len(memory) + 1}
          BY <2>2, <1>a, StoreInserts
        <4>7. QED  BY <4>4, <4>5, <4>6 DEF OncePerKey
      <3>3. CASE task[w].review # None
        <4>1. idem' = idem
          BY <2>2, <3>3 DEF Store
        <4>2. DOMAIN memory' = (DOMAIN memory) \cup {Len(memory) + 1}
          BY <2>2, <1>a, StoreInserts
        <4>3. QED  BY <2>2, <3>3, <4>1, <4>2, StoreInserts DEF OncePerKey
      <3>4. QED  BY <3>2, <3>3
    <2>3. QED  BY <2>1, <2>2
  <1>3. CASE \E w \in Workers : FinishErase(w)
    <2>1. idem' = idem /\ DOMAIN memory' = DOMAIN memory
      BY <1>3 DEF FinishErase
    <2>2. QED  BY <2>1, MemoryKept DEF OncePerKey
  <1>4. QED
    BY <1>1, <1>2, <1>3, NextCases
       DEF vars, Begin, Park, BeginApprove, BeginReject, LookUpKey, KeyFound, CreateKey,
           FinishReview, BeginErase, Evict, Fail, Crash

-----------------------------------------------------------------------------
(* Keys.                                                                    *)

\* What a step may do to the creation of keys: nothing; begin one, when none is open;
\* roll some back; or put the key of the only one on record.
CreationStep ==
    \/ /\ subject'.key = subject.key /\ lost' = lost /\ Creators' = Creators
       /\ \A w \in Creators : task'[w].at = "keyed" /\ task'[w].key = task[w].key
    \/ /\ subject' = subject /\ subject.key = NoKey /\ lost' = lost /\ Creators = {}
       /\ \E w \in Workers : Creators' = {w} /\ task'[w].at = "keyed"
    \/ /\ subject' = subject /\ Creators' \subseteq Creators
       /\ lost' = lost \cup {task[w].key : w \in Creators \ Creators'}
       /\ \A w \in Creators' : task'[w] = task[w]
    \/ \E w \in Creators : /\ Creators = {w} /\ Creators' = {} /\ lost' = lost
                           /\ subject'.key = task[w].key /\ ~subject'.destroyed

\* A handler without a new key of its own goes on without one.
LEMMA OtherTask ==
    ASSUME Typed, OneCreator, NEW w \in Workers, NEW next, To(w, next),
           w \notin Creators, ~next.creates, UNCHANGED lost, subject'.key = subject.key
    PROVE  CreationStep
  <1>1. \A v \in Workers : task'[v] = IF v = w THEN next ELSE task[v]
    BY DEF Typed, TypeOK, To
  <1>2. Creators' = Creators
    BY <1>1 DEF Creators
  <1>3. \A v \in Creators : task'[v] = task[v]
    BY <1>1 DEF Creators
  <1>4. QED  BY <1>2, <1>3 DEF CreationStep, OneCreator, Does

\* The transactions of some workers are rolled back.
LEMMA RolledBack ==
    ASSUME Typed, NEW W \in SUBSET Workers, Rolled(W),
           task' = [w \in Workers |-> IF w \in W THEN Idle ELSE task[w]],
           UNCHANGED subject
    PROVE  CreationStep
  <1>1. Creators' = Creators \ W
    BY IdleTyped DEF Creators
  <1>2. \A v \in Creators' : task'[v] = task[v]
    BY <1>1 DEF Creators
  <1>3. Creators \ Creators' = Creators \cap W
    BY <1>1
  <1>4. QED  BY <1>1, <1>2, <1>3 DEF CreationStep, Rolled

\* Every step does one of these to the creation of keys (get_or_create_subject_key).
LEMMA Creation ==
    ASSUME Inv, [Next]_vars
    PROVE  CreationStep
  <1> USE WriteAssumption DEF NoKey, None
  <1> Typed /\ TypeOK /\ OneCreator
    BY DEF Inv, Typed
  <1>i. Idle \in Tasks /\ Idle.at = "idle" /\ ~Idle.creates
    BY IdleTyped
  <1>c. \A w \in Workers : w \in Creators => Does(w, "keyed")
    BY DEF OneCreator
  <1>t. \A w \in Workers : task[w] \in Tasks /\ (~task[w].creates <=> w \notin Creators)
    BY DEF TypeOK, Creators
  <1>1. CASE \E w \in Workers, r \in Requests : Begin(w, r)
    <2> PICK w \in Workers, r \in Requests : Begin(w, r)  BY <1>1
    <2>1. ~[Idle EXCEPT !.at = "admitted", !.request = r].creates
      BY <1>i DEF Tasks
    <2>2. QED  BY <2>1, <1>c, OtherTask DEF Begin, Does
  <1>2. CASE \E w \in Workers, r \in Requests : Park(w, r)
    BY <1>2 DEF Park, CreationStep, Creators, OneCreator, Does
  <1>3. CASE \E w \in Workers : \E i \in DOMAIN pending : BeginApprove(w, i)
    <2> PICK w \in Workers, i \in DOMAIN pending : BeginApprove(w, i)  BY <1>3
    <2>1. ~[Idle EXCEPT !.at = "admitted", !.review = i,
                        !.request = pending[i].request].creates
      BY <1>i DEF Tasks
    <2>2. QED  BY <2>1, <1>c, OtherTask DEF BeginApprove, Reviewable, Does
  <1>4. CASE \E w \in Workers : \E i \in DOMAIN pending : BeginReject(w, i)
    <2> PICK w \in Workers, i \in DOMAIN pending : BeginReject(w, i)  BY <1>4
    <2>1. ~[Idle EXCEPT !.at = "rejecting", !.review = i].creates
      BY <1>i DEF Tasks
    <2>2. QED  BY <2>1, <1>c, OtherTask DEF BeginReject, Reviewable, Does
  <1>5. CASE \E w \in Workers : LookUpKey(w)
    <2> PICK w \in Workers : LookUpKey(w)  BY <1>5
    <2>1. w \notin Creators
      BY <1>c DEF LookUpKey, Does
    <2>2. PICK next : /\ To(w, next)
                      /\ \/ next = [task[w] EXCEPT !.at = "keyed", !.key = cache[Home[w]]]
                         \/ next = [task[w] EXCEPT !.at = "creating"]
                         \/ next = Idle
                         \/ next = [task[w] EXCEPT !.at = "found", !.key = subject.key]
      BY DEF LookUpKey, TypeOK
    <2>3. ~next.creates
      BY <2>1, <2>2, <1>i, <1>t DEF Tasks
    <2>4. QED  BY <2>1, <2>2, <2>3, OtherTask DEF LookUpKey
  <1>6. CASE \E w \in Workers : KeyFound(w)
    <2> PICK w \in Workers : KeyFound(w)  BY <1>6
    <2>1. w \notin Creators
      BY <1>c DEF KeyFound, Does
    <2>2. ~[task[w] EXCEPT !.at = "keyed"].creates
      BY <2>1, <1>t DEF Tasks
    <2>3. QED  BY <2>1, <2>2, OtherTask DEF KeyFound, Goes
  <1>7. CASE \E w \in Workers : CreateKey(w)
    <2> PICK w \in Workers : CreateKey(w)  BY <1>7
    <2>1. Creators = {} /\ w \notin Creators
      BY DEF CreateKey
    <2>2. CASE subject.key = NoKey
      <3>1. task' = [task EXCEPT ![w] = [task[w] EXCEPT !.at = "keyed", !.key = made + 1,
                                                        !.creates = TRUE]]
        BY <2>2 DEF CreateKey, To
      <3>2. task'[w].creates /\ task'[w].at = "keyed"
        BY <3>1, <1>t DEF TypeOK, Tasks
      <3>3. \A v \in Workers : v # w => task'[v] = task[v]
        BY <3>1 DEF TypeOK
      <3>4. Creators' = {w}
        BY <2>1, <3>2, <3>3 DEF Creators
      <3>5. QED  BY <2>1, <2>2, <3>2, <3>4 DEF CreateKey, CreationStep
    <2>3. CASE subject.key # NoKey
      BY <2>1, <2>3, <1>i, OtherTask DEF CreateKey
    <2>4. QED  BY <2>2, <2>3
  <1>8. CASE \E w \in Workers : Store(w)
    <2> PICK w \in Workers : Store(w)  BY <1>8
    <2>1. CASE Answered(w)
      <3>1. task' = [v \in Workers |-> IF v \in {w} THEN Idle ELSE task[v]]
        BY <2>1 DEF Store, To, TypeOK
      <3>2. QED  BY <2>1, <3>1, RolledBack DEF Store
    <2>2. CASE ~Answered(w)
      <3>1. PICK next : /\ To(w, next)
                        /\ \/ next = Idle
                           \/ next = [task[w] EXCEPT !.at = "approving", !.creates = FALSE,
                                                     !.stored = Len(memory) + 1]
        BY <2>2 DEF Store
      <3>2. ~next.creates
        BY <3>1, <1>i, <1>t DEF Tasks
      <3>3. CASE w \notin Creators
        BY <2>2, <3>1, <3>2, <3>3, <1>t, OtherTask DEF Store
      <3>4. CASE w \in Creators
        <4>1. Creators = {w}
          BY <3>4 DEF OneCreator
        <4>2. \A v \in Workers : task'[v] = IF v = w THEN next ELSE task[v]
          BY <3>1 DEF To, TypeOK
        <4>3. Creators' = {}
          BY <4>1, <4>2, <3>2 DEF Creators
        <4>4. subject' = [key |-> task[w].key, destroyed |-> FALSE] /\ lost' = lost
          BY <2>2, <3>4 DEF Store, Creators
        <4>5. QED  BY <3>4, <4>1, <4>3, <4>4 DEF CreationStep
      <3>5. QED  BY <3>3, <3>4
    <2>3. QED  BY <2>1, <2>2
  <1>9. CASE \E w \in Workers : FinishReview(w)
    BY <1>9, <1>c, <1>i, OtherTask DEF FinishReview, Does
  <1>10. CASE \E w \in Workers : BeginErase(w)
    <2> PICK w \in Workers : BeginErase(w)  BY <1>10
    <2> DEFINE selected == {i \in DOMAIN memory : ~memory[i].erased}
    <2> HIDE DEF selected
    <2>1. ~[Idle EXCEPT !.at = "erasing", !.selected = selected].creates
      BY <1>i DEF Tasks
    <2>2. QED  BY <2>1, <1>c, OtherTask DEF BeginErase, Does, selected
  <1>11. CASE \E w \in Workers : FinishErase(w)
    <2> PICK w \in Workers : FinishErase(w)  BY <1>11
    <2>1. w \notin Creators
      BY <1>c DEF FinishErase, Does
    <2>2. ~[task[w] EXCEPT !.at = "evicting"].creates
      BY <2>1, <1>t DEF Tasks
    <2>3. subject'.key = subject.key
      BY DEF FinishErase, Destroyed, TypeOK
    <2>4. QED  BY <2>1, <2>2, <2>3, OtherTask DEF FinishErase, Goes
  <1>12. CASE \E w \in Workers : Evict(w)
    BY <1>12, <1>c, <1>i, OtherTask DEF Evict, Does
  <1>13. CASE \E w \in Workers : Fail(w)
    <2> PICK w \in Workers : Fail(w)  BY <1>13
    <2>1. task' = [v \in Workers |-> IF v \in {w} THEN Idle ELSE task[v]]
      BY DEF Fail, To, TypeOK
    <2>2. QED  BY <2>1, RolledBack DEF Fail
  <1>14. CASE \E p \in Procs : Crash(p)
    <2> PICK p \in Procs : Crash(p)  BY <1>14
    <2> DEFINE W == {w \in Workers : Home[w] = p}
    <2>1. W \in SUBSET Workers /\ Rolled(W) /\ UNCHANGED subject
          /\ task' = [w \in Workers |-> IF w \in W THEN Idle ELSE task[w]]
      BY DEF Crash
    <2> HIDE DEF W
    <2>2. QED  BY <2>1, RolledBack
  <1>15. CASE UNCHANGED vars
    BY <1>15, <1>c DEF vars, CreationStep, Creators, Does
  <1>16. QED
    BY <1>1, <1>2, <1>3, <1>4, <1>5, <1>6, <1>7, <1>8, <1>9, <1>10, <1>11, <1>12, <1>13,
       <1>14, <1>15, NextCases

\* Every step keeps the creation of a key to one transaction, while none is on record.
LEMMA OneCreatorStep ==
    ASSUME Inv, [Next]_vars
    PROVE  OneCreator'
  <1>1. CreationStep /\ OneCreator
    BY Creation DEF Inv
  <1>2. QED  BY <1>1 DEF CreationStep, OneCreator, Does

\* No key that had a creation to show loses it.
LEMMA KnownGrows ==
    ASSUME Inv, [Next]_vars
    PROVE  {NoKey} \cup Known \subseteq {NoKey} \cup Known'
  <1>1. CreationStep /\ OneCreator
    BY Creation DEF Inv
  <1>2. QED  BY <1>1 DEF CreationStep, OneCreator, Known

\* A handler takes its key from the cache, from the row of the subject, or makes it.
LEMMA TaskKeys ==
    ASSUME Inv, [Next]_vars, NEW v \in Workers
    PROVE  task'[v].key \in {NoKey} \cup Known \cup Known'
  <1> Typed /\ TypeOK /\ KeysKnown
    BY DEF Inv, Typed
  <1>i. Idle \in Tasks /\ Idle.key = NoKey
    BY IdleTyped
  <1>t. task[v] \in Tasks /\ task[v].key \in {NoKey} \cup Known
    BY DEF TypeOK, KeysKnown
  <1>1. CASE \E w \in Workers : LookUpKey(w)
    <2> PICK w \in Workers : LookUpKey(w)  BY <1>1
    <2>1. cache[Home[w]] \in {NoKey} \cup Known
      BY WriteAssumption DEF KeysKnown
    <2>2. PICK next : /\ To(w, next)
                      /\ \/ next = [task[w] EXCEPT !.at = "keyed", !.key = cache[Home[w]]]
                         \/ next = [task[w] EXCEPT !.at = "creating"]
                         \/ next = Idle
                         \/ next = [task[w] EXCEPT !.at = "found", !.key = subject.key]
      BY DEF LookUpKey, TypeOK
    <2>3. v = w => next.key \in {task[w].key, NoKey, cache[Home[w]], subject.key}
      BY <2>2, <1>i, <1>t DEF Tasks
    <2>4. task'[v] = IF v = w THEN next ELSE task[v]
      BY <2>2 DEF To, TypeOK
    <2>5. QED  BY <2>1, <2>3, <2>4, <1>t DEF Known
  <1>2. CASE \E w \in Workers : CreateKey(w)
    <2> PICK w \in Workers : CreateKey(w)  BY <1>2
    <2>1. CASE v # w
      BY <2>1, <1>t DEF CreateKey, To, TypeOK
    <2>2. CASE v = w /\ subject.key # NoKey
      BY <2>2, <1>i DEF CreateKey, To, TypeOK
    <2>3. CASE v = w /\ subject.key = NoKey
      <3>1. task'[w] = [task[w] EXCEPT !.at = "keyed", !.key = made + 1, !.creates = TRUE]
        BY <2>3 DEF CreateKey, To, TypeOK
      <3>2. task'[w].creates
        BY <2>3, <3>1, <1>t DEF Tasks
      <3>3. QED  BY <2>3, <3>2 DEF Known, Creators
    <2>4. QED  BY <2>1, <2>2, <2>3
  <1>3. CASE task'[v].key \in {task[v].key, NoKey}
    BY <1>3, <1>t
  <1>4. CASE \E w \in Workers, r \in Requests : Begin(w, r)
    BY <1>4, <1>3, <1>i DEF Begin, To, TypeOK, Tasks
  <1>5. CASE \E w \in Workers : \E i \in DOMAIN pending : BeginApprove(w, i)
    BY <1>5, <1>3, <1>i DEF BeginApprove, To, TypeOK, Tasks
  <1>6. CASE \E w \in Workers : \E i \in DOMAIN pending : BeginReject(w, i)
    BY <1>6, <1>3, <1>i DEF BeginReject, To, TypeOK, Tasks
  <1>7. CASE \E w \in Workers : KeyFound(w)
    BY <1>7, <1>3, <1>t DEF KeyFound, Goes, To, TypeOK, Tasks
  <1>8. CASE \E w \in Workers : Store(w)
    <2> PICK w \in Workers : Store(w)  BY <1>8
    <2>1. CASE v = w
      <3>1. \/ task'[v] = Idle
            \/ task'[v] = [task[v] EXCEPT !.at = "approving", !.creates = FALSE,
                                          !.stored = Len(memory) + 1]
        BY <2>1 DEF Store, To, TypeOK
      <3>2. QED  BY <3>1, <1>t, <1>i, <1>3 DEF Tasks
    <2>2. CASE v # w
      <3>1. PICK next : task' = [task EXCEPT ![w] = next]
        BY DEF Store, To
      <3>2. QED  BY <2>2, <3>1, <1>3 DEF TypeOK
    <2>3. QED  BY <2>1, <2>2
  <1>9. CASE \E w \in Workers : BeginErase(w)
    <2> PICK w \in Workers : BeginErase(w)  BY <1>9
    <2> DEFINE selected == {i \in DOMAIN memory : ~memory[i].erased}
    <2> HIDE DEF selected
    <2>1. task' = [task EXCEPT ![w] = [Idle EXCEPT !.at = "erasing",
                                                   !.selected = selected]]
      BY DEF BeginErase, To, selected
    <2>2. QED  BY <2>1, <1>3, <1>i DEF TypeOK, Tasks
  <1>10. CASE \E w \in Workers : FinishErase(w)
    BY <1>10, <1>3, <1>t DEF FinishErase, Goes, To, TypeOK, Tasks
  <1>11. CASE \E w \in Workers : FinishReview(w) \/ Evict(w) \/ Fail(w)
    BY <1>11, <1>3, <1>i DEF FinishReview, Evict, Fail, To, TypeOK
  <1>12. CASE \E p \in Procs : Crash(p)
    BY <1>12, <1>3, <1>i DEF Crash
  <1>13. CASE UNCHANGED task
    BY <1>13, <1>t
  <1>14. QED
    BY <1>1, <1>2, <1>4, <1>5, <1>6, <1>7, <1>8, <1>9, <1>10, <1>11, <1>12, <1>13,
       NextCases DEF vars, Park

\* So every key a handler, a cache or a memory has keeps its creation.
LEMMA KeysStep ==
    ASSUME Inv, [Next]_vars
    PROVE  KeysKnown'
  <1> Typed /\ TypeOK /\ KeysKnown
    BY DEF Inv, Typed
  <1>g. {NoKey} \cup Known \subseteq {NoKey} \cup Known'
    BY KnownGrows
  <1>1. \A v \in Workers : task'[v].key \in {NoKey} \cup Known'
    BY <1>g, TaskKeys
  <1>2. \A p \in Procs : cache'[p] \in {NoKey} \cup Known'
    <2>1. CASE \E w \in Workers : KeyFound(w)
      BY <2>1, <1>g DEF KeyFound, KeysKnown, TypeOK
    <2>2. CASE \E w \in Workers : CreateKey(w)
      <3> PICK w \in Workers : CreateKey(w)  BY <2>2
      <3>1. CASE subject.key # NoKey
        BY <3>1, <1>g DEF CreateKey, KeysKnown
      <3>2. CASE subject.key = NoKey
        <4>1. task[w] \in Tasks
          BY DEF TypeOK
        <4>2. task'[w].key = made + 1
          <5>1. task'[w] = [task[w] EXCEPT !.at = "keyed", !.key = made + 1,
                                           !.creates = TRUE]
            BY <3>2 DEF CreateKey, To, TypeOK
          <5>2. QED  BY <4>1, <5>1 DEF Tasks
        <4>3. cache' = [cache EXCEPT ![Home[w]] = task'[w].key]
          BY <3>2, <4>2 DEF CreateKey
        <4>4. QED  BY <4>3, <1>1, <1>g DEF KeysKnown, TypeOK
      <3>3. QED  BY <3>1, <3>2
    <2>3. CASE \E w \in Workers : Evict(w)
      BY <2>3, <1>g DEF Evict, KeysKnown, TypeOK
    <2>4. CASE \E p \in Procs : Crash(p)
      BY <2>4, <1>g DEF Crash, KeysKnown, TypeOK
    <2>5. CASE UNCHANGED cache
      BY <2>5, <1>g DEF KeysKnown
    <2>6. QED
      BY <2>1, <2>2, <2>3, <2>4, <2>5, NextCases
         DEF vars, Begin, Park, BeginApprove, BeginReject, LookUpKey, Store, FinishReview,
             BeginErase, FinishErase, Fail
  <1>3. \A i \in DOMAIN memory' : memory'[i].key \in Known'
    <2>1. \A i \in DOMAIN memory' : memory'[i].key # NoKey
      <3>1. TypeOK'
        BY TypedStep DEF Typed
      <3>2. memory' \in Seq(Memories)
        BY <3>1 DEF TypeOK
      <3>3. \A i \in DOMAIN memory' : memory'[i] \in Memories
        BY <3>2, RowsTyped
      <3>4. QED  BY <3>3, WriteAssumption DEF Memories, Keys, NoKey
    <2>2. \A i \in DOMAIN memory : memory'[i].key \in {NoKey} \cup Known'
      BY <1>g, MemoryKept DEF KeysKnown
    <2>3. CASE \E w \in Workers : Store(w) /\ ~Answered(w)
      <3> PICK w \in Workers : Store(w) /\ ~Answered(w)  BY <2>3
      <3>1. DOMAIN memory' = (DOMAIN memory) \cup {Len(memory) + 1}
            /\ memory'[Len(memory) + 1].key = task[w].key
        BY StoreInserts
      <3>2. task[w].key \in {NoKey} \cup Known'
        BY <1>g DEF KeysKnown
      <3>3. QED  BY <2>1, <2>2, <3>1, <3>2
    <2>4. CASE DOMAIN memory' = DOMAIN memory
      BY <2>1, <2>2, <2>4
    <2>5. QED
      BY <2>3, <2>4, NextCases
         DEF vars, Begin, Park, BeginApprove, BeginReject, LookUpKey, KeyFound, CreateKey,
             Store, FinishReview, BeginErase, FinishErase, Evict, Fail, Crash
  <1>4. QED  BY <1>1, <1>2, <1>3 DEF KeysKnown

-----------------------------------------------------------------------------
(* Reviews.                                                                 *)

\* A reviewer comes to record an approval only from the write that stored its memory.
LEMMA ApprovingStep ==
    ASSUME Inv, [Next]_vars
    PROVE  ApprovingIsStored'
  <1> Typed /\ TypeOK /\ ApprovingIsStored
    BY DEF Inv, Typed
  <1> SUFFICES ASSUME NEW v \in Workers, task'[v].at = "approving"
               PROVE  /\ task'[v].stored \in DOMAIN memory'
                      /\ memory'[task'[v].stored].review = task'[v].review
    BY DEF ApprovingIsStored, Does
  <1>i. Idle \in Tasks /\ Idle.at = "idle"
    BY IdleTyped
  <1>t. task[v] \in Tasks
    BY DEF TypeOK
  <1>1. CASE task'[v] = task[v]
    BY <1>1, MemoryKept DEF ApprovingIsStored, Does
  <1>2. CASE \E w \in Workers : Store(w)
    <2> PICK w \in Workers : Store(w)  BY <1>2
    <2>1. CASE v = w
      <3>1. ~Answered(w)
        BY <2>1, <1>i DEF Store, To, TypeOK
      <3>2. task'[v] = [task[w] EXCEPT !.at = "approving", !.creates = FALSE,
                                       !.stored = Len(memory) + 1]
        BY <2>1, <3>1, <1>i DEF Store, To, TypeOK
      <3>3. task'[v].stored = Len(memory) + 1 /\ task'[v].review = task[w].review
        BY <2>1, <3>2, <1>t DEF Tasks
      <3>4. QED  BY <3>1, <3>3, StoreInserts
    <2>2. CASE v # w
      <3>1. PICK next : task' = [task EXCEPT ![w] = next]
        BY DEF Store, To
      <3>2. QED  BY <2>2, <3>1, <1>1 DEF TypeOK
    <2>3. QED  BY <2>1, <2>2
  <1>3. CASE \E w \in Workers, r \in Requests : Begin(w, r)
    BY <1>3, <1>1, <1>i DEF Begin, To, TypeOK, Tasks
  <1>4. CASE \E w \in Workers : \E i \in DOMAIN pending : BeginApprove(w, i)
    BY <1>4, <1>1, <1>i DEF BeginApprove, To, TypeOK, Tasks
  <1>5. CASE \E w \in Workers : \E i \in DOMAIN pending : BeginReject(w, i)
    BY <1>5, <1>1, <1>i DEF BeginReject, To, TypeOK, Tasks
  <1>6. CASE \E w \in Workers : LookUpKey(w)
    <2> PICK w \in Workers : LookUpKey(w)  BY <1>6
    <2>1. PICK next : /\ To(w, next)
                      /\ \/ next = [task[w] EXCEPT !.at = "keyed", !.key = cache[Home[w]]]
                         \/ next = [task[w] EXCEPT !.at = "creating"]
                         \/ next = Idle
                         \/ next = [task[w] EXCEPT !.at = "found", !.key = subject.key]
      BY DEF LookUpKey, TypeOK
    <2>2. task[w] \in Tasks
      BY DEF TypeOK
    <2>3. next.at # "approving"
      BY <2>1, <2>2, <1>i DEF Tasks
    <2>4. QED  BY <2>1, <2>3, <1>1 DEF To, TypeOK
  <1>7. CASE \E w \in Workers : KeyFound(w)
    BY <1>7, <1>1, <1>t DEF KeyFound, Goes, To, TypeOK, Tasks
  <1>8. CASE \E w \in Workers : CreateKey(w)
    <2> PICK w \in Workers : CreateKey(w)  BY <1>8
    <2>1. task[w] \in Tasks
      BY DEF TypeOK
    <2>2. PICK next : /\ To(w, next)
                      /\ \/ next = [task[w] EXCEPT !.at = "keyed", !.key = made + 1,
                                                   !.creates = TRUE]
                         \/ next = Idle
      BY DEF CreateKey
    <2>3. next.at # "approving"
      BY <2>1, <2>2, <1>i DEF Tasks
    <2>4. QED  BY <2>2, <2>3, <1>1 DEF To, TypeOK
  <1>9. CASE \E w \in Workers : BeginErase(w)
    <2> PICK w \in Workers : BeginErase(w)  BY <1>9
    <2> DEFINE selected == {i \in DOMAIN memory : ~memory[i].erased}
    <2> HIDE DEF selected
    <2>1. task' = [task EXCEPT ![w] = [Idle EXCEPT !.at = "erasing",
                                                   !.selected = selected]]
      BY DEF BeginErase, To, selected
    <2>2. QED  BY <2>1, <1>1, <1>i DEF TypeOK, Tasks
  <1>10. CASE \E w \in Workers : FinishErase(w)
    BY <1>10, <1>1, <1>t DEF FinishErase, Goes, To, TypeOK, Tasks
  <1>11. CASE \E w \in Workers : FinishReview(w) \/ Evict(w) \/ Fail(w)
    BY <1>11, <1>1, <1>i DEF FinishReview, Evict, Fail, To, TypeOK
  <1>12. CASE \E p \in Procs : Crash(p)
    BY <1>12, <1>1, <1>i DEF Crash
  <1>13. CASE UNCHANGED task
    BY <1>13, <1>1
  <1>14. QED
    BY <1>2, <1>3, <1>4, <1>5, <1>6, <1>7, <1>8, <1>9, <1>10, <1>11, <1>12, <1>13,
       NextCases DEF vars, Park

\* The outcome of a review names the memory its reviewer stored.
LEMMA ApprovedStep ==
    ASSUME Inv, [Next]_vars
    PROVE  ApprovedIsStored'
  <1> USE WriteAssumption DEF NoKey, None
  <1> Typed /\ TypeOK /\ TasksTyped /\ ApprovingIsStored /\ ApprovedIsStored
    BY DEF Inv, Typed
  <1>a. /\ Len(memory) \in Nat /\ DOMAIN memory = 1..Len(memory)
        /\ Len(pending) \in Nat /\ DOMAIN pending = 1..Len(pending)
        /\ \A k \in DOMAIN pending : pending[k] \in Items
    BY Tables
  <1>1. CASE UNCHANGED pending
    BY <1>1, MemoryKept DEF ApprovedIsStored
  <1>2. CASE \E w \in Workers, r \in Requests : Park(w, r)
    <2> PICK w \in Workers, r \in Requests : Park(w, r)  BY <1>2
    <2> DEFINE row == [request |-> r, status |-> "pending", memory |-> None]
    <2>1. row \in Items /\ row.status = "pending"
      BY DEF Items
    <2>2. pending' = Append(pending, row) /\ UNCHANGED memory
      BY DEF Park
    <2>3. pending \in Seq(Items)
      BY DEF TypeOK
    <2> HIDE DEF row
    <2>4. /\ DOMAIN pending' = 1..(Len(pending) + 1)
          /\ pending'[Len(pending) + 1] = row
          /\ \A k \in DOMAIN pending : pending'[k] = pending[k]
      BY <2>1, <2>2, <2>3, RowInserted
    <2>5. DOMAIN pending' = (DOMAIN pending) \cup {Len(pending) + 1}
      BY <2>4, <1>a
    <2>6. QED  BY <2>1, <2>2, <2>4, <2>5 DEF ApprovedIsStored
  <1>3. CASE \E w \in Workers : FinishReview(w)
    <2> PICK w \in Workers : FinishReview(w)  BY <1>3
    <2>1. task[w] \in Tasks /\ task[w].review \in DOMAIN pending /\ UNCHANGED memory
      BY DEF TypeOK, FinishReview, TasksTyped, Does
    <2>2. PICK status \in {"approved", "rejected"} :
              /\ Resolve(w, status)
              /\ status = "approved" => Does(w, "approving")
      BY DEF FinishReview
    <2> DEFINE row == [pending[task[w].review] EXCEPT !.status = status,
                         !.memory = IF task[w].stored = None THEN @ ELSE task[w].stored]
    <2>3. pending' = [pending EXCEPT ![task[w].review] = row]
      BY <2>2 DEF Resolve
    <2>4. pending[task[w].review] \in Items
      BY <2>1, <1>a
    <2>5. row.status = status
          /\ (task[w].stored # None => row.memory = task[w].stored)
      BY <2>4 DEF Items
    <2> HIDE DEF row
    <2>6. DOMAIN pending' = DOMAIN pending
          /\ \A k \in DOMAIN pending :
                pending'[k] = IF k = task[w].review THEN row ELSE pending[k]
      BY <2>1, <2>3
    <2>7. Does(w, "approving") =>
             /\ task[w].stored \in DOMAIN memory /\ task[w].stored # None
             /\ memory[task[w].stored].review = task[w].review
      BY <1>a DEF ApprovingIsStored
    <2> SUFFICES ASSUME NEW k \in DOMAIN pending, pending'[k].status = "approved"
                 PROVE  \E i \in DOMAIN memory : i = pending'[k].memory
                                                 /\ memory[i].review = k
      BY <2>1, <2>6 DEF ApprovedIsStored
    <2>8. CASE k = task[w].review
      <3>1. Does(w, "approving")
        BY <2>2, <2>5, <2>6, <2>8
      <3>2. QED  BY <3>1, <2>5, <2>6, <2>7, <2>8
    <2>9. CASE k # task[w].review
      BY <2>6, <2>9 DEF ApprovedIsStored
    <2>10. QED  BY <2>8, <2>9
  <1>4. QED
    BY <1>1, <1>2, <1>3, NextCases
       DEF vars, Begin, BeginApprove, BeginReject, LookUpKey, KeyFound, CreateKey, Store,
           BeginErase, FinishErase, Evict, Fail, Crash

-----------------------------------------------------------------------------
(* The theorems.                                                            *)

\* Every step keeps the invariant.
LEMMA InvStep ==
    ASSUME Inv, [Next]_vars
    PROVE  Inv'
  BY TypedStep, OnceStep, OneCreatorStep, KeysStep, ApprovingStep, ApprovedStep DEF Inv

\* The invariant holds in every reachable state.
LEMMA Invariance == Spec => []Inv
  BY InvInit, InvStep, PTL DEF Spec

\* Every state of the write path is of its type, however many processes and workers
\* there are.
THEOREM TypeCorrect == Spec => []TypeOK
  <1>1. Inv => TypeOK
    BY DEF Inv, Typed
  <1>2. QED  BY <1>1, Invariance, PTL

\* A write is stored once for its Idempotency-Key, whatever is sent again, fails or
\* crashes (add_memory_idempotent).
THEOREM WrittenOnce == Spec => []OncePerKey
  <1>1. Inv => OncePerKey
    BY DEF Inv
  <1>2. QED  BY <1>1, Invariance, PTL

\* A memory is encrypted under the key on record of its subject, or under one whose
\* creation is open or was rolled back (get_or_create_subject_key).
THEOREM EncryptedUnderKnown == Spec => []KeysOnRecord
  <1>1. Inv => KeysOnRecord
    BY DEF Inv, KeysKnown, Known, KeysOnRecord
  <1>2. QED  BY <1>1, Invariance, PTL

\* A held write recorded as approved has its memory (resolve_pending).
THEOREM ApprovedStored == Spec => []ApprovedIsStored
  <1>1. Inv => ApprovedIsStored
    BY DEF Inv
  <1>2. QED  BY <1>1, Invariance, PTL

\* A subject that has a key on record never gets another, and a destroyed one stays
\* destroyed (destroy_subject_key).
THEOREM KeyForGood == Spec => DestroyedForGood
  <1>1. ASSUME Inv, [Next]_vars
        PROVE  [subject.key # NoKey =>
                   subject'.key = subject.key
                   /\ (subject.destroyed => subject'.destroyed)]_subject
    <2> SUFFICES ASSUME subject.key # NoKey, subject' # subject
                 PROVE  subject'.key = subject.key
                        /\ (subject.destroyed => subject'.destroyed)
      OBVIOUS
    <2>1. Typed /\ TypeOK /\ OneCreator
      BY <1>1 DEF Inv, Typed
    <2>2. CASE \E w \in Workers : Store(w)
      BY <2>1, <2>2 DEF Store, OneCreator, Creators
    <2>3. CASE \E w \in Workers : FinishErase(w)
      BY <2>1, <2>3 DEF FinishErase, Destroyed, TypeOK
    <2>4. QED
      BY <1>1, <2>2, <2>3, NextCases
         DEF vars, Begin, Park, BeginApprove, BeginReject, LookUpKey, KeyFound, CreateKey,
             FinishReview, BeginErase, Evict, Fail, Crash
  <1>2. QED  BY <1>1, Invariance, PTL DEF Spec, DestroyedForGood
=============================================================================
