------------------------------ MODULE WritePath ------------------------------
(***************************************************************************)
(* What surrounds the ingestion of a memory about one data subject in the  *)
(* hosted server (agentmem/src/lians): idempotency keys and the in-process *)
(* cache of the subject's key (memory_service.py, pii.py, dek_cache.py),   *)
(* writes held for review (admission_service.py), and the erasure of the   *)
(* subject.  What ingestion does to other memories is MemoryLifecycle's.   *)
(*                                                                         *)
(* A step ends where a handler awaits and another could change what it     *)
(* read; a transaction's writes are seen when it commits, the cache of a   *)
(* process at once.                                                        *)
(***************************************************************************)
EXTENDS Integers, Sequences, FiniteSets

CONSTANTS
    Procs,       \* processes of the server
    Workers,     \* requests being handled at once
    Home,        \* worker -> its process
    Requests,    \* writes of clients, each with its Idempotency-Key
    Held,        \* those that admission control holds for review
    MaxKeys,     \* bound: keys ever generated
    MaxMemories, \* bound: memories ever written
    MaxPending,  \* bound: writes ever held
    MaxFaults    \* bound: transactions rolled back and processes that die

ASSUME WriteAssumption ==
    /\ Requests # {} /\ Home \in [Workers -> Procs]
    /\ Held \subseteq Requests
    /\ MaxKeys \in Nat /\ MaxMemories \in Nat /\ MaxPending \in Nat
    /\ MaxFaults \in Nat

VARIABLES
    subject,  \* the subject_keys row: its key, 0 without a row, and destroyed_at
    made,     \* how many keys have been generated; the i-th is key i
    cache,    \* process -> the key in _dek_cache, or 0
    memory,   \* memories, in the order they were committed
    idem,     \* idempotency_keys: request -> its memory, or 0
    pending,  \* pending_admissions
    task,     \* worker -> the request it is handling
    lost,     \* ghost: keys whose creation was rolled back
    faults    \* how many faults there have been

vars == <<subject, made, cache, memory, idem, pending, task, lost, faults>>

NoKey == 0
Keys  == 1..MaxKeys
None  == 0            \* no memory, no held write

\* A memory: who asked for it, the held write it was approved from, the key its
\* content is encrypted under, erased_at.
Memories == [request : Requests, review : 0..MaxPending, key : Keys, erased : BOOLEAN]

Items == [request : Requests, status : {"pending", "approved", "rejected"},
          memory : 0..MaxMemories]

\* key, stored and selected are the handler's: the key of the subject it resolved,
\* the memory it added, the memories it erases; creates: it flushed that key's row.
Tasks == [at : {"idle", "admitted", "found", "creating", "keyed", "approving",
                "rejecting", "erasing", "evicting"},
          request : Requests, review : 0..MaxPending, key : {NoKey} \cup Keys,
          creates : BOOLEAN, stored : 0..MaxMemories, selected : SUBSET (1..MaxMemories)]

TypeOK ==
    /\ subject \in [key : {NoKey} \cup 1..made, destroyed : BOOLEAN]
    /\ subject.destroyed => subject.key # NoKey
    /\ made \in 0..MaxKeys
    /\ cache \in [Procs -> {NoKey} \cup 1..made]
    /\ memory \in Seq(Memories) /\ Len(memory) <= MaxMemories
    /\ idem \in [Requests -> 0..Len(memory)]
    /\ pending \in Seq(Items) /\ Len(pending) <= MaxPending
    /\ task \in [Workers -> Tasks]
    /\ lost \subseteq 1..made
    /\ faults \in 0..MaxFaults

Idle == [at |-> "idle", request |-> CHOOSE r \in Requests : TRUE, review |-> None,
         key |-> NoKey, creates |-> FALSE, stored |-> None, selected |-> {}]

Init ==
    /\ subject = [key |-> NoKey, destroyed |-> FALSE]
    /\ made = 0
    /\ cache = [p \in Procs |-> NoKey]
    /\ memory = <<>>
    /\ idem = [r \in Requests |-> None]
    /\ pending = <<>>
    /\ task = [w \in Workers |-> Idle]
    /\ lost = {}
    /\ faults = 0

Does(w, step) == task[w].at = step
To(w, next)   == task' = [task EXCEPT ![w] = next]
Goes(w, step) == To(w, [task[w] EXCEPT !.at = step])

Creators == {w \in Workers : task[w].creates}

\* The transaction of w is over without effect: the row of a key it made is gone.
Rolled(W) == lost' = lost \cup {task[w].key : w \in Creators \cap W}

-----------------------------------------------------------------------------
(* A write with an Idempotency-Key: add_memory_idempotent, and the          *)
(* admission control of add_memory.                                         *)

\* A request that has not been answered with a memory yet.
Begin(w, r) ==
    /\ Does(w, "idle") /\ idem[r] = None /\ r \notin Held
    /\ To(w, [Idle EXCEPT !.at = "admitted", !.request = r])
    /\ UNCHANGED <<subject, made, cache, memory, idem, pending, lost, faults>>

\* One that is held: the pending admission commits, and nothing is remembered of
\* the Idempotency-Key.
Park(w, r) ==
    /\ Does(w, "idle") /\ idem[r] = None /\ r \in Held
    /\ Len(pending) < MaxPending
    /\ pending' = Append(pending, [request |-> r, status |-> "pending", memory |-> None])
    /\ UNCHANGED <<subject, made, cache, memory, idem, task, lost, faults>>

-----------------------------------------------------------------------------
(* The key of the subject: _resolve_subject_key, get_or_create_subject_key. *)

\* The key is in the cache of the process, or the row is read; a destroyed key is
\* not made again.
LookUpKey(w) ==
    LET held == cache[Home[w]] IN
    /\ Does(w, "admitted")
    /\ To(w, CASE held # NoKey        -> [task[w] EXCEPT !.at = "keyed", !.key = held]
               [] held = NoKey /\ subject.key = NoKey
                                      -> [task[w] EXCEPT !.at = "creating"]
               [] held = NoKey /\ subject.key # NoKey /\ subject.destroyed
                                      -> Idle
               [] OTHER               -> [task[w] EXCEPT !.at = "found",
                                                         !.key = subject.key])
    /\ UNCHANGED <<subject, made, cache, memory, idem, pending, lost, faults>>

\* The row that was read is unwrapped and cached, whatever has happened to it since.
KeyFound(w) ==
    /\ Does(w, "found")
    /\ Goes(w, "keyed")
    /\ cache' = [cache EXCEPT ![Home[w]] = task[w].key]
    /\ UNCHANGED <<subject, made, memory, idem, pending, lost, faults>>

\* Mutant of CreateKey: subject_keys has no primary key.
CreateKeyTwice(w) ==
    /\ Does(w, "creating") /\ made < MaxKeys
    /\ made' = made + 1
    /\ To(w, [task[w] EXCEPT !.at = "keyed", !.key = made + 1, !.creates = TRUE])
    /\ cache' = [cache EXCEPT ![Home[w]] = made + 1]
    /\ UNCHANGED <<subject, memory, idem, pending, lost, faults>>

\* The row of a new key is flushed, and the key is in the cache of the process
\* before the row commits.  A flush waits for the transaction that flushed another
\* row of the subject, and fails if that row committed.
CreateKey(w) ==
    /\ Does(w, "creating") /\ Creators = {}
    /\ IF subject.key = NoKey
       THEN /\ made < MaxKeys
            /\ made' = made + 1
            /\ To(w, [task[w] EXCEPT !.at = "keyed", !.key = made + 1, !.creates = TRUE])
            /\ cache' = [cache EXCEPT ![Home[w]] = made + 1]
       ELSE /\ To(w, Idle)
            /\ UNCHANGED <<made, cache>>
    /\ UNCHANGED <<subject, memory, idem, pending, lost, faults>>

-----------------------------------------------------------------------------
(* Under the write lock of the agent, to the commit.                        *)

\* Mutant of Answered: the row of the Idempotency-Key is written over.
AnsweredNever(w) == FALSE

\* Another transaction committed the Idempotency-Key first.  An approval has none.
Answered(w) == task[w].review = None /\ idem[task[w].request] # None

\* The memory, its Idempotency-Key and a new key of the subject commit as one; or
\* the key is taken, everything is rolled back, and the row of the other returned.
\* An approval goes on to write the outcome of the review.
Store(w) ==
    LET t == task[w] IN
    /\ Does(w, "keyed")
    /\ IF Answered(w)
       THEN /\ To(w, Idle)
            /\ Rolled({w})
            /\ UNCHANGED <<subject, memory, idem>>
       ELSE /\ Len(memory) < MaxMemories
            /\ memory' = Append(memory, [request |-> t.request, review |-> t.review,
                                         key |-> t.key, erased |-> FALSE])
            /\ idem' = IF t.review = None
                       THEN [idem EXCEPT ![t.request] = Len(memory) + 1] ELSE idem
            /\ subject' = IF t.creates THEN [key |-> t.key, destroyed |-> FALSE]
                          ELSE subject
            /\ To(w, IF t.review = None THEN Idle
                     ELSE [t EXCEPT !.at = "approving", !.creates = FALSE,
                                    !.stored = Len(memory) + 1])
            /\ UNCHANGED lost
    /\ UNCHANGED <<made, cache, pending, faults>>

-----------------------------------------------------------------------------
(* Reviews of held writes: resolve_pending tests the status, awaits, and     *)
(* writes it.                                                                *)

Reviewable(w, i) == Does(w, "idle") /\ pending[i].status = "pending"

\* Approving is a write of its own, which commits before the outcome is written.
BeginApprove(w, i) ==
    /\ Reviewable(w, i)
    /\ To(w, [Idle EXCEPT !.at = "admitted", !.review = i,
                          !.request = pending[i].request])
    /\ UNCHANGED <<subject, made, cache, memory, idem, pending, lost, faults>>

BeginReject(w, i) ==
    /\ Reviewable(w, i)
    /\ To(w, [Idle EXCEPT !.at = "rejecting", !.review = i])
    /\ UNCHANGED <<subject, made, cache, memory, idem, pending, lost, faults>>

\* Mutant of Resolve: the outcome does not name the memory.
ResolveBare(w, status) ==
    pending' = [pending EXCEPT ![task[w].review].status = status]

Resolve(w, status) ==
    LET item == pending[task[w].review]
        now  == [item EXCEPT !.status = status,
                             !.memory = IF task[w].stored = None THEN @ ELSE task[w].stored]
    IN  pending' = [pending EXCEPT ![task[w].review] = now]

FinishReview(w) ==
    /\ \/ Does(w, "approving") /\ Resolve(w, "approved")
       \/ Does(w, "rejecting") /\ Resolve(w, "rejected")
    /\ To(w, Idle)
    /\ UNCHANGED <<subject, made, cache, memory, idem, lost, faults>>

-----------------------------------------------------------------------------
(* erase_subject: without the write lock.                                   *)

BeginErase(w) ==
    /\ Does(w, "idle")
    /\ To(w, [Idle EXCEPT !.at = "erasing",
                 !.selected = {i \in DOMAIN memory : ~memory[i].erased}])
    /\ UNCHANGED <<subject, made, cache, memory, idem, pending, lost, faults>>

\* Mutant of Destroyed: the row is deleted.
DestroyedRow == [key |-> NoKey, destroyed |-> FALSE]

\* destroy_subject_key: the row stays, without its key; without a row, nothing.
Destroyed == [subject EXCEPT !.destroyed = subject.key # NoKey]

\* The memories that were selected are erased and the key of the subject destroyed.
FinishErase(w) ==
    /\ Does(w, "erasing")
    /\ memory' = [i \in DOMAIN memory |->
                     [memory[i] EXCEPT !.erased = @ \/ i \in task[w].selected]]
    /\ subject' = Destroyed
    /\ Goes(w, "evicting")
    /\ UNCHANGED <<made, cache, idem, pending, lost, faults>>

\* The key leaves the cache of this process.
Evict(w) ==
    /\ Does(w, "evicting")
    /\ cache' = [cache EXCEPT ![Home[w]] = NoKey]
    /\ To(w, Idle)
    /\ UNCHANGED <<subject, made, memory, idem, pending, lost, faults>>

-----------------------------------------------------------------------------
(* Faults.                                                                  *)

\* A request fails: its open transaction is rolled back, the cache keeps the key.
Fail(w) ==
    /\ ~Does(w, "idle") /\ faults < MaxFaults
    /\ To(w, Idle)
    /\ Rolled({w})
    /\ faults' = faults + 1
    /\ UNCHANGED <<subject, made, cache, memory, idem, pending>>

\* A process dies and starts again.
Crash(p) ==
    LET W == {w \in Workers : Home[w] = p} IN
    /\ faults < MaxFaults
    /\ task' = [w \in Workers |-> IF w \in W THEN Idle ELSE task[w]]
    /\ cache' = [cache EXCEPT ![p] = NoKey]
    /\ Rolled(W)
    /\ faults' = faults + 1
    /\ UNCHANGED <<subject, made, memory, idem, pending>>

Next ==
    \/ \E w \in Workers, r \in Requests : Begin(w, r) \/ Park(w, r)
    \/ \E w \in Workers, i \in DOMAIN pending : BeginApprove(w, i) \/ BeginReject(w, i)
    \/ \E w \in Workers :
          LookUpKey(w) \/ KeyFound(w) \/ CreateKey(w) \/ Store(w) \/ FinishReview(w)
            \/ BeginErase(w) \/ FinishErase(w) \/ Evict(w) \/ Fail(w)
    \/ \E p \in Procs : Crash(p)

Spec == Init /\ [][Next]_vars

-----------------------------------------------------------------------------
(* Correctness.                                                             *)

\* However often a write is sent, at once or again after a lost reply, in whatever
\* processes, at most one memory is written for it without a review, and while the
\* memory is there the Idempotency-Key names it.
OncePerKey ==
    \A i \in DOMAIN memory :
        memory[i].review = None => idem[memory[i].request] = i

\* A subject has one key: however many requests create it at once, a memory is
\* encrypted under the key on record, or under one whose creation is still open or
\* was rolled back.
KeysOnRecord ==
    \A i \in DOMAIN memory :
        memory[i].key \in lost \cup {subject.key} \cup {task[w].key : w \in Creators}

\* A held write that is recorded as approved has its memory, encrypted and written
\* for that review, though the memory commits first and the review may fail between
\* the two.
ApprovedIsStored ==
    \A k \in DOMAIN pending :
        pending[k].status = "approved" =>
            \E i \in DOMAIN memory : i = pending[k].memory /\ memory[i].review = k

\* A subject gets one key on record for ever, and none again once it is destroyed: no
\* request that was already under way when the subject was erased makes a new one.
DestroyedForGood ==
    [][subject.key # NoKey =>
          subject'.key = subject.key /\ (subject.destroyed => subject'.destroyed)]_subject

\* What every write promises: the content of a memory can be read until it is erased.
WrittenIsReadable ==
    \A i \in DOMAIN memory :
        ~memory[i].erased /\ ~subject.destroyed /\ Creators = {} =>
            memory[i].key = subject.key

\* "Already resolved": a held write is reviewed once, so one memory at most comes of it.
AdmittedOnce ==
    \A i, j \in DOMAIN memory :
        memory[i].review # None /\ memory[i].review = memory[j].review => i = j

\* A held write that is recorded as rejected has not become a memory.
RejectedIsNotStored ==
    \A i \in DOMAIN memory :
        memory[i].review # None => pending[memory[i].review].status # "rejected"

\* A retried write is held once.
ParkedOnce ==
    \A j, k \in DOMAIN pending : pending[j].request = pending[k].request => j = k

\* A destroyed key is never served from cache, once the erasure is over.
DestroyedNotServed ==
    subject.destroyed /\ (\A w \in Workers : ~Does(w, "evicting")) =>
        \A p \in Procs : cache[p] # subject.key

\* Once the key of the subject is destroyed, all its memories are erased.
ErasedForGood ==
    subject.destroyed => \A i \in DOMAIN memory : memory[i].erased
=============================================================================
