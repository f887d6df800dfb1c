-------------------------- MODULE DurableJobsProofs --------------------------
(***************************************************************************)
(* What TLAPS proves of DurableJobs for any number of jobs and workers.    *)
(* The core invariant speaks of every job, of workers that overstay their  *)
(* leases and of writes that come late.  Exclusive leases are proved of    *)
(* the jobs whose leases no live worker has outlived, those not in late.   *)
(***************************************************************************)
EXTENDS DurableJobs, FiniteSets, FiniteSetTheorems, TLAPS

-----------------------------------------------------------------------------
(* The core invariant.  A worker past the handler has had the effect, and  *)
(* a worker about to dead-letter read a row whose attempts were used up;   *)
(* both stay true however stale its view of the row has become.            *)

CompletesHandled ==
    \A w \in Workers : pc[w] \in {"returned", "completing"} => handled[job[w]]

DeadLettersExhausted ==
    \A w \in Workers :
        pc[w] = "failing" /\ exhausted[w] => attempts[job[w]] = MaxAttempts

Core ==
    /\ TypeOK
    /\ OnlyHandledComplete
    /\ CompletesHandled
    /\ DeadIsExhausted
    /\ DeadLettersExhausted

\* The queue starts in the core invariant: nothing is enqueued, nobody is busy.
LEMMA CoreInit == Init => Core
  BY ConstantsAssumption
     DEF Init, Core, TypeOK, Statuses, Steps, OnlyHandledComplete,
         CompletesHandled, DeadIsExhausted, DeadLettersExhausted

\* Every step of Next is one of the actions, of some job or of some worker.
LEMMA NextCases ==
    ASSUME Next
    PROVE  \/ \E j \in Jobs : Enqueue(j)
           \/ \E j \in Jobs : CompleteDirectly(j)
           \/ \E j \in Jobs : ComeDue(j)
           \/ \E j \in Jobs : Expire(j)
           \/ \E w \in Workers : Lease(w)
           \/ \E w \in Workers, j \in Jobs : Start(w, j)
           \/ \E w \in Workers : Finish(w)
           \/ \E w \in Workers : HandlerReturns(w)
           \/ \E w \in Workers : HandlerRaises(w)
           \/ \E w \in Workers : BeginComplete(w)
           \/ \E w \in Workers : CommitComplete(w)
           \/ \E w \in Workers : BeginFail(w)
           \/ \E w \in Workers : CommitFail(w)
           \/ \E w \in Workers : Crash(w)
           \/ \E w \in Workers : CompleteErrs(w)
           \/ \E w \in Workers : WorkerErrs(w)
           \/ \E w \in Workers : Restart(w)
  BY DEF Next, Clock, Drain, Fault

\* Leasing counts an attempt of jobs that have one left, and nothing else that
\* the core invariant speaks of.
LEMMA CoreLease ==
    ASSUME Core, NEW w \in Workers, Lease(w)
    PROVE  Core'
  <1> USE ConstantsAssumption
  <1> DEFINE leased == {j \in Jobs : Leasable(j)}
  <1>1. TypeOK'
    <2>1. \A j \in leased : attempts[j] + 1 \in 0..MaxAttempts
      BY DEF Core, TypeOK, Leasable
    <2>2. attempts' \in [Jobs -> 0..MaxAttempts]
      BY <2>1 DEF Core, TypeOK, Lease
    <2>3. status' \in [Jobs -> Statuses] /\ leasedBy' \in [Jobs -> Workers \cup {Gone}]
      BY DEF Core, TypeOK, Lease, Statuses
    <2>4. ready' \in [Jobs -> BOOLEAN] /\ batch' \in [Workers -> SUBSET Jobs]
      BY DEF Core, TypeOK, Lease
    <2>5. pc' \in [Workers -> Steps]
      BY DEF Core, TypeOK, Lease, Steps
    <2>6. QED  BY <2>2, <2>3, <2>4, <2>5 DEF Core, TypeOK, Lease, ghost
  <1>2. OnlyHandledComplete'
    BY DEF Core, TypeOK, Lease, OnlyHandledComplete, ghost
  <1>3. CompletesHandled'
    BY DEF Core, TypeOK, Lease, CompletesHandled, ghost
  <1>4. DeadIsExhausted'
    BY DEF Core, TypeOK, Lease, Leasable, DeadIsExhausted
  <1>5. DeadLettersExhausted'
    <2> SUFFICES ASSUME NEW v \in Workers, pc'[v] = "failing", exhausted'[v]
                 PROVE  attempts'[job'[v]] = MaxAttempts
      BY DEF DeadLettersExhausted
    <2>1. pc[v] = "failing" /\ exhausted[v] /\ job' = job
      BY DEF Core, TypeOK, Lease
    <2>2. attempts[job[v]] = MaxAttempts /\ job[v] \in Jobs
      BY <2>1 DEF Core, TypeOK, DeadLettersExhausted
    <2>3. ~Leasable(job[v])
      BY <2>2 DEF Leasable
    <2>4. QED  BY <2>1, <2>2, <2>3 DEF Lease
  <1>6. QED  BY <1>1, <1>2, <1>3, <1>4, <1>5 DEF Core

\* A worker that ends keeps nothing the core invariant speaks of.
LEMMA CoreEnd ==
    ASSUME Core, NEW w \in Workers, NEW step \in {"down", "stopped"}, End(w, step)
    PROVE  Core'
  <1> USE ConstantsAssumption
  <1>1. TypeOK'
    BY DEF Core, TypeOK, End, Steps, ghost
  <1>2. OnlyHandledComplete' /\ DeadIsExhausted'
    BY DEF Core, OnlyHandledComplete, DeadIsExhausted, End, ghost
  <1>3. CompletesHandled' /\ DeadLettersExhausted'
    BY DEF Core, TypeOK, CompletesHandled, DeadLettersExhausted, End, ghost
  <1>4. QED  BY <1>1, <1>2, <1>3 DEF Core

\* Every step preserves the core invariant.
LEMMA CoreStep ==
    ASSUME Core, [Next]_vars
    PROVE  Core'
  <1> USE ConstantsAssumption
  <1> USE DEF row, worker, ghost
  <1>1. CASE \E j \in Jobs : Enqueue(j)
    BY <1>1 DEF Enqueue, Core, TypeOK, Statuses, OnlyHandledComplete,
                CompletesHandled, DeadIsExhausted, DeadLettersExhausted
  <1>2. CASE \E j \in Jobs : CompleteDirectly(j)
    <2> PICK j \in Jobs : CompleteDirectly(j)  BY <1>2
    <2>1. TypeOK'
      BY DEF CompleteDirectly, Core, TypeOK, Statuses
    <2>2. OnlyHandledComplete' /\ CompletesHandled'
      BY DEF CompleteDirectly, Core, TypeOK, OnlyHandledComplete, CompletesHandled
    <2>3. DeadIsExhausted' /\ DeadLettersExhausted'
      BY DEF CompleteDirectly, Core, TypeOK, DeadIsExhausted, DeadLettersExhausted
    <2>4. QED  BY <2>1, <2>2, <2>3 DEF Core
  <1>3. CASE \E j \in Jobs : ComeDue(j)
    BY <1>3 DEF ComeDue, Core, TypeOK, OnlyHandledComplete, CompletesHandled,
                DeadIsExhausted, DeadLettersExhausted
  <1>4. CASE \E j \in Jobs : Expire(j)
    BY <1>4 DEF Expire, Core, TypeOK, OnlyHandledComplete, CompletesHandled,
                DeadIsExhausted, DeadLettersExhausted
  <1>5. CASE \E w \in Workers : Lease(w)
    BY <1>5, CoreLease
  <1>6. CASE \E w \in Workers, j \in Jobs : Start(w, j)
    <2> PICK w \in Workers, j \in Jobs : Start(w, j)  BY <1>6
    <2>1. TypeOK'
      BY DEF Start, Core, TypeOK, Steps
    <2>2. OnlyHandledComplete' /\ CompletesHandled'
      BY DEF Start, Core, TypeOK, OnlyHandledComplete, CompletesHandled
    <2>3. DeadIsExhausted' /\ DeadLettersExhausted'
      BY DEF Start, Core, TypeOK, DeadIsExhausted, DeadLettersExhausted
    <2>4. QED  BY <2>1, <2>2, <2>3 DEF Core
  <1>7. CASE \E w \in Workers : Finish(w)
    BY <1>7 DEF Finish, Core, TypeOK, Steps, OnlyHandledComplete, CompletesHandled,
                DeadIsExhausted, DeadLettersExhausted
  <1>8. CASE \E w \in Workers : HandlerReturns(w)
    <2> PICK w \in Workers : HandlerReturns(w)  BY <1>8
    <2>1. TypeOK'
      BY DEF HandlerReturns, Core, TypeOK, Steps
    <2>2. OnlyHandledComplete' /\ CompletesHandled'
      BY DEF HandlerReturns, Core, TypeOK, OnlyHandledComplete, CompletesHandled
    <2>3. DeadIsExhausted' /\ DeadLettersExhausted'
      BY DEF HandlerReturns, Core, TypeOK, DeadIsExhausted, DeadLettersExhausted
    <2>4. QED  BY <2>1, <2>2, <2>3 DEF Core
  <1>9. CASE \E w \in Workers : HandlerRaises(w)
    <2> PICK w \in Workers : HandlerRaises(w)  BY <1>9
    <2> PICK happened \in BOOLEAN :
               handled' = [handled EXCEPT ![job[w]] = @ \/ happened]
      BY DEF HandlerRaises
    <2>1. TypeOK'
      BY DEF HandlerRaises, Core, TypeOK, Steps
    <2>2. OnlyHandledComplete' /\ CompletesHandled'
      BY DEF HandlerRaises, Core, TypeOK, OnlyHandledComplete, CompletesHandled
    <2>3. DeadIsExhausted' /\ DeadLettersExhausted'
      BY DEF HandlerRaises, Core, TypeOK, DeadIsExhausted, DeadLettersExhausted
    <2>4. QED  BY <2>1, <2>2, <2>3 DEF Core
  <1>10. CASE \E w \in Workers : BeginComplete(w)
    BY <1>10 DEF BeginComplete, Core, TypeOK, Steps, OnlyHandledComplete,
                 CompletesHandled, DeadIsExhausted, DeadLettersExhausted
  <1>11. CASE \E w \in Workers : CommitComplete(w)
    <2> PICK w \in Workers : CommitComplete(w)  BY <1>11
    <2>1. TypeOK'
      BY DEF CommitComplete, Core, TypeOK, Steps, Statuses
    <2>2. OnlyHandledComplete' /\ CompletesHandled'
      BY DEF CommitComplete, Core, TypeOK, OnlyHandledComplete, CompletesHandled
    <2>3. DeadIsExhausted' /\ DeadLettersExhausted'
      BY DEF CommitComplete, Core, TypeOK, DeadIsExhausted, DeadLettersExhausted
    <2>4. QED  BY <2>1, <2>2, <2>3 DEF Core
  <1>12. CASE \E w \in Workers : BeginFail(w)
    <2> PICK w \in Workers : BeginFail(w)  BY <1>12
    <2>1. TypeOK'
      BY DEF BeginFail, Core, TypeOK, Steps, Exhausted
    <2>2. OnlyHandledComplete' /\ CompletesHandled' /\ DeadIsExhausted'
      BY DEF BeginFail, Core, TypeOK, OnlyHandledComplete, CompletesHandled,
             DeadIsExhausted
    <2>3. DeadLettersExhausted'
      <3> SUFFICES ASSUME NEW v \in Workers, pc'[v] = "failing", exhausted'[v]
                   PROVE  attempts'[job'[v]] = MaxAttempts
        BY DEF DeadLettersExhausted
      <3>1. CASE v = w
        <4>1. Exhausted(job[w]) /\ attempts' = attempts /\ job' = job
          BY <3>1 DEF BeginFail, Core, TypeOK
        <4>2. attempts[job[w]] \in 0..MaxAttempts
          BY DEF Core, TypeOK
        <4>3. QED  BY <3>1, <4>1, <4>2 DEF Exhausted
      <3>2. CASE v # w
        BY <3>2 DEF BeginFail, Core, TypeOK, DeadLettersExhausted
      <3>3. QED  BY <3>1, <3>2
    <2>4. QED  BY <2>1, <2>2, <2>3 DEF Core
  <1>13. CASE \E w \in Workers : CommitFail(w)
    <2> PICK w \in Workers : CommitFail(w)  BY <1>13
    <2>1. TypeOK'
      BY DEF CommitFail, Core, TypeOK, Steps, Statuses
    <2>2. OnlyHandledComplete' /\ CompletesHandled'
      BY DEF CommitFail, Core, TypeOK, OnlyHandledComplete, CompletesHandled
    <2>3. DeadIsExhausted' /\ DeadLettersExhausted'
      BY DEF CommitFail, Core, TypeOK, DeadIsExhausted, DeadLettersExhausted
    <2>4. QED  BY <2>1, <2>2, <2>3 DEF Core
  <1>14. CASE \E w \in Workers : Crash(w)
    BY <1>14, CoreEnd DEF Crash
  <1>15. CASE \E w \in Workers : CompleteErrs(w)
    <2> PICK w \in Workers : CompleteErrs(w)  BY <1>15
    <2>1. TypeOK'
      BY DEF CompleteErrs, Core, TypeOK, Steps, Statuses
    <2>2. OnlyHandledComplete' /\ CompletesHandled'
      BY DEF CompleteErrs, Core, TypeOK, OnlyHandledComplete, CompletesHandled
    <2>3. DeadIsExhausted' /\ DeadLettersExhausted'
      BY DEF CompleteErrs, Core, TypeOK, DeadIsExhausted, DeadLettersExhausted
    <2>4. QED  BY <2>1, <2>2, <2>3 DEF Core
  <1>16. CASE \E w \in Workers : WorkerErrs(w)
    BY <1>16, CoreEnd DEF WorkerErrs
  <1>17. CASE \E w \in Workers : Restart(w)
    BY <1>17 DEF Restart, Core, TypeOK, Steps, OnlyHandledComplete, CompletesHandled,
                 DeadIsExhausted, DeadLettersExhausted
  <1>18. CASE UNCHANGED vars
    BY <1>18 DEF vars, Core, TypeOK, OnlyHandledComplete, CompletesHandled,
                 DeadIsExhausted, DeadLettersExhausted
  <1>19. QED
    BY NextCases, <1>1, <1>2, <1>3, <1>4, <1>5, <1>6, <1>7, <1>8, <1>9, <1>10, <1>11,
       <1>12, <1>13, <1>14, <1>15, <1>16, <1>17, <1>18

\* The core invariant holds of every reachable state.
THEOREM CoreInvariant == Spec => []Core
  <1>1. Init => Core  BY CoreInit
  <1>2. Core /\ [Next]_vars => Core'  BY CoreStep
  <1>3. QED  BY <1>1, <1>2, PTL DEF Spec

\* Rows, workers and ghosts keep their types; above all, attempts never exceeds
\* max_attempts.
THEOREM TypeCorrect == Spec => []TypeOK
  BY CoreInvariant, PTL DEF Core

\* A row is marked completed only when its side effect has happened.
THEOREM CompletedIsHandled == Spec => []OnlyHandledComplete
  BY CoreInvariant, PTL DEF Core

\* Only a job whose attempts are used up is dead-lettered.
THEOREM DeadLetterIsEarned == Spec => []DeadIsExhausted
  BY CoreInvariant, PTL DEF Core
-----------------------------------------------------------------------------
(* Exclusive leases.  A worker holds the jobs of its batch and the one it  *)
(* dispatches.  While it does, the row is leased to it and its lease runs, *)
(* unless the row is completed, by a request or by a commit of its own     *)
(* that it believes to have failed; so nobody else can lease it.           *)

Held(w, j) == j \in batch[w] \/ (pc[w] \in Busy /\ job[w] = j)

Raised(w, j) == pc[w] = "raised" /\ job[w] = j

Owned(w, j) ==
    \/ status[j] = "leased" /\ leasedBy[j] = w /\ ~ready[j]
    \/ status[j] = "completed" /\ (j \in Flushed \/ Raised(w, j))

LeasedWhileHeld ==
    \A w \in Workers, j \in Jobs \ late : Held(w, j) => Owned(w, j)

HeldByOne ==
    \A v, w \in Workers, j \in Jobs \ late : Held(v, j) /\ Held(w, j) => v = w

DispatchedOnce == \A w \in Workers : pc[w] \in Busy => job[w] \notin batch[w]

Exclusive == TypeOK /\ LeasedWhileHeld /\ HeldByOne /\ DispatchedOnce

\* Nobody holds anything at first.
LEMMA ExclusiveInit == Init => Exclusive
  <1> SUFFICES ASSUME Init PROVE Exclusive
    OBVIOUS
  <1>1. TypeOK  BY CoreInit DEF Core
  <1>2. \A w \in Workers, j \in Jobs : ~Held(w, j)
    BY DEF Init, Held, Busy
  <1>3. DispatchedOnce  BY DEF Init, DispatchedOnce, Busy
  <1>4. QED  BY <1>1, <1>2, <1>3 DEF Exclusive, LeasedWhileHeld, HeldByOne

\* A step that takes no job and leaves rows alone keeps leases exclusive.
LEMMA KeepsHold ==
    ASSUME Exclusive, TypeOK', UNCHANGED <<status, leasedBy, ready, late>>,
           \A w \in Workers, j \in Jobs :
               Held(w, j)' => Held(w, j) /\ (Raised(w, j) => Raised(w, j)'),
           DispatchedOnce'
    PROVE  Exclusive'
  <1>1. LeasedWhileHeld'
    BY DEF Exclusive, LeasedWhileHeld, Owned
  <1>2. QED  BY <1>1 DEF Exclusive, HeldByOne

\* A step that changes the row of one job, held by nobody afterwards, keeps
\* leases exclusive.
LEMMA DropsHold ==
    ASSUME Exclusive, TypeOK', NEW j \in Jobs, late \subseteq late',
           \A i \in Jobs \ {j} :
               status'[i] = status[i] /\ leasedBy'[i] = leasedBy[i] /\ ready'[i] = ready[i],
           \A w \in Workers, i \in Jobs :
               Held(w, i)' => Held(w, i) /\ (Raised(w, i) => Raised(w, i)'),
           \A w \in Workers : j \notin late' => ~Held(w, j)',
           DispatchedOnce'
    PROVE  Exclusive'
  <1>1. LeasedWhileHeld'
    <2> SUFFICES ASSUME NEW w \in Workers, NEW i \in Jobs \ late', Held(w, i)'
                 PROVE  Owned(w, i)'
      BY DEF LeasedWhileHeld
    <2>1. i # j /\ Held(w, i)  OBVIOUS
    <2>2. QED  BY <2>1 DEF Exclusive, LeasedWhileHeld, Owned
  <1>2. HeldByOne'  BY DEF Exclusive, HeldByOne
  <1>3. QED  BY <1>1, <1>2 DEF Exclusive

\* The worker at work on job[w] is the only one to hold it, so the row it writes
\* is no one's lease afterwards (complete_job, fail_job).
LEMMA ExclusiveWrite ==
    ASSUME Exclusive, TypeOK', NEW w \in Workers, pc[w] \in {"completing", "failing"},
           pc' = [pc EXCEPT ![w] = "dispatch"], UNCHANGED <<batch, job, late>>,
           \A i \in Jobs \ {job[w]} :
               status'[i] = status[i] /\ leasedBy'[i] = leasedBy[i] /\ ready'[i] = ready[i]
    PROVE  Exclusive'
  <1>1. job[w] \in Jobs /\ Held(w, job[w]) /\ job[w] \notin batch[w]
    BY DEF Exclusive, TypeOK, DispatchedOnce, Held, Busy
  <1>2. \A v \in Workers, i \in Jobs :
            Held(v, i)' => Held(v, i) /\ (Raised(v, i) => Raised(v, i)')
    BY DEF Exclusive, TypeOK, Held, Raised, Busy
  <1>3. \A v \in Workers : job[w] \notin late' => ~Held(v, job[w])'
    <2> SUFFICES ASSUME NEW v \in Workers, job[w] \notin late, Held(v, job[w])'
                 PROVE  FALSE
      BY DEF Held
    <2>1. v = w  BY <1>1, <1>2 DEF Exclusive, HeldByOne
    <2>2. pc'[w] = "dispatch"  BY DEF Exclusive, TypeOK
    <2>3. QED  BY <1>1, <2>1, <2>2 DEF Held, Busy
  <1>4. DispatchedOnce'
    BY DEF Exclusive, TypeOK, DispatchedOnce, Busy
  <1>5. QED  BY <1>1, <1>2, <1>3, <1>4, DropsHold

\* A batch is leased from rows that nobody holds: a held row is not ready.
LEMMA ExclusiveLease ==
    ASSUME Exclusive, TypeOK', NEW w \in Workers, Lease(w)
    PROVE  Exclusive'
  <1> DEFINE leased == {j \in Jobs : Leasable(j)}
  <1>1. \A v \in Workers, j \in leased \ late : ~Held(v, j)
    BY DEF Exclusive, LeasedWhileHeld, Owned, Leasable
  <1> late' = late  BY DEF Lease, ghost
  <1>2. \A v \in Workers, j \in Jobs \ late :
            Held(v, j)' => IF v = w THEN j \in leased ELSE Held(v, j) /\ j \notin leased
    <2> SUFFICES ASSUME NEW v \in Workers, NEW j \in Jobs \ late', Held(v, j)'
                 PROVE  IF v = w THEN j \in leased ELSE Held(v, j) /\ j \notin leased
      OBVIOUS
    <2>1. CASE v = w
      <3>1. batch'[w] = leased /\ pc'[w] = "dispatch"
        BY DEF Lease, Exclusive, TypeOK
      <3>2. QED  BY <2>1, <3>1 DEF Held, Busy
    <2>2. CASE v # w
      <3>1. Held(v, j)
        BY <2>2 DEF Lease, Exclusive, TypeOK, Held
      <3>2. QED  BY <1>1, <2>2, <3>1
    <2>3. QED  BY <2>1, <2>2
  <1>3. LeasedWhileHeld'
    <2> SUFFICES ASSUME NEW v \in Workers, NEW j \in Jobs \ late', Held(v, j)'
                 PROVE  Owned(v, j)'
      BY DEF LeasedWhileHeld
    <2>1. CASE v = w
      <3>1. j \in leased  BY <1>2, <2>1
      <3>2. status'[j] = "leased" /\ leasedBy'[j] = w  BY <3>1 DEF Lease
      <3>3. ready'[j] = FALSE  BY <3>1 DEF Lease
      <3>4. QED  BY <2>1, <3>2, <3>3 DEF Owned
    <2>2. CASE v # w
      <3>1. Held(v, j) /\ j \notin leased  BY <1>2, <2>2
      <3>2. status'[j] = status[j] /\ leasedBy'[j] = leasedBy[j]
        BY <3>1 DEF Lease
      <3>3. ready'[j] = (ready[j] /\ j \notin leased)  BY DEF Lease
      <3>4. Owned(v, j) /\ (Raised(v, j) <=> Raised(v, j)')
        BY <2>2, <3>1 DEF Exclusive, TypeOK, LeasedWhileHeld, Lease, Raised
      <3>5. QED  BY <3>2, <3>3, <3>4 DEF Owned
    <2>3. QED  BY <2>1, <2>2
  <1>4. HeldByOne'
    <2> SUFFICES ASSUME NEW u \in Workers, NEW v \in Workers,
                        NEW j \in Jobs \ late', Held(u, j)', Held(v, j)'
                 PROVE  u = v
      BY DEF HeldByOne
    <2>1. CASE j \in leased  BY <1>2, <2>1
    <2>2. CASE j \notin leased  BY <1>2, <2>2 DEF Exclusive, HeldByOne
    <2>3. QED  BY <2>1, <2>2
  <1>5. DispatchedOnce'
    BY DEF Lease, Exclusive, TypeOK, DispatchedOnce, Busy
  <1>6. QED  BY <1>3, <1>4, <1>5 DEF Exclusive

\* A worker that ends holds nothing, and no live worker's lease is touched.
LEMMA ExclusiveEnd ==
    ASSUME Exclusive, TypeOK', NEW w \in Workers, NEW step \in {"down", "stopped"},
           End(w, step)
    PROVE  Exclusive'
  <1> late' = late  BY DEF End, ghost
  <1>1. \A j \in Jobs : ~Held(w, j)'
    BY DEF End, Exclusive, TypeOK, Held, Busy
  <1>2. \A v \in Workers, j \in Jobs : Held(v, j)' => v # w /\ Held(v, j)
    BY <1>1 DEF End, Exclusive, TypeOK, Held
  <1>3. LeasedWhileHeld'
    <2> SUFFICES ASSUME NEW v \in Workers, NEW j \in Jobs \ late', Held(v, j)'
                 PROVE  Owned(v, j)'
      BY DEF LeasedWhileHeld
    <2>1. v # w /\ Held(v, j) /\ (Raised(v, j) <=> Raised(v, j)')
      BY <1>2 DEF End, Exclusive, TypeOK, Raised
    <2>2. leasedBy'[j] = (IF leasedBy[j] = w THEN Gone ELSE leasedBy[j])
      BY DEF End
    <2>3. QED  BY <2>1, <2>2 DEF End, Exclusive, LeasedWhileHeld, Owned
  <1>4. HeldByOne'  BY <1>2 DEF Exclusive, HeldByOne
  <1>5. DispatchedOnce'
    BY DEF End, Exclusive, TypeOK, DispatchedOnce, Busy
  <1>6. QED  BY <1>3, <1>4, <1>5 DEF Exclusive

\* Every step keeps leases exclusive.
LEMMA ExclusiveStep ==
    ASSUME Exclusive, TypeOK', [Next]_vars
    PROVE  Exclusive'
  <1> USE ConstantsAssumption
  <1> USE DEF row, worker, ghost
  <1>1. CASE \E j \in Jobs : Enqueue(j)
    <2> PICK j \in Jobs : Enqueue(j)  BY <1>1
    <2>1. \A w \in Workers : j \notin late => ~Held(w, j)
      BY DEF Enqueue, Exclusive, LeasedWhileHeld, Owned
    <2>2. \A w \in Workers, i \in Jobs : (Held(w, i)' <=> Held(w, i)) /\ (Raised(w, i)' <=> Raised(w, i))
      BY DEF Enqueue, Held, Raised
    <2>3. DispatchedOnce'  BY DEF Enqueue, Exclusive, DispatchedOnce
    <2>4. \A i \in Jobs \ {j} :
             status'[i] = status[i] /\ leasedBy'[i] = leasedBy[i] /\ ready'[i] = ready[i]
      BY DEF Enqueue, Exclusive, TypeOK
    <2>5. late' = late  BY DEF Enqueue
    <2>6. QED  BY <2>1, <2>2, <2>3, <2>4, <2>5, DropsHold
  <1>2. CASE \E j \in Jobs : CompleteDirectly(j)
    <2> PICK j \in Jobs : CompleteDirectly(j)  BY <1>2
    <2> late' = late  BY DEF CompleteDirectly
    <2>1. \A w \in Workers, i \in Jobs : (Held(w, i)' <=> Held(w, i)) /\ (Raised(w, i)' <=> Raised(w, i))
      BY DEF CompleteDirectly, Held, Raised
    <2>2. LeasedWhileHeld'
      <3> SUFFICES ASSUME NEW w \in Workers, NEW i \in Jobs \ late', Held(w, i)'
                   PROVE  Owned(w, i)'
        BY DEF LeasedWhileHeld
      <3>1. CASE i = j
        BY <3>1 DEF CompleteDirectly, Exclusive, TypeOK, Owned
      <3>2. CASE i # j
        BY <2>1, <3>2 DEF CompleteDirectly, Exclusive, TypeOK, LeasedWhileHeld, Owned
      <3>3. QED  BY <3>1, <3>2
    <2>3. HeldByOne'  BY <2>1 DEF Exclusive, HeldByOne
    <2>4. DispatchedOnce'  BY DEF CompleteDirectly, Exclusive, DispatchedOnce
    <2>5. QED  BY <2>2, <2>3, <2>4 DEF Exclusive
  <1>3. CASE \E j \in Jobs : ComeDue(j) \/ Expire(j)
    <2> PICK j \in Jobs : ComeDue(j) \/ Expire(j)  BY <1>3
    <2>1. \A w \in Workers : j \notin late' => ~Held(w, j)
      BY DEF ComeDue, Expire, Exclusive, LeasedWhileHeld, Owned
    <2>2. \A w \in Workers, i \in Jobs : (Held(w, i)' <=> Held(w, i)) /\ (Raised(w, i)' <=> Raised(w, i))
      BY DEF ComeDue, Expire, Held, Raised
    <2>3. DispatchedOnce'
      BY DEF ComeDue, Expire, Exclusive, DispatchedOnce
    <2>4. \A i \in Jobs \ {j} :
             status'[i] = status[i] /\ leasedBy'[i] = leasedBy[i] /\ ready'[i] = ready[i]
      BY DEF ComeDue, Expire, Exclusive, TypeOK
    <2>5. late \subseteq late'  BY DEF ComeDue, Expire
    <2>6. QED  BY <2>1, <2>2, <2>3, <2>4, <2>5, DropsHold
  <1>4. CASE \E w \in Workers : Lease(w)
    BY <1>4, ExclusiveLease
  <1>5. CASE \E w \in Workers, j \in Jobs : Start(w, j)
    <2> PICK w \in Workers, j \in Jobs : Start(w, j)  BY <1>5
    <2>1. \A v \in Workers, i \in Jobs :
             Held(v, i)' => Held(v, i) /\ (Raised(v, i) => Raised(v, i)')
      BY DEF Start, Exclusive, TypeOK, Held, Raised, Busy
    <2>2. DispatchedOnce'
      BY DEF Start, Exclusive, TypeOK, DispatchedOnce, Busy
    <2>3. QED  BY <2>1, <2>2, KeepsHold DEF Start
  <1>6. CASE \E w \in Workers : \/ Finish(w) \/ HandlerReturns(w) \/ HandlerRaises(w)
                                \/ BeginComplete(w) \/ Restart(w)
    <2> PICK w \in Workers : \/ Finish(w) \/ HandlerReturns(w) \/ HandlerRaises(w)
                             \/ BeginComplete(w) \/ Restart(w)
      BY <1>6
    <2> DEFINE step == pc'[w]
    <2>1. /\ pc' = [pc EXCEPT ![w] = step]
          /\ pc[w] # "raised"
          /\ pc[w] \in Busy \/ step \notin Busy
          /\ UNCHANGED <<status, leasedBy, ready, batch, job, late>>
      BY DEF Exclusive, TypeOK, Finish, HandlerReturns, HandlerRaises, BeginComplete,
             Restart, Busy
    <2>2. \A v \in Workers : /\ pc'[v] \in Busy => pc[v] \in Busy
                             /\ pc[v] = "raised" => pc'[v] = "raised"
      BY <2>1 DEF Exclusive, TypeOK
    <2>3. \A v \in Workers, i \in Jobs :
             Held(v, i)' => Held(v, i) /\ (Raised(v, i) => Raised(v, i)')
      BY <2>1, <2>2 DEF Held, Raised
    <2>4. DispatchedOnce'
      BY <2>1, <2>2 DEF Exclusive, DispatchedOnce
    <2>5. QED  BY <2>1, <2>3, <2>4, KeepsHold
  <1>7. CASE \E w \in Workers : BeginFail(w)
    <2> PICK w \in Workers : BeginFail(w)  BY <1>7
    <2> late' = late  BY DEF BeginFail
    <2>1. /\ pc[w] = "raised" /\ UNCHANGED <<status, leasedBy, ready, batch, job, late>>
          /\ pc' = [pc EXCEPT ![w] = IF Holds(w) THEN "failing" ELSE "dispatch"]
      BY DEF BeginFail
    <2>2. \A v \in Workers, i \in Jobs : Held(v, i)' => Held(v, i)
      BY <2>1 DEF Exclusive, TypeOK, Held, Busy
    <2>3. LeasedWhileHeld'
      <3> SUFFICES ASSUME NEW v \in Workers, NEW i \in Jobs \ late', Held(v, i)'
                   PROVE  Owned(v, i)'
        BY DEF LeasedWhileHeld
      <3>1. Owned(v, i)  BY <2>2 DEF Exclusive, LeasedWhileHeld
      <3>2. CASE Raised(v, i) /\ v = w
        <4>1. job[w] \notin batch[w]
          BY <2>1 DEF Exclusive, DispatchedOnce, Busy
        <4>2. Holds(w)
          BY <2>1, <3>2, <4>1 DEF Exclusive, TypeOK, Held, Raised, Busy
        <4>3. QED  BY <2>1, <3>1, <3>2, <4>2 DEF Owned, Holds, Raised
      <3>3. CASE ~(Raised(v, i) /\ v = w)
        <4>1. Raised(v, i) => Raised(v, i)'
          BY <2>1, <3>3 DEF Exclusive, TypeOK, Raised
        <4>2. QED  BY <2>1, <3>1, <4>1 DEF Owned
      <3>4. QED  BY <3>2, <3>3
    <2>4. HeldByOne'  BY <2>2 DEF Exclusive, HeldByOne
    <2>5. DispatchedOnce'
      BY <2>1 DEF Exclusive, TypeOK, DispatchedOnce, Busy
    <2>6. QED  BY <2>3, <2>4, <2>5 DEF Exclusive
  <1>8. CASE \E w \in Workers : CompleteErrs(w)
    <2> PICK w \in Workers : CompleteErrs(w)  BY <1>8
    <2> late' = late  BY DEF CompleteErrs
    <2>1. /\ pc[w] \in {"returned", "completing"} /\ UNCHANGED <<ready, batch, job, late>>
          /\ pc' = [pc EXCEPT ![w] = "raised"]
      BY DEF CompleteErrs
    <2>2. \A v \in Workers, i \in Jobs :
             Held(v, i)' => Held(v, i) /\ (Raised(v, i) => Raised(v, i)')
      BY <2>1 DEF Exclusive, TypeOK, Held, Raised, Busy
    <2>3. HeldByOne'  BY <2>2 DEF Exclusive, HeldByOne
    <2>4. DispatchedOnce'
      BY <2>1 DEF Exclusive, TypeOK, DispatchedOnce, Busy
    <2>5. LeasedWhileHeld'
      <3> SUFFICES ASSUME NEW v \in Workers, NEW i \in Jobs \ late', Held(v, i)'
                   PROVE  Owned(v, i)'
        BY DEF LeasedWhileHeld
      <3>1. Owned(v, i)  BY <2>2 DEF Exclusive, LeasedWhileHeld
      <3>2. CASE i # job[w] \/ UNCHANGED <<status, leasedBy>>
        <4>1. status'[i] = status[i] /\ leasedBy'[i] = leasedBy[i] /\ ready'[i] = ready[i]
          BY <3>2 DEF CompleteErrs, Exclusive, TypeOK
        <4>2. QED  BY <2>2, <3>1, <4>1 DEF Owned
      <3>3. CASE i = job[w] /\ ~UNCHANGED <<status, leasedBy>>
        <4>1. status'[i] = "completed"
          BY <3>3 DEF CompleteErrs, Exclusive, TypeOK
        <4>2. v = w
          BY <2>1, <2>2, <3>3 DEF Exclusive, HeldByOne, Held, Busy
        <4>3. Raised(v, i)'
          BY <2>1, <3>3, <4>2 DEF Raised, Exclusive, TypeOK
        <4>4. QED  BY <4>1, <4>3 DEF Owned
      <3>4. QED  BY <3>2, <3>3
    <2>6. QED  BY <2>3, <2>4, <2>5 DEF Exclusive
  <1>9. CASE \E w \in Workers : CommitComplete(w)
    <2> PICK w \in Workers : CommitComplete(w)  BY <1>9
    <2>1. \A i \in Jobs \ {job[w]} :
             status'[i] = status[i] /\ leasedBy'[i] = leasedBy[i] /\ ready'[i] = ready[i]
      BY DEF CommitComplete, Exclusive, TypeOK
    <2>2. QED  BY <2>1, ExclusiveWrite DEF CommitComplete
  <1>10. CASE \E w \in Workers : CommitFail(w)
    <2> PICK w \in Workers : CommitFail(w)  BY <1>10
    <2>1. \A i \in Jobs \ {job[w]} :
             status'[i] = status[i] /\ leasedBy'[i] = leasedBy[i] /\ ready'[i] = ready[i]
      BY DEF CommitFail, Exclusive, TypeOK
    <2>2. QED  BY <2>1, ExclusiveWrite DEF CommitFail
  <1>11. CASE \E w \in Workers : Crash(w) \/ WorkerErrs(w)
    BY <1>11, ExclusiveEnd DEF Crash, WorkerErrs
  <1>12. CASE UNCHANGED vars
    BY <1>12, KeepsHold DEF vars, Held, Raised, Exclusive, DispatchedOnce
  <1>13. QED
    BY NextCases, <1>1, <1>2, <1>3, <1>4, <1>5, <1>6, <1>7, <1>8, <1>9, <1>10,
       <1>11, <1>12

\* A job whose leases no live worker has outlived is held by one worker at a time,
\* under a lease that runs.
THEOREM ExclusiveInvariant == Spec => []Exclusive
  <1>1. Init => Exclusive  BY ExclusiveInit
  <1>2. Exclusive /\ TypeOK' /\ [Next]_vars => Exclusive'  BY ExclusiveStep
  <1>3. QED  BY <1>1, <1>2, TypeCorrect, PTL DEF Spec

\* No two workers run the handler of one job at once, unless one outlived a lease.
THEOREM RunsAreExclusive == Spec => []NoConcurrentRuns
  <1>1. Exclusive => NoConcurrentRuns
    BY DEF Exclusive, TypeOK, HeldByOne, Held, Busy, NoConcurrentRuns
  <1>2. QED  BY <1>1, ExclusiveInvariant, PTL

\* A completed job that only workers complete is final, unless one outlived a lease:
\* the row a worker writes is one it still leases.
THEOREM CompletionIsFinal == Spec => CompletedIsFinal
  <1> USE ConstantsAssumption
  <1> DEFINE Stays == \A j \in Jobs \ (Flushed \cup late) :
                         status[j] = "completed" => status'[j] = "completed"
  <1>1. Exclusive /\ [Next]_vars => [Stays]_vars
    <2> SUFFICES ASSUME Exclusive, Next, NEW j \in Jobs \ (Flushed \cup late),
                        status[j] = "completed"
                 PROVE  status'[j] = "completed"
      OBVIOUS
    <2> USE DEF row, worker, ghost
    <2>1. CASE \E i \in Jobs : Enqueue(i) \/ CompleteDirectly(i)
      BY <2>1 DEF Enqueue, CompleteDirectly, Exclusive, TypeOK
    <2>2. CASE \E w \in Workers : Lease(w)
      <3>1. ~Leasable(j)  BY DEF Leasable
      <3>2. QED  BY <2>2, <3>1 DEF Lease
    <2>3. CASE \E w \in Workers : CommitFail(w) \/ CommitComplete(w)
      <3> PICK w \in Workers : CommitFail(w) \/ CommitComplete(w)  BY <2>3
      <3>1. Held(w, job[w]) /\ job[w] \in Jobs
        BY DEF CommitFail, CommitComplete, Held, Busy, Exclusive, TypeOK
      <3>2. j # job[w]
        BY <3>1 DEF CommitFail, CommitComplete, Exclusive, LeasedWhileHeld, Owned, Raised
      <3>3. QED  BY <3>2 DEF CommitFail, CommitComplete, Exclusive, TypeOK
    <2>4. CASE \/ \E i \in Jobs : ComeDue(i) \/ Expire(i)
               \/ \E w \in Workers, i \in Jobs : Start(w, i)
               \/ \E w \in Workers :
                      \/ Finish(w) \/ HandlerReturns(w) \/ HandlerRaises(w)
                      \/ BeginComplete(w) \/ BeginFail(w) \/ Crash(w)
                      \/ WorkerErrs(w) \/ Restart(w)
      <3>1. UNCHANGED status
        BY <2>4 DEF ComeDue, Expire, Start, Finish, HandlerReturns, HandlerRaises,
           BeginComplete, BeginFail, Crash, WorkerErrs, Restart, End
      <3>2. QED  BY <3>1
    <2>5. CASE \E w \in Workers : CompleteErrs(w)
      BY <2>5 DEF CompleteErrs, Exclusive, TypeOK
    <2>6. QED  BY NextCases, <2>1, <2>2, <2>3, <2>4, <2>5
  <1>2. QED
    BY <1>1, ExclusiveInvariant, PTL DEF Spec, CompletedIsFinal

\* No worker calls the handler of a completed job, unless one outlived a lease.
THEOREM CompletionEndsRuns == Spec => CompletedIsNotRun
  <1> DEFINE Skips == \A j \in Jobs \ (Flushed \cup late) :
                         runs'[j] # runs[j] => status[j] # "completed"
  <1>1. Exclusive /\ [Next]_vars => [Skips]_vars
    <2> SUFFICES ASSUME Exclusive, Next, NEW j \in Jobs \ (Flushed \cup late),
                        runs'[j] # runs[j]
                 PROVE  status[j] # "completed"
      OBVIOUS
    <2>1. \E w \in Workers : j \in batch[w]
      <3>1. CASE \E w \in Workers, i \in Jobs : Start(w, i)
        <4> PICK w \in Workers, i \in Jobs : Start(w, i)  BY <3>1
        <4>1. i = j  BY DEF Start, Exclusive, TypeOK
        <4>2. QED  BY <4>1 DEF Start
      <3>2. CASE ~\E w \in Workers, i \in Jobs : Start(w, i)
        <4>1. UNCHANGED runs
          BY <3>2, NextCases DEF row, worker, ghost, Enqueue, CompleteDirectly,
             ComeDue, Expire, Lease, Finish, HandlerReturns, HandlerRaises,
             BeginComplete, CommitComplete, BeginFail, CommitFail, Crash,
             CompleteErrs, WorkerErrs, Restart, End
        <4>2. QED  BY <4>1
      <3>3. QED  BY <3>1, <3>2
    <2>2. PICK w \in Workers : j \in batch[w]  BY <2>1
    <2>3. Owned(w, j)  BY <2>2 DEF Held, Exclusive, LeasedWhileHeld
    <2>4. ~Raised(w, j)  BY <2>2 DEF Raised, Exclusive, DispatchedOnce, Busy
    <2>5. QED  BY <2>3, <2>4 DEF Owned
  <1>2. QED
    BY <1>1, ExclusiveInvariant, PTL DEF Spec, CompletedIsNotRun
-----------------------------------------------------------------------------
(* Every run is paid for.  A job may sit in the batches of several workers *)
(* when its lease has run out, but each of them counted an attempt: what   *)
(* was run and what may still be run never exceeds the attempts.           *)

Claims(j) == {w \in Workers : j \in batch[w]}

RunsArePaid == \A j \in Jobs : runs[j] + Cardinality(Claims(j)) <= attempts[j]

\* A step that takes no job and changes no count keeps runs paid for.
LEMMA StillPaid ==
    ASSUME IsFiniteSet(Workers), TypeOK, RunsArePaid, UNCHANGED <<attempts, runs>>,
           \A j \in Jobs : Claims(j)' \subseteq Claims(j)
    PROVE  RunsArePaid'
  <1> SUFFICES ASSUME NEW j \in Jobs
               PROVE  runs'[j] + Cardinality(Claims(j)') <= attempts'[j]
    BY DEF RunsArePaid
  <1>1. IsFiniteSet(Claims(j))  BY FS_Subset DEF Claims
  <1>2. /\ IsFiniteSet(Claims(j)')
        /\ Cardinality(Claims(j)') <= Cardinality(Claims(j))
    BY <1>1, FS_Subset
  <1>3. Cardinality(Claims(j)) \in Nat /\ Cardinality(Claims(j)') \in Nat
    BY <1>1, <1>2, FS_CardinalityType
  <1>4. runs[j] \in Nat /\ attempts[j] \in Nat
    BY ConstantsAssumption DEF TypeOK
  <1>5. runs[j] + Cardinality(Claims(j)) <= attempts[j]  BY DEF RunsArePaid
  <1>6. QED  BY <1>2, <1>3, <1>4, <1>5

\* Leasing pays for the claim it adds.
LEMMA PaidLease ==
    ASSUME IsFiniteSet(Workers), TypeOK, RunsArePaid, NEW w \in Workers, Lease(w)
    PROVE  RunsArePaid'
  <1> SUFFICES ASSUME NEW j \in Jobs
               PROVE  runs'[j] + Cardinality(Claims(j)') <= attempts'[j]
    BY DEF RunsArePaid
  <1>1. IsFiniteSet(Claims(j))  BY FS_Subset DEF Claims
  <1>2. /\ IsFiniteSet(Claims(j) \cup {w})
        /\ Cardinality(Claims(j) \cup {w}) <= Cardinality(Claims(j)) + 1
    <2> DEFINE S == Claims(j)
    <2> HIDE DEF S
    <2>1. IsFiniteSet(S)  BY <1>1 DEF S
    <2>2. Cardinality(S) \in Nat  BY <2>1, FS_CardinalityType
    <2>3. /\ IsFiniteSet(S \cup {w})
          /\ Cardinality(S \cup {w}) =
                IF w \in S THEN Cardinality(S) ELSE Cardinality(S) + 1
      BY <2>1, FS_AddElement
    <2>4. Cardinality(S \cup {w}) <= Cardinality(S) + 1
      BY <2>2, <2>3
    <2>5. QED  BY <2>3, <2>4 DEF S
  <1>3. Claims(j)' \subseteq (IF Leasable(j) THEN Claims(j) \cup {w} ELSE Claims(j))
    BY DEF Lease, TypeOK, Claims
  <1>4. runs[j] \in Nat /\ attempts[j] \in Nat /\ runs' = runs
    BY ConstantsAssumption DEF TypeOK, Lease, ghost
  <1>5. runs[j] + Cardinality(Claims(j)) <= attempts[j]  BY DEF RunsArePaid
  <1>6. CASE Leasable(j)
    <2>1. attempts'[j] = attempts[j] + 1  BY <1>6 DEF Lease
    <2>2. Cardinality(Claims(j)') <= Cardinality(Claims(j) \cup {w})
      BY <1>2, <1>3, <1>6, FS_Subset
    <2>3. /\ Cardinality(Claims(j)') \in Nat /\ Cardinality(Claims(j)) \in Nat
          /\ Cardinality(Claims(j) \cup {w}) \in Nat
      BY <1>1, <1>2, <1>3, <1>6, FS_Subset, FS_CardinalityType
    <2>4. QED  BY <1>2, <1>4, <1>5, <2>1, <2>2, <2>3
  <1>7. CASE ~Leasable(j)
    <2>1. attempts'[j] = attempts[j]  BY <1>7 DEF Lease
    <2>2. Cardinality(Claims(j)') <= Cardinality(Claims(j))
      BY <1>1, <1>3, <1>7, FS_Subset
    <2>3. Cardinality(Claims(j)') \in Nat /\ Cardinality(Claims(j)) \in Nat
      BY <1>1, <1>3, <1>7, FS_Subset, FS_CardinalityType
    <2>4. QED  BY <1>4, <1>5, <2>1, <2>2, <2>3
  <1>8. QED  BY <1>6, <1>7

\* Starting a job trades a claim for a run.
LEMMA PaidStart ==
    ASSUME IsFiniteSet(Workers), TypeOK, RunsArePaid,
           NEW w \in Workers, NEW i \in Jobs, Start(w, i)
    PROVE  RunsArePaid'
  <1> SUFFICES ASSUME NEW j \in Jobs
               PROVE  runs'[j] + Cardinality(Claims(j)') <= attempts'[j]
    BY DEF RunsArePaid
  <1>1. IsFiniteSet(Claims(j))  BY FS_Subset DEF Claims
  <1>2. runs[j] \in Nat /\ attempts[j] \in Nat /\ attempts' = attempts
    BY ConstantsAssumption DEF TypeOK, Start, row
  <1>3. runs[j] + Cardinality(Claims(j)) <= attempts[j]  BY DEF RunsArePaid
  <1>4. Cardinality(Claims(j)) \in Nat  BY <1>1, FS_CardinalityType
  <1>5. CASE j = i
    <2>1. w \in Claims(j) /\ Claims(j)' = Claims(j) \ {w}
      BY <1>5 DEF Start, TypeOK, Claims
    <2>2. Cardinality(Claims(j)') = Cardinality(Claims(j)) - 1
      BY <1>1, <2>1, FS_RemoveElement
    <2>3. runs'[j] = runs[j] + 1  BY <1>5 DEF Start, TypeOK
    <2>4. QED  BY <1>2, <1>3, <1>4, <2>2, <2>3
  <1>6. CASE j # i
    <2>1. Claims(j)' = Claims(j)  BY <1>6 DEF Start, TypeOK, Claims
    <2>2. runs'[j] = runs[j]  BY <1>6 DEF Start, TypeOK
    <2>3. QED  BY <1>2, <1>3, <2>1, <2>2
  <1>7. QED  BY <1>5, <1>6

\* Every step keeps runs paid for.
LEMMA PaidStep ==
    ASSUME IsFiniteSet(Workers), TypeOK, RunsArePaid, [Next]_vars
    PROVE  RunsArePaid'
  <1> USE DEF row, worker, ghost
  <1>1. CASE \E w \in Workers : Lease(w)
    BY <1>1, PaidLease
  <1>2. CASE \E w \in Workers, j \in Jobs : Start(w, j)
    BY <1>2, PaidStart
  <1>3. CASE \E w \in Workers : Crash(w) \/ WorkerErrs(w)
    <2>1. UNCHANGED <<attempts, runs>>
      BY <1>3 DEF Crash, WorkerErrs, End
    <2>2. \A j \in Jobs : Claims(j)' \subseteq Claims(j)
      BY <1>3 DEF Crash, WorkerErrs, End, TypeOK, Claims
    <2>3. QED  BY <2>1, <2>2, StillPaid
  <1>4. CASE \/ \E j \in Jobs : \/ Enqueue(j) \/ CompleteDirectly(j)
                              \/ ComeDue(j) \/ Expire(j)
             \/ \E w \in Workers :
                    \/ Finish(w) \/ HandlerReturns(w) \/ HandlerRaises(w)
                    \/ BeginComplete(w) \/ CommitComplete(w) \/ BeginFail(w)
                    \/ CommitFail(w) \/ CompleteErrs(w) \/ Restart(w)
             \/ UNCHANGED vars
    <2>1. UNCHANGED <<attempts, runs, batch>>
      BY <1>4 DEF Enqueue, CompleteDirectly, ComeDue, Expire, Finish, HandlerReturns,
         HandlerRaises, BeginComplete, CommitComplete, BeginFail, CommitFail,
         CompleteErrs, Restart, vars
    <2>2. \A j \in Jobs : Claims(j)' = Claims(j)  BY <2>1 DEF Claims
    <2>3. QED  BY <2>1, <2>2, StillPaid
  <1>5. QED  BY NextCases, <1>1, <1>2, <1>3, <1>4

\* The handler of a job is called at most once per attempt counted, and so at most
\* max_attempts times, with any number of crashes and overstayed leases.
THEOREM RunsAreBounded ==
    ASSUME IsFiniteSet(Workers) PROVE Spec => []RunsWithinAttempts
  <1>1. Init => RunsArePaid
    <2> SUFFICES ASSUME Init, NEW j \in Jobs
                 PROVE  runs[j] + Cardinality(Claims(j)) <= attempts[j]
      BY DEF RunsArePaid
    <2>1. Claims(j) = {}  BY DEF Init, Claims
    <2>2. Cardinality(Claims(j)) = 0  BY <2>1, FS_EmptySet
    <2>3. QED  BY <2>2 DEF Init
  <1>2. TypeOK /\ RunsArePaid /\ [Next]_vars => RunsArePaid'  BY PaidStep
  <1>3. TypeOK /\ RunsArePaid => RunsWithinAttempts
    <2> SUFFICES ASSUME TypeOK, RunsArePaid, NEW j \in Jobs
                 PROVE  runs[j] <= attempts[j]
      BY DEF RunsWithinAttempts
    <2>1. Cardinality(Claims(j)) \in Nat
      BY FS_Subset, FS_CardinalityType DEF Claims
    <2>2. runs[j] \in Nat /\ attempts[j] \in Nat
      BY ConstantsAssumption DEF TypeOK
    <2>3. QED  BY <2>1, <2>2 DEF RunsArePaid
  <1>4. QED  BY <1>1, <1>2, <1>3, TypeCorrect, PTL DEF Spec
=============================================================================
