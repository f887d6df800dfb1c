----------------------------- MODULE DurableJobs -----------------------------
(***************************************************************************)
(* The durable job queue of the hosted server (durable_jobs.py): the rows  *)
(* of the durable_jobs table and the workers that lease them in batches,   *)
(* run their handlers one after the other, and complete or fail each row   *)
(* under the lease they took.                                              *)
(*                                                                         *)
(* The table lives in PostgreSQL at READ COMMITTED: lease_jobs locks what  *)
(* it reads (FOR UPDATE SKIP LOCKED) and is one step; complete_job and     *)
(* fail_job read the row without a lock and write it in a later step.  One *)
(* flag per row, `ready', stands for the clock: the available_at of a      *)
(* pending row, or the lease_until of a leased one, has passed.            *)
(***************************************************************************)
EXTENDS Integers

CONSTANTS
    Jobs,         \* rows that may be enqueued; fewer than one batch (25)
    Flushed,      \* jobs a request process may also complete itself
    Workers,      \* worker tasks
    Gone,         \* the identity of a worker that has ended, or no worker
    MaxAttempts,  \* durable_jobs.max_attempts
    MaxFaults,    \* bound: crashes and database errors
    Embedded      \* the worker is a task of the API process, not a process

ASSUME ConstantsAssumption ==
    /\ Flushed \subseteq Jobs
    /\ Gone \notin Workers
    /\ MaxAttempts \in Nat \ {0}
    /\ MaxFaults \in Nat
    /\ Embedded \in BOOLEAN

VARIABLES
    status,     \* row: status, or "absent" before it is enqueued
    attempts,   \* row: attempts
    leasedBy,   \* row: leased_by
    ready,      \* row: the time it waits for has come
    pc,         \* worker: next step of drain_jobs_once
    batch,      \* worker: leased jobs it has not started
    job,        \* worker: the job it is dispatching, if any
    exhausted,  \* worker: `exhausted' as computed by its fail_job
    late,       \* ghost: jobs whose lease ran out once while its worker lived
    handled,    \* ghost, row: the side effect of the job has happened
    runs,       \* ghost, row: times its handler was called
    faults      \* crashes and database errors so far (bound only)

row    == <<status, attempts, leasedBy, ready>>
worker == <<pc, batch, job, exhausted>>
ghost  == <<late, handled, runs>>
vars   == <<status, attempts, leasedBy, ready, pc, batch, job, exhausted,
            late, handled, runs, faults>>

Statuses == {"absent", "pending", "leased", "completed", "dead"}
Steps    == {"polling", "dispatch", "handling", "returned", "completing",
             "raised", "failing", "stopped", "down"}
Busy     == {"handling", "returned", "completing", "raised", "failing"}

TypeOK ==
    /\ status \in [Jobs -> Statuses]
    /\ attempts \in [Jobs -> 0..MaxAttempts]
    /\ leasedBy \in [Jobs -> Workers \cup {Gone}]
    /\ ready \in [Jobs -> BOOLEAN]
    /\ pc \in [Workers -> Steps]
    /\ batch \in [Workers -> SUBSET Jobs]
    /\ job \in [Workers -> Jobs]
    /\ exhausted \in [Workers -> BOOLEAN]
    /\ late \subseteq Jobs
    /\ handled \in [Jobs -> BOOLEAN]
    /\ runs \in [Jobs -> Nat]
    /\ faults \in 0..MaxFaults

Init ==
    /\ status = [j \in Jobs |-> "absent"]
    /\ attempts = [j \in Jobs |-> 0]
    /\ leasedBy = [j \in Jobs |-> Gone]
    /\ ready = [j \in Jobs |-> FALSE]
    /\ pc = [w \in Workers |-> "polling"]
    /\ batch = [w \in Workers |-> {}]
    /\ job \in [Workers -> Jobs]
    /\ exhausted = [w \in Workers |-> FALSE]
    /\ late = {}
    /\ handled = [j \in Jobs |-> FALSE]
    /\ runs = [j \in Jobs |-> 0]
    /\ faults = 0

-----------------------------------------------------------------------------
(* The table and the clock.                                                *)

\* A row is inserted; a second enqueue under its dedupe_key returns it as it is.
Enqueue(j) ==
    /\ status[j] = "absent"
    /\ status' = [status EXCEPT ![j] = "pending"]
    /\ ready' = [ready EXCEPT ![j] = TRUE]
    /\ UNCHANGED <<attempts, leasedBy, worker, ghost, faults>>

\* The retry delay of a pending row ends.
ComeDue(j) ==
    /\ status[j] = "pending"
    /\ ~ready[j]
    /\ ready' = [ready EXCEPT ![j] = TRUE]
    /\ UNCHANGED <<status, attempts, leasedBy, worker, ghost, faults>>

\* The lease of a row runs out: no worker renews one.
Expire(j) ==
    /\ status[j] = "leased"
    /\ ~ready[j]
    /\ late' = IF leasedBy[j] = Gone THEN late ELSE late \cup {j}
    /\ ready' = [ready EXCEPT ![j] = TRUE]
    /\ UNCHANGED <<status, attempts, leasedBy, worker, handled, runs, faults>>

\* A request that flushes a barrier completes its row without a lease, from an
\* object read before: leased_by is written only if it was set in that object.
CompleteDirectly(j) ==
    /\ j \in Flushed
    /\ status[j] \in {"pending", "leased", "dead"}
    /\ status' = [status EXCEPT ![j] = "completed"]
    /\ \E holder \in {leasedBy[j], Gone} :
          leasedBy' = [leasedBy EXCEPT ![j] = holder]
    /\ handled' = [handled EXCEPT ![j] = TRUE]
    /\ UNCHANGED <<attempts, ready, worker, late, runs, faults>>

-----------------------------------------------------------------------------
(* One pass of a worker: lease a batch, then each of its jobs in turn.     *)

\* Mutant of Leasable: the guard on attempts is missing.
LeasableForEver(j) == status[j] \in {"pending", "leased"} /\ ready[j]

\* Mutant of Leasable: the lease of another worker is not waited for.
LeasableEarly(j) ==
    /\ attempts[j] < MaxAttempts
    /\ status[j] = "leased" \/ (status[j] = "pending" /\ ready[j])

\* Mutant of Leasable: expired leases are never reclaimed.
LeasablePending(j) ==
    attempts[j] < MaxAttempts /\ status[j] = "pending" /\ ready[j]

\* The WHERE clause of lease_jobs.
Leasable(j) ==
    /\ attempts[j] < MaxAttempts
    /\ status[j] \in {"pending", "leased"}
    /\ ready[j]

\* Mutant of Lease: the lease does not count as an attempt.
LeaseUncounted(w) ==
    LET leased == {j \in Jobs : Leasable(j)}
    IN  /\ pc[w] = "polling"
        /\ leased # {}
        /\ status' = [j \in Jobs |-> IF j \in leased THEN "leased" ELSE status[j]]
        /\ leasedBy' = [j \in Jobs |-> IF j \in leased THEN w ELSE leasedBy[j]]
        /\ ready' = [j \in Jobs |-> ready[j] /\ j \notin leased]
        /\ batch' = [batch EXCEPT ![w] = leased]
        /\ pc' = [pc EXCEPT ![w] = "dispatch"]
        /\ UNCHANGED <<attempts, job, exhausted, ghost, faults>>

Lease(w) ==
    LET leased == {j \in Jobs : Leasable(j)}
    IN  /\ pc[w] = "polling"
        /\ leased # {}
        /\ status' = [j \in Jobs |-> IF j \in leased THEN "leased" ELSE status[j]]
        /\ leasedBy' = [j \in Jobs |-> IF j \in leased THEN w ELSE leasedBy[j]]
        /\ attempts' = [j \in Jobs |->
                           IF j \in leased THEN attempts[j] + 1 ELSE attempts[j]]
        /\ ready' = [j \in Jobs |-> ready[j] /\ j \notin leased]
        /\ batch' = [batch EXCEPT ![w] = leased]
        /\ pc' = [pc EXCEPT ![w] = "dispatch"]
        /\ UNCHANGED <<job, exhausted, ghost, faults>>

\* The next job of the batch, whatever has become of its lease by then.
Start(w, j) ==
    /\ pc[w] = "dispatch"
    /\ j \in batch[w]
    /\ batch' = [batch EXCEPT ![w] = @ \ {j}]
    /\ job' = [job EXCEPT ![w] = j]
    /\ runs' = [runs EXCEPT ![j] = @ + 1]
    /\ pc' = [pc EXCEPT ![w] = "handling"]
    /\ UNCHANGED <<row, exhausted, late, handled, faults>>

\* The batch is done: poll again.
Finish(w) ==
    /\ pc[w] = "dispatch"
    /\ batch[w] = {}
    /\ pc' = [pc EXCEPT ![w] = "polling"]
    /\ UNCHANGED <<row, batch, job, exhausted, ghost, faults>>

HandlerReturns(w) ==
    /\ pc[w] = "handling"
    /\ handled' = [handled EXCEPT ![job[w]] = TRUE]
    /\ pc' = [pc EXCEPT ![w] = "returned"]
    /\ UNCHANGED <<row, batch, job, exhausted, late, runs, faults>>

\* Mutant of HandlerRaises: the exception is logged and forgotten.
HandlerSwallowed(w) ==
    /\ pc[w] = "handling"
    /\ \E happened \in BOOLEAN :
          handled' = [handled EXCEPT ![job[w]] = @ \/ happened]
    /\ pc' = [pc EXCEPT ![w] = "returned"]
    /\ UNCHANGED <<row, batch, job, exhausted, late, runs, faults>>

\* A handler that raises may have had its effect: a timeout after delivery.
HandlerRaises(w) ==
    /\ pc[w] = "handling"
    /\ \E happened \in BOOLEAN :
          handled' = [handled EXCEPT ![job[w]] = @ \/ happened]
    /\ pc' = [pc EXCEPT ![w] = "raised"]
    /\ UNCHANGED <<row, batch, job, exhausted, late, runs, faults>>

-----------------------------------------------------------------------------
(* complete_job and fail_job: the row is read, then written.               *)

\* The check complete_job and fail_job both make.
Holds(w) == status[job[w]] = "leased" /\ leasedBy[job[w]] = w

BeginComplete(w) ==
    /\ pc[w] = "returned"
    /\ pc' = [pc EXCEPT ![w] = IF Holds(w) THEN "completing" ELSE "dispatch"]
    /\ UNCHANGED <<row, batch, job, exhausted, ghost, faults>>

CommitComplete(w) ==
    /\ pc[w] = "completing"
    /\ status' = [status EXCEPT ![job[w]] = "completed"]
    /\ leasedBy' = [leasedBy EXCEPT ![job[w]] = Gone]
    /\ pc' = [pc EXCEPT ![w] = "dispatch"]
    /\ UNCHANGED <<attempts, ready, batch, job, exhausted, ghost, faults>>

\* Mutant of Exhausted: off by one.
ExhaustedEarly(j) == attempts[j] + 1 >= MaxAttempts

Exhausted(j) == attempts[j] >= MaxAttempts

\* Mutant of BeginFail: the row is failed without a look at its lease.
BeginFailUnchecked(w) ==
    /\ pc[w] = "raised"
    /\ pc' = [pc EXCEPT ![w] = "failing"]
    /\ exhausted' = [exhausted EXCEPT ![w] = Exhausted(job[w])]
    /\ UNCHANGED <<row, batch, job, ghost, faults>>

BeginFail(w) ==
    /\ pc[w] = "raised"
    /\ pc' = [pc EXCEPT ![w] = IF Holds(w) THEN "failing" ELSE "dispatch"]
    /\ exhausted' = [exhausted EXCEPT ![w] = Exhausted(job[w])]
    /\ UNCHANGED <<row, batch, job, ghost, faults>>

CommitFail(w) ==
    /\ pc[w] = "failing"
    /\ status' = [status EXCEPT ![job[w]] =
                     IF exhausted[w] THEN "dead" ELSE "pending"]
    /\ leasedBy' = [leasedBy EXCEPT ![job[w]] = Gone]
    /\ ready' = [ready EXCEPT ![job[w]] = FALSE]
    /\ pc' = [pc EXCEPT ![w] = "dispatch"]
    /\ UNCHANGED <<attempts, batch, job, exhausted, ghost, faults>>

-----------------------------------------------------------------------------
(* Failures.  A worker that ends loses its batch, and the leases it leaves *)
(* are nobody's: the next worker has an identity of its own.               *)

End(w, step) ==
    /\ pc' = [pc EXCEPT ![w] = step]
    /\ batch' = [batch EXCEPT ![w] = {}]
    /\ leasedBy' = [j \in Jobs |-> IF leasedBy[j] = w THEN Gone ELSE leasedBy[j]]
    /\ faults < MaxFaults
    /\ faults' = faults + 1
    /\ UNCHANGED <<status, attempts, ready, job, exhausted, ghost>>

\* The process dies or is shut down.
Crash(w) == pc[w] # "down" /\ End(w, "down")

\* The database fails complete_job, inside the try: the job is failed instead,
\* although the commit may have gone through before the connection was lost.
CompleteErrs(w) ==
    /\ pc[w] \in {"returned", "completing"}
    /\ faults < MaxFaults
    /\ faults' = faults + 1
    /\ pc' = [pc EXCEPT ![w] = "raised"]
    /\ \/ UNCHANGED <<status, leasedBy>>
       \/ /\ pc[w] = "completing"
          /\ status' = [status EXCEPT ![job[w]] = "completed"]
          /\ leasedBy' = [leasedBy EXCEPT ![job[w]] = Gone]
    /\ UNCHANGED <<attempts, ready, batch, job, exhausted, ghost>>

\* The database fails lease_jobs or fail_job, outside it: the exception ends the
\* worker.  The process of worker.py exits; the API process lives on without one.
WorkerErrs(w) ==
    /\ pc[w] \in {"polling", "raised", "failing"}
    /\ End(w, IF Embedded THEN "stopped" ELSE "down")

Restart(w) ==
    /\ pc[w] = "down"
    /\ pc' = [pc EXCEPT ![w] = "polling"]
    /\ UNCHANGED <<row, batch, job, exhausted, ghost, faults>>

-----------------------------------------------------------------------------
Clock(j) == ComeDue(j) \/ Expire(j)

\* What a live worker does next.
Drain(w) ==
    \/ Lease(w)
    \/ \E j \in Jobs : Start(w, j)
    \/ Finish(w)
    \/ HandlerReturns(w)
    \/ HandlerRaises(w)
    \/ BeginComplete(w)
    \/ CommitComplete(w)
    \/ BeginFail(w)
    \/ CommitFail(w)

Fault(w) == Crash(w) \/ CompleteErrs(w) \/ WorkerErrs(w)

Next ==
    \/ \E j \in Jobs : Enqueue(j) \/ CompleteDirectly(j) \/ Clock(j)
    \/ \E w \in Workers : Drain(w) \/ Fault(w) \/ Restart(w)

Spec == Init /\ [][Next]_vars

\* Time passes, live workers keep running and a supervisor restarts processes.
\* Nothing makes a request come, a handler succeed or an ended task start again.
Fairness ==
    /\ \A j \in Jobs : WF_vars(Clock(j))
    /\ \A w \in Workers : WF_vars(Drain(w)) /\ WF_vars(Restart(w))

FairSpec == Spec /\ Fairness

-----------------------------------------------------------------------------
(* Properties.                                                             *)

\* A row is marked completed only when its side effect has happened, whatever
\* stale worker, retry or request wrote the mark (complete_job).
OnlyHandledComplete == \A j \in Jobs : status[j] = "completed" => handled[j]

\* The handler of a job is never called more often than the job was leased, and so
\* never more than max_attempts times, whoever crashes or overstays (lease_jobs).
RunsWithinAttempts == \A j \in Jobs : runs[j] <= attempts[j]

\* Only a job whose attempts are used up is dead-lettered, even by a worker whose
\* lease was taken over between its read and its write (fail_job).
DeadIsExhausted == \A j \in Jobs : status[j] = "dead" => attempts[j] = MaxAttempts

\* Two workers never run the handler of one job at the same time, whoever crashes or
\* restarts, unless a live worker has outlived a lease of it (lease_jobs).
NoConcurrentRuns ==
    \A v, w \in Workers :
        v # w /\ pc[v] = "handling" /\ pc[w] = "handling" /\ job[v] = job[w]
            => job[v] \in late

\* A completed job stays completed, whatever commit is lost or repeated, unless a live
\* worker has outlived a lease of it: then a late fail_job may put it back.
CompletedIsFinal ==
    [][\A j \in Jobs \ (Flushed \cup late) :
          status[j] = "completed" => status'[j] = "completed"]_vars

\* The handler of a completed job is never called again, unless a live worker has
\* outlived a lease of it (drain_jobs_once).
CompletedIsNotRun ==
    [][\A j \in Jobs \ (Flushed \cup late) :
          runs'[j] # runs[j] => status[j] # "completed"]_vars

\* The same of every job: what "safe to run in multiple processes" would mean.
NotRunOnceCompleted ==
    [][\A j \in Jobs : runs'[j] # runs[j] => status[j] # "completed"]_vars

\* Every job is completed, dead-lettered or at least tried max_attempts times.
EventuallySpent ==
    \A j \in Jobs :
        status[j] # "absent" ~>
            (status[j] \in {"completed", "dead"} \/ attempts[j] = MaxAttempts)

\* Every job ends completed or dead-lettered: none is lost without a trace.
Settled ==
    \A j \in Jobs :
        status[j] # "absent" ~> status[j] \in {"completed", "dead"}
=============================================================================
