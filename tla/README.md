# Lians: a verification project in TLA+

Lians keeps the memory of AI agents: facts with two times (when they were true,
when they were learnt), superseded rather than overwritten, recalled through
caches, erased on request and audited by a hash chain.  The repository holds a
hosted server (`agentmem/src/lians`, FastAPI over PostgreSQL and Redis, several
API processes and workers) and a local product (`packages/lians-easy`, SQLite
shared by several client processes, with encrypted sync between devices).

The modules here model the parts of both where requests, processes, devices,
retries and crashes meet.  TLC checks them on small instances; TLAPS proves the
central results for every number of processes, requests, memories, jobs, workers,
clients and devices.

| Module | What it is |
|---|---|
| `RecallCache` | read path of `recall_memories`, Redis cache, working sets, invalidation barrier |
| `FreshRecall` | what recall promises: an atomic register; `RecallCache` implements it |
| `MemoryLifecycle` | ingestion, supersession, `live_facts`, decisions, reviews, erasure |
| `DurableJobs` | the `durable_jobs` table and the workers that lease from it |
| `WritePath` | idempotency keys, the key of a data subject and its caches, held writes and their reviews, erasure of the subject |
| `AuditChain` | the hash chain of `event_log`, its verification, the Merkle windows of the processes |
| `LocalStore` | the SQLite store of several clients: versions, corrections, moves, forgetting; dependencies, invalidations, repairs |
| `DeviceSync` | encrypted sync: server, clients and local stores; enrolment, pull, merge, publishing, key rotation |
| `SharedProfile` | what sync promises: devices along one chain of growing sets of facts; `DeviceSync` implements it |
| `RecallCacheProofs`, `MemoryLifecycleProofs`, `DurableJobsProofs`, `WritePathProofs`, `AuditChainProofs`, `LocalStoreProofs`, `DeviceSyncProofs` | theorems and proofs |
| `TableLemmas` | lemmas about tables kept as sequences, used by the last four |
| `MC...` | model values and symmetry for TLC; each `.cfg` is one question |

Paths below are relative to `agentmem/src/lians` unless they name a package or begin
with `lians_easy/` (`packages/lians-easy/lians_easy`).

## 1. Inventory

Components in bold have a module.

### Hosted server

| Component | State it keeps | Operations | What is hard | What makes it correct |
|---|---|---|---|---|
| **Recall cache and barrier** (`cache.py`, `cache_invalidation.py`, `session_cache.py`, `recall_memories`) | Redis: generation, results. Process: working set, bypass. Database: `recall_cache.invalidate` jobs | recall; commit with barrier; flush; repair by a worker | a request reads shared state a dozen times between awaits while others mutate, bump, crash | no answer older than the barrier check; the barrier is released in the end |
| **Memory lifecycle** (`memory_service.py`, `supersession.py`, `current_facts.py`, `feedback_service.py`) | `memories`, `live_facts`, `conflict_flags`, adjudication jobs, the agent's write lock | add, reject, adjudicate, resolve, feedback, review, forget, erase, prune | only two operations take the lock; the rest read a row and write it later | the projection agrees with the log; one value is current; nothing erased returns |
| **Durable jobs** (`durable_jobs.py`, `worker.py`, `job_handlers.py`) | rows: status, attempts, lease | enqueue, lease, complete, fail | a worker dies or outlives its lease | completed means done; attempts are bounded; no job is lost |
| **Write path** (`add_memory_idempotent`, `admission_service.py`, `pii.py`, `dek_cache.py`, `erase_subject`) | `idempotency_keys`, `pending_admissions`, `subject_keys`, plaintext keys per process | write, hold, approve, reject, create a key, erase a subject | a retry meets its original; a key is cached before its row commits; approval commits inside `add_memory` | one memory per Idempotency-Key; one key per subject, destroyed for good; an approved write is stored |
| **Audit chain and Merkle anchors** (`audit_chain.py`, `merkle_audit.py`) | `event_log` rows with hashes, a window per process | append, anchor, verify | concurrent appends fork; the window is not transactional | an untouched log verifies; a deletion shows; each event is anchored once |
| **Device sync, server** (`api/routes_sync.py`) | workspaces, devices, grants, rotations, revisions | register, push, list, remove | with its clients, below | with its clients, below |
| Webhooks, metering, SIEM | delivery rows, a queue in memory | deliver, retry | at-least-once delivery by workers that may be stale | no event lost or unrecorded |
| Schedulers (`scheduler.py`) | an advisory lock | prune, maintain | several instances | one at a time, and not for ever none |
| Ciphers and master keys (`crypto.py`, `kms.py`) | none shared | encrypt, wrap | none concurrent | round trips |
| Ranking, planning, embeddings | none shared | score, rank | numeric | ordering of scores |
| Decision evidence, backtest | signed records | capture, assess | none concurrent | reproducible digests |
| Experience learning, graph | proposals, bitemporal edges | propose, review; relate, end | status or live edges read before they are written, without a lock | as the write path and the memory lifecycle |
| HTTP API, MCP servers, OAuth, adapters, SDKs | none shared | parse, authenticate, dispatch, retry | a retried write | left to the write path |

### Local product and others

| Component | State it keeps | What is hard | What makes it correct |
|---|---|---|---|
| **Local store** (`lians_easy/store.py`) | SQLite rows with lineage, forgotten memories | several client processes; a compare-and-set on current state, reads before the write transaction | one current version of a key; a lineage is one chain, forgotten as one |
| **State integrity** (`lians_easy/state_integrity.py`) | dependencies, invalidations | relinking while upstream moves | no replaced content is built on unnoticed; links make no cycle |
| **Device sync, client** (`lians_easy/sync.py`, `cloud_service.py`, `portability.py`) | state and cursor on disk, device keys | lost replies, crash between merge and save, two writers, removal of a device | nothing published is lost; a removed device gets no key; every survivor can follow |
| Task guard (`lians_easy/task_contract.py`, `ci_evidence.py`) | contracts, checkpoints, evidence in the local store | evidence outlives the workspace it measured | a verdict is about the workspace it names |
| Verification gate (`lians_easy/verification.py`) | receipts | the repository changes under a gate that reads it in several calls | a receipt describes one state of the files |
| Mission Control (`packages/lians-finish`) | runs, governance records | a child process that dies | a run is recorded as it ended |
| Desktop, installer, updates, migrations, benchmarks | | input and output | |

`PROJECT.json` lists every component with its sources, and the main hazards at
their lines.  Lesser ones, which no property covers:

* `webhook_service.py:283`: a stale worker writes its failed attempt over the
  `delivered_at` of a delivery that succeeded; `metering.py:148`: usage events are
  dropped when the queue in memory is full.
* `feedback_service.py:62`: the metadata column is read, changed and written back
  while an erasure commits in between (configuration `MCMemoryLifecycle_shred`);
  `memory_service.py:3522`: the status of a conflict is tested before an await
  (`MCMemoryLifecycle_twice`); `memory_service.py:2674`: a second restoration under one
  supersession event enqueues a job that is complete already (`MCRecallCache_repeated`).
* `scheduler.py:198`: a database error outside `maintain` ends the learning scheduler.
* `experience_service.py:265`: the review of a proposal has the race of
  `resolve_pending`; `graph_service.py:152`: two exclusive relations written at once
  do not see each other and both stay live.
* `lians_easy/ci_evidence.py:243`: the workspace is not compared again when the
  checkpoint is stored; `lians_easy/task_contract.py:351`: the current version is
  looked for among the first 500; `lians_easy/verification.py:585`: what a gate
  inspects is read by several calls of git.

### How the modelled components interact

A mutation of `MemoryLifecycle` (`Forget`, `EraseSubject`, `Prune` and every `Finish...`
but that of an adjudication) commits, in the same transaction, a
`recall_cache.invalidate` job: that is `Commit` of `RecallCache`, whose `version` counts
such mutations.  `handle_llm_adjudication_job` (`supersession.py:105`) queues none: the
memory it reopens may be missing from cached answers until they expire, and
`NoStaleAnswer` says nothing of it.  The job is
a row of `DurableJobs` which the request itself may complete (`CompleteDirectly`,
the jobs in `Flushed`) or a worker may (`Repair`).  `supersession.adjudicate`
jobs connect `MemoryLifecycle` to `DurableJobs` in the same way.  `WritePath` is what
precedes and follows ingestion: its `Store` is `FinishAdd` of
`MemoryLifecycle` seen from the client, and its `FinishErase` the `EraseSubject`.
Every mutation calls `chain_log` in its own transaction: the `Log` of `AuditChain`
is a step inside those commits and rollbacks.  The stores of `DeviceSync` are one
`LocalStore` each, seen as a set of versions, tombstones and pointers.  The race of one
local program with the sync process, whose file lock does not keep it out, is in
`DeviceSync`: `BeginCorrect`/`FinishCorrect` and `BeginForget`/`FinishForget` beside
`ReadProfile`/`MergeRevision`.  The races of several local programs with each other are
`LocalStore`'s; its `LineageReciprocal` is the `Mergeable` that `DeviceSync` tests.

## 2. RecallCache

One (namespace, agent) pair and one query.  A mutation is its position in the
database's commit order; data is the number of mutations it reflects, so "stale"
is an inequality.

* Mutations: `Commit`, then per process and job `Engage` (drop the working set,
  engage the bypass: everything before the first `await`), `Bump` (INCR of the
  generation), `BumpFails` (INCR refused, or applied with its reply lost),
  `Complete` (job completed, bypass lifted).  `Repair` is the durable worker of any
  process taking the job over.  `CommitRepeated`/`DropSet` are the mutation whose
  `invalidation_reference` was used before, so that `enqueue_job` returns the
  completed row.
* Requests: one action for every read of shared state in `recall_memories`,
  `get_cached_recall`, `set_cached_recall`, `cache_generation_is_current`,
  `get_working_set` and the search; `PassBypass` is the test of the bypass that
  precedes each Redis call; `NoLookup`, `NotCurrent`, `NoClock`, `Discard`, `NoPut`
  are what each caller makes of a refused or failed call.
* Failures: `Crash` of a process, `LoseRedis` (a restart without data).

Properties.  `NoStaleAnswer`: an answer reflects every mutation committed before
the request's barrier check, and a hit every one committed before its second
check.  `ReachableIsFresh`: nothing labelled by the current generation predates a
mutation whose barrier is down.  `ImplementsRegister`: under the mapping idle /
open / done, every step is a step of `FreshRecall` or a stutter.
`BarrierReleased` (liveness): no barrier stays for ever.

| Run | Bounds | Shows |
|---|---|---|
| `recall_faults` | 2 processes, 1 request, 2 mutations, 2 generations, 1 fault | the three safety properties and the refinement, with overlapping flushes and a crash or failed INCR between any two steps |
| `recall_live` | 2 processes, no request, 2 mutations, 2 faults, repeated mutations and Redis loss | every barrier is released |

Two processes and two mutations are what an overlap needs (one process flushes
one mutation while the other has committed the next); one request, because a
request interacts with others only through `results` and `workingSet`, which the
theorem covers for any number.  `MaxGen` bounds a counter that only `Bump` and
`BumpFails` raise; the liveness run has one large enough never to be reached
within its faults and mutations.

Fairness: weak fairness of `Engage`, `Repair`, `Bump` and `Complete` per process
and job.  The flush is code that runs to its end unless its process dies, and the
worker loop (`worker.py`) polls for ever; Redis and crash failures are bounded by
`MaxFaults`, so a call that is repeated is answered in the end.  Barrier jobs are
enqueued with a million attempts (`cache_invalidation.py:63`), so the bound on
attempts of section 4 does not bite here; what section 4 shows of an embedded
worker that ends does, and `BarrierReleased` assumes some process still has one.
Requests, mutations and faults have no fairness.

Supplementary configurations, each violating `NoStaleAnswer`:

* `MCRecallCache_redisloss`: Redis restarts without data, the generation returns to 0
  and matches an old working set.
* `MCRecallCache_repeated`: a memory is restored, closed and restored again under one
  supersession event (`memory_service.py:2659-2704`): the second restore gets the
  completed job of the first, and nothing is invalidated.

## 3. MemoryLifecycle

The memories of one agent.  A row is `fact` (event time, keyed or not, value,
variant of the other metadata; never changes) and its mutable columns `until`
(`valid_to`), `by` (`superseded_by`), `erased`, `metadata`, `review`, with its row in
`live` (`live_facts`).  Keyed memories share their structured keys; two with
different variants are what `_keyed_supersession` tells apart by the remaining
metadata.

A handler that reads a row and writes it in a later statement is two actions,
`Begin...` and `Finish...`, because the database runs at READ COMMITTED, the rows
have no version column, and an ORM session writes only the columns it changed:
the last writer of a column wins.  `add_memory` and `forget_memory` take the
agent's write lock; `apply_supersession_action`, `handle_llm_adjudication_job`,
`resolve_conflict`, `record_memory_feedback`, `resolve_memory_review`,
`erase_subject` and `prune_expired_content` do not.  `Abort` rolls back any of them
at any point (an error, a crash).

`KeyedPlans` is `_keyed_supersession` in full.  `FreePlans` leaves open which
candidates are similar and what the classifier, a cue word or a model makes of
them, and keeps the order of event times the code enforces.  `Init` leaves the facts open, so a run quantifies over them.

| Property | Says |
|---|---|
| `LiveMatchesLog` | a memory is in the projection exactly when its row is open and not erased |
| `LiveIsLatest` | after any order of arrival, the newest statement is live and nothing else is |
| `LiveAgree` | of facts with the same keys and variant, only those of one event time are live |
| `ConflictsFlagged` | two live values of one time have a conflict flag |
| `AsOfKept` | only an arrival below a window that is closed makes windows overlap: after any other, a recall as of any past time still sees one event time |
| `NoErasedRecalled` | an erased memory is not in the projection, not even as an empty husk |
| `LiveIsOpen`, `LineageAcyclic` | decisions leave no closed row live, and no cycle of `superseded_by` |

| Run | Instance | Shows |
|---|---|---|
| `memory_order` | 2 requests, facts in any order, ahead of the clock too | `LiveIsLatest`, `ConflictsFlagged`, `LiveAgree`, `AsOfKept`: needs the write lock |
| `memory_erasing` | ingestion, feedback, reviews, resolutions, all erasures | `LiveMatchesLog`, `NoErasedRecalled` |
| `memory_decisions` | ingestion, rejection, adjudication, resolution, pruning | `LiveIsOpen`, `LineageAcyclic` |

Three memories are what a late arrival between two others needs, and a chain of
two supersessions; two or three instants give each order and each tie; two values
give agreement and conflict.  `Ops` selects the operations of a run; together the
runs take every action.  `memory_erasing` and `memory_decisions` have one worker,
against the operations that are a single step (`Forget`, `EraseSubject`, `Prune`),
which still interleave with its two halves; races between any number of workers are
covered by the theorems of section 9, each under the hypothesis it names there.

Supplementary configurations, each a divergence worth knowing:

| Configuration | Property violated | Behaviour |
|---|---|---|
| `MCMemoryLifecycle_adjudicated` | `LiveMatchesLog` | `handle_llm_adjudication_job` reopens the row and not the projection |
| `MCMemoryLifecycle_husk` | `NoErasedRecalled` | rejecting the supersession of an erased memory inserts a live fact |
| `MCMemoryLifecycle_shred` | `ErasedIsShredded` | feedback writes back the metadata column it read before the memory was forgotten |
| `MCMemoryLifecycle_twice` | `ResolvedOnce` | two reviewers resolve one conflict: the status is tested before an await |
| `MCMemoryLifecycle_mixed` | `LiveAgree`, `AsOfAgree` | keys with different variants: an older fact of another variant stays live; a late arrival below a closed window: only open rows are candidates, so windows overlap |
| `MCMemoryLifecycle_future` | `LineageAcyclic` | a replacement that arrives historical is superseded by the memory it replaces |

Also seen: `models.py:626` says of `LiveFact` "at most one row per key", which two
values of one time contradict by design (they are flagged instead).

## 4. DurableJobs

Rows with `status`, `attempts`, `leasedBy`, and one flag `ready` in place of the
clock (the `available_at` of a pending row, or the `lease_until` of a leased one, has
passed).  `lease_jobs` locks what it reads (FOR UPDATE SKIP LOCKED) and is one
step; `complete_job` and `fail_job` read the row without a lock and write it in a
second step.  A worker leases a batch, then runs its jobs one after the other
without looking at their leases again.  `CompleteErrs` is a database error inside
the `try` of `drain_jobs_once`, `WorkerErrs` one outside it; with `Embedded` the
worker is a task of the API process and nobody restarts it.

| Run | Shows |
|---|---|
| `jobs_leases` (2 jobs, one of them flushed by requests, 2 workers, 2 attempts, 1 fault) | completed rows are handled; runs never exceed attempts; only exhausted jobs are dead; no concurrent run, no run after completion and no reopening, unless a live worker outlived a lease |
| `jobs_live` (1 job, 2 workers, 3 attempts, 2 faults) | every job is completed, dead-lettered or tried `max_attempts` times |

Two jobs make a batch with a late one, two workers make a stale one; attempts 2
and 3 put the last attempt next to the first and apart from it.

Fairness: weak fairness of the clock, of what a live worker does next and of the
restart of a process (a supervisor).  None for requests, for a handler to succeed,
or for the embedded worker to come back.

Supplementary configurations: `MCDurableJobs_lost` (a crash during the last attempt
leaves the row leased for ever: `Settled` fails), `MCDurableJobs_stopped` (the embedded
worker ends for good after a database error: `EventuallySpent` fails) and `MCDurableJobs_rerun`
(`NotRunOnceCompleted`: a completed job is run again by a worker that outlived its
lease).  The same path leaves a row "pending" with `attempts = max_attempts`, never
leased again, when a stale worker fails after the last lease.

## 5. WritePath

One data subject.  A request is its Idempotency-Key; `Held` are those that admission
control parks.  What the client does not see answered it may send again, to any
process, at any time: `Begin` is enabled while the key names no memory.

* `LookUpKey`, `KeyFound`, `CreateKey`: `_resolve_subject_key`.  The cache of the
  process is read, or the row, and the key is put into the cache before the row that
  holds it commits.  A second flush of the row waits for the transaction of the first
  and fails if that commits (the primary key of `subject_keys`).
* `Store`: the commit of `add_memory` with the row of `idempotency_keys`; if another
  committed that first, everything is rolled back and its row returned (`Answered`).
* `Park`, `BeginApprove`, `BeginReject`, `FinishReview`: `resolve_pending` tests the
  status, awaits, then writes it.  Approving passes through all of the above.
* `BeginErase`, `FinishErase`, `Evict`: `erase_subject` selects, erases and destroys,
  and then drops the key from the cache of its own process.
* `Fail`, `Crash`: a request is rolled back, a process dies.

`OncePerKey`: one memory for an Idempotency-Key.  `KeysOnRecord`: every memory is
encrypted under the key on record, or under one whose creation is open or was rolled
back.  `ApprovedIsStored`: what is recorded as approved has its memory.
`DestroyedForGood`: the key on record never changes, and once destroyed stays so.

Run `write_path`: three workers in two processes, a plain and a held write, two keys,
two memories, one fault.  Two workers race to create the key while the third erases;
two processes have two caches; two memories and two keys are what a second write of
one request would need.

| Configuration | Property violated | Behaviour |
|---|---|---|
| `MCWritePath_phantom` | `WrittenIsReadable` | the retry of a write creates a key, is answered by the first and rolled back, and its key stays in the cache (`memory_service.py:621`): later memories are encrypted under a key no row holds |
| `MCWritePath_reviews` | `AdmittedOnce`, `RejectedIsNotStored`, `ParkedOnce` | two reviewers approve one held write, or approve and reject it; the retry of a held write is held again |
| `MCWritePath_served` | `DestroyedNotServed` | an erasure evicts the key from its own process only (`dek_cache.py:59`); the others go on using it |
| `MCWritePath_erased` | `ErasedForGood` | a memory that commits between the selection and the erasure is left unerased, under a destroyed key |

## 6. AuditChain

A hash covers the row and the hash before it, so a row stands for its hash.  `Stamp`
takes the time, `Log` reads the tip and flushes the row (`chain_log`), both inside the
transaction of the operation that logs; a transaction sees committed rows and its own
(`Visible`), and of several rows with the latest time any may be the tip.  A full
window is drained under the lock of its process (`Flush`, `NothingToFlush`) and
`Anchor` logs it.  `Rollback` undoes the rows but neither the window nor what was
drained; `Crash` empties the window.

`Verifies`: in a log nobody touched, every committed row follows a committed row or
the genesis.  `DeletionShows`: if transactions did not overlap and no two times were
equal (the ghost `serial`), deleting any row but the last leaves an orphan.
`AnchoredOnce`: an event is under one anchor, in one window, or drained, once.
`EventsCovered`: until something fails, nothing falls out of all of them.

Run `audit_chain`: three transactions in two processes (two of them share a window),
a batch of two, four rows, three instants, one fault: a fork, a fork of a fork, a
full window with a competitor, an anchor and its rollback all fit.

| Configuration | Property violated | Behaviour |
|---|---|---|
| `MCAuditChain_limit` | `DeletionAlwaysShows` | of two rows that follow one tip, the one nobody follows can be deleted unseen; `audit_chain.py:15-18` promises that any deletion shows |
| | `VerifiesWithinLimit` | a row may follow one with a later time (the time is taken before the tip is read): cut off between them, verification reports an orphan in an intact log |
| `MCAuditChain_batch` | `BatchVerifies` | `merkle_audit.py:200` looks the leaves up by a payload that only the anchor's own row carries: every intact batch is "tampered" |
| | `AnchorsCommitted` | the hash of an event that was rolled back stays in the window and is anchored |

## 7. LocalStore

`memory` holds the versions in the order of writing; `dependency` and `invalidation`
are the tables of `state_integrity.py`, rows that are deleted being kept as such.
`SetCurrent`, `Link`, `Dismiss`, `Repair` hold the database lock from their first read
(BEGIN IMMEDIATE) and are one step; `correct`, `rescope` and `forget` read before
their transaction begins and are two (`Begin...`, `Finish...`).  `Invalidate` is
`propagate_invalidation`, part of the transaction of the change; `Reached` is its walk
along dependencies, as the least closed set.

`OneCurrent`: one current version of a key that only `set_current` writes.
`LinkedFollows`: a dependency on a version that was current when linked has an open
invalidation once that version is replaced, unless it was swept away.
`OpenIsActive`: an open invalidation has an active dependency and no rival.
`ForgottenUnlinked`: nothing active or open names a forgotten version.
`LinksAcyclic`: the links clients declare make no cycle.

Run `local_store`: two interchangeable clients, one key, one place, one artifact, three
versions, two dependencies.  Two clients are what a stale read needs; three versions
are a chain of two replacements or a memory between two others; two dependencies make
a path of length two, a cycle, or a repair next to what it repairs.  Several
projects matter to `rescope` only, and to the theorems, which have any number.

| Configuration | Property violated | Behaviour |
|---|---|---|
| `MCLocalStore_races` | `LineageReciprocal` | a correction or move of a version another client has replaced meanwhile: two versions supersede one, which every export, backup and sync then refuses |
| | `LineageForgotten` | a version written while its lineage is being forgotten outlives it |
| | `OneCurrentAnyway` | a key whose memory is corrected concurrently, or moved to where the key is set, has two current versions |
| `MCLocalStore_repaired` | `RepairedFollows` | a late repair binds to a replacement that is superseded already (`state_integrity.py:845`): the next change passes unnoticed |
| | `NoSelfDependency` | a repair can link a memory to itself, which `link_many` refuses |
| | `Repairable` | when the artifact was linked to the new version first (a checkpoint does so) the unique index refuses the repair, now and at every retry |
| `MCLocalStore_moved` | `MovedFollows` | a moved memory leaves its dependents on the old version, and is not invalidated when it changes in its new place |
| `MCLocalStore_swept` | `LinkedFollowsAnyway` | forgetting a memory deletes the invalidations that name it as trigger or replacement, of other memories' dependencies too |

## 8. DeviceSync

The server keeps a chain of revisions for each epoch, the registered devices, their
grants and the rotations; a device keeps `saved` (`sync-state.json`), its `store` and
the operation `op` that holds its file lock.  A revision is the whole profile, so
`body` is a set of versions and tombstones.  Signatures, hashes and encryption are
taken to work: to hold the key of an epoch is to be at that epoch, and the hash a
revision extends is its number.

* Enrolment: `Request`, `Approve` (`_add_device` and what the approver then saves, or
  does not, if the reply is lost), `Accept`, `EndEnrolment` at any time.
* Pull: `Start`, then `ApplyRotation` one at a time, `ApplyGrants`, `Fetch`,
  then for each revision `ReadProfile` and `MergeRevision`.  `merge_profile_payload`
  reads in autocommit (`_connect` opens no transaction) and its first INSERT or UPDATE
  begins one, so the rows it writes, `Overwrite`, are computed from `op.seen`, which may be
  out of date by then.  The cursor is saved after the commit, or not, if the process dies.
* Publishing: `Prepare`, `Push` (with or without its reply), `PushStale` (refused
  because the head has moved: one more pull and push).
* Removal: `Remove`, with the rotation of the key and the deletion of the revisions.
* Local changes happen on any device at any time, between the two halves of its own merges
  too.  `correct` and `forget` read before their transactions as well: `BeginCorrect` and
  `BeginForget` leave in `client` what `FinishCorrect` and `FinishForget` write, unless the
  program fails (`GiveUp`); `Remember` reads nothing.  `Abort` ends an operation anywhere.
* `raced` is a history variable: the devices whose last merge overlapped a local change
  (the store was no longer what the merge had read, or a program had read it and was about
  to write).

`HeadCovered`: a device at revision n has all that the chain carried up to n.
`LogGrows`: every revision has all of those before it.  `RemovalLosesNothing`: when
revisions are deleted, a device that remains has what was in them.
`RemovedStayBehind`, `WritersActive`: a removed device gets no later key and leaves
nothing in the chain.  `ForgottenLineage`: a tombstone covers the whole lineage on
every device outside `raced`.  A lineage that a race leaves half forgotten the next merge
that is left alone mends, as `_propagate_forgotten_lineages` covers all that the store
holds; until then it shows, as the table of races below tells.

`SharesProfile`: the system implements `SharedProfile`.  There is no server in it, and no
message, key or enrolment: devices gather facts (a version is known; a version is
forgotten), each is at a place in one chain, takes the next revision only as it has what
that carries, publishes or removes only at the end of the chain, and goes from epoch to
epoch up to the one of its own removal.  `Chain` and `RemovedDevices` are read off the
server's rows, `Holdings` off the stores, `Places` off the saved epochs and heads; approvals,
fetches, grants, refusals and crashes are not seen.  The invariants above speak of states;
this one speaks of steps: that a cursor never jumps nor moves back within an epoch, what a
store may lose, and who may append to the chain or begin a new one.  A store loses no
memory, and a tombstone only in a `Take`, if it was gathered after the `Look` of that
merge; `Looks` is what an open merge has read.  A device that is behind an epoch still
reads on in the page it has: the chain of that epoch is deleted, so nothing is promised of
what it then takes but what it keeps.

| Run | Bounds | Shows |
|---|---|---|
| `device_sync` | 2 devices, one of them enrolling; a memory and a correction of it; 2 epochs, 2 revisions, 2 operations or local changes at once; `OneRace`, `OneScene` | the six properties, and `SharesProfile` |
| `device_stranded` | 3 devices, no memory, 2 epochs | **violated** `SurvivorsFollow`: `docs/cloud-sync-protocol.md:81-83` says that an offline survivor verifies the rotation; but `_pull` applies rotations before grants, so one that was offline while another was enrolled refuses it for good |

Two devices publish against each other, one forgets what the other corrects, and they
remove one another; two revisions put one on top of the other.  `OneRace` lets one store
at a time be torn; `OneScene` lets the other devices rest while a local program changes a
store.  Both bound the search only: the seven properties are proved without them, with
any number of devices, memories, operations and races.

`MCDeviceSync_races` has no such constraint, and two rival corrections of a memory.  It
shows what the race of a local program with a merge does (keep one property at a time):

| Property violated | Behaviour |
|---|---|
| `TombstonesKept` | a `forget` commits between the read and the write of a merge that changes the same row: the merge writes back `forgotten_at` and the content it had read (`portability.py:1040-1059`), against "a permanent forget tombstone always wins" (`docs/cloud-sync-protocol.md:101`) |
| `LineageAlways` | a `forget` has read its lineage when the merge commits a correction of it: the correction stays live |
| `AlwaysMergeable` | a `correct` commits in the gap, or has read the version before the merge brings another correction of it: two corrections of one version |

A tombstone undone on every version of its lineage is lost for good, as it was not
published yet.  A lineage torn in two lasts until the next merge that no local change
overlaps.  The third does not end: `_validate_combined_lineage` refuses every merge into such a store and
`_validate_payload` every push from it (`DivergenceStays`, an action property that TLC
finds to hold on the instances of `device_sync` and, with the two constraints, of
`MCDeviceSync_races`).  `NoDivergence`, that a store outside `raced` is never in that
state, is proved (`OneCorrection`).

Other behaviours of the code that the model has and no property excludes: a device
enrolled after a removal is handed the registry of its approver but not the removals, and does not pull if an active device was approved by a
removed one; after a rotation the first survivor to publish may be one that was
offline when a memory was forgotten, and until a device that knows publishes, a
forgotten memory is live in the chain (`docs/cloud-sync-protocol.md:106`); an enrolment
that expires once approved leaves an active row that nobody can use and that cannot be
registered again.

## 9. What is proved

Every theorem is for arbitrary constants under the assumptions its module names.  Each
module has its type invariant proved; TLC runs it in `jobs_leases` too (it bounds the
attempts there), elsewhere the proof alone has it.

**RecallCacheProofs** (`~Repeats`, `~RedisLoses`): `TypeCorrect`, `Invariance`,
`NeverStale`, `GenerationGuards`, `Refinement`.  `NoStaleAnswer` is not inductive:
it speaks only of requests that are done.  The inductive invariant `IInv` adds that
jobs, requests, working sets and results refer to what exists (`...Behind`), that
the barriers a request relied on stay down for the mutations it counted
(`BarrierHeld`), that whatever is labelled with a generation a request captured
reflects what that request must reflect, even when that generation is no longer
current (`CapturedIsFresh`), and that settled data is fresh (`SettledIsFresh`).
The heart is `Bump`: the new generation has no results, no working sets and no
holders, because all of them were captured behind it.

**MemoryLifecycleProofs**: `TypeCorrect`; `ErasureIsFinal` (`NoErasedRecalled`,
with no rejection in `Ops`); `ProjectionIsExact` (`LiveMatchesLog`, with neither
rejection nor adjudication); `SupersededIsNotRecalled` (`LiveAgree`, the same and a
single variant).  The restrictions are exactly the operations that the
configurations of section 3 show to break them.  The proofs hold for any number of
workers: what a worker plans under the lock stays true until it commits, because
whoever acts without the lock only closes or erases (`BaseInvariant`, and the plan
invariants over it).

The other five speak of several memories at once, and each has an invariant of what
is still between a worker's two halves:

* `ConflictsAreFlagged` (`ConflictsFlagged`; neither rejection nor adjudication, a
  single variant): `Contested` says that a plan flags every candidate of its own time
  that contradicts it.  The read under the lock makes it true, and it stays so because
  without reopening nothing becomes live behind the lock (`LiveShrinks`).
* `NewestIsLive` (`LiveIsLatest`; only additions, a single variant): that what is live is
  the latest does not follow from itself, as nothing need be live at all; `Dominated`
  adds that every statement is as old as a live one, or older, and `OrderedInv` that a
  plan closes nothing later than its own memory.
* `HistoryAgrees` (`AsOfKept`, an action property; no rejection, adjudication, resolution
  or review, a single variant): windows of different event times that do not overlap still
  do not after any step but the arrival of a fact below the end of a closed window.  That
  one is exempt because it does make windows overlap (`MCMemoryLifecycle_mixed`).  `Sharp` says that a plan closes only open windows and
  ends its own where the earliest later candidate begins; `WindowsStay` that nobody
  moves a window while another worker holds the lock.
* `LiveIsAlwaysOpen` (`LiveIsOpen`; either no rejection, or one worker and no forgetting):
  `RejectInv` relates the window a rejection has read to the projection row it will
  insert.  Without the hypothesis another decision closes the row between the two.
* `LineagesEnd` (`LineageAcyclic`; no facts ahead of the clock, or no review): a cycle is
  a set each member of which is led to by a member.  `NoLoop` says there is none even
  if every correction that a review still has to write is counted as an edge (`Leads`),
  and `Ascends` that every edge goes from a time to one no earlier.  `LeadsIngest` is
  the heart: the memory that is ingested has no edge to it yet but the ones of its plan.

**DurableJobsProofs**: `TypeCorrect`, `CompletedIsHandled`, `DeadLetterIsEarned`,
`RunsAreBounded`, `RunsAreExclusive`, `CompletionIsFinal`, `CompletionEndsRuns`.
`CoreInvariant` relates what a worker computed to the row it will write;
`ExclusiveInvariant` says that, until a lease is outlived, a claim on a job (in a
batch or being handled) belongs to the holder of its lease.  `RunsAreBounded` counts
runs and outstanding claims together and needs `IsFiniteSet(Workers)`.

**WritePathProofs**: `TypeCorrect`, `WrittenOnce`, `EncryptedUnderKnown`,
`ApprovedStored`, `KeyForGood`.  `KeysOnRecord` looks at memories, but a key reaches them
from caches and from handlers, which keep it across a rollback: `KeysKnown` says of all
three that the key is on record, being created, or lost.  `OneCreator` says that while a
creation is open there is no key on record and no other creation, so that what commits
never replaces anything.  `ApprovingIsStored` carries the memory from its commit to
the end of its review.

**AuditChainProofs**: `TypeCorrect`, `LogVerifies`, `DeletionsShow`,
`AnchoredAtMostOnce`, `NothingUncovered`.  `Rooted`: the predecessor of a committed row is
committed, that of an open row is visible to its transaction; it survives rollbacks
because a transaction sees no open row of another.  `OneChain`: while the log is serial,
times grow with rows and every row but the last is followed, in what is committed and
in what each transaction sees.  `InOnePlace` replaces the three cardinalities of
`AnchoredOnce` by "two of them are the same one", and the theorem counts from that.

**LocalStoreProofs**: `TypeCorrect`, `OneCurrentVersion`, `DependentsFollow`,
`OpenIsRepairable`, `ForgottenForGood`, `NoCycle`.  `OneEach`: an invalidation is open
exactly while its dependency is active, and a dependency has had no other.  `Reached`
is a least closed set, so what the proofs need of the walk (it holds its start, and is
closed) comes from its definition; a cycle is a set without a least element, so a new
link that closed one would have had its upstream in `Reached` of its downstream:
no induction along paths is needed.

**DeviceSyncProofs** (`SyncAssumption`, `NoneAssumption`, and `LineageAssumption`, which
states that the recursive function `Origin` satisfies its equation, as it does when
corrections form no cycle): `TypeCorrect`, `NothingSkipped`, `NothingOverwritten`,
`RemovedKeepOut`, `OnlyActiveWrite`, `ForgottenEverywhere`, `OneCorrection`,
`RemovalKeepsAll`, `ProfileIsShared` (`SharesProfile`).  `ForgottenEverywhere` and
`OneCorrection` are about the devices outside `raced`; the others have no such condition.
`StoresSound` is what no race breaks: only known versions are forgotten, and a known
correction has the version it corrects.  `ClientsSound` says what a local program may
still assume of what it read: outside `raced`, that the lineage it is about to forget is
closed and the version it corrects uncorrected (`Changing`, `Closed`).  A merge about to
write (`Writing`) has computed a mergeable profile from one that the store still contains
and that has the chain up to the head (`Taken`), so that `Overwrite` leaves all of it,
whatever was committed since; `MergeEffect` draws the consequences.
`OperationsSound` speaks of what an operation has in hand across a
rotation or the pushes of others: a fetched revision is of a past epoch or where the
log has it (`Fetched`), a draft is on top of the saved head and holds all that lies
below it, and the store still holds all of the draft (`Drafted`).  `RemovedForGood`
keeps a removed device from a later grant.  The refinement has one lemma per abstract
action (`GatherStep`, `LookStep`, `LookAwayStep`, `TakeStep`, `PublishStep`, `EnterStep`,
`FollowStep`, `RemoveStep`), each from what the invariant says before and after the step; `Mapped`
and `Placing` say what the abstract variables are, and `Unseen` is the stutter.

## 10. What is only model-checked, and what is not modelled

Only model-checked: liveness (`BarrierReleased`, `EventuallySpent`), which is beyond
the prover under fairness, and every violated property.  The hypotheses of the theorems
on `MemoryLifecycle` hold in the runs too: outside them, its properties are neither
proved nor checked, except where a configuration of section 3 shows them violated.
Liveness of `WritePath`, `AuditChain`, `LocalStore` and `DeviceSync` is not stated: their
requests and operations may all fail, and the code retries none of them by itself.

In the configurations with several violated properties TLC stops at the first: keep
one of them at a time.

`CHECK_DEADLOCK FALSE` is in every configuration: with bounded requests, rows and faults
each system may come to rest.

Assumptions of the models: PostgreSQL at READ COMMITTED (the SQLite test backend
serialises more); one column is written by one statement; the write lock is the
advisory lock, so it excludes other processes; a Redis command is atomic; the
clock is shared and does not go back; SQLite transactions that begin with BEGIN
IMMEDIATE exclude each other, and those that begin with a write do so from there on.

Not modelled, and why:

* Memory lifecycle: barrier groups, importance and decay, embeddings and scores (no
  control depends on them), legal holds, derived memories of the interjection and
  enrichment steps (ingested like any other).
* Write path: how a write is classified (text patterns; a constant of the model), the
  sealing of held content, several subjects.
* Audit chain: the hash function (assumed injective), inclusion proofs and export (pure
  functions of rows).
* Local store: search, context packs and receipts, pausing, activity, the erasure of the
  whole profile.  An older `event_time` is refused by `set_current` and changes nothing.
* Device sync: cryptography, limits of size and time, deletion of the workspace,
  recovery from a backup, and what the merge does to activity, receipts, dependencies
  and pauses.
* Task guard, verification gate, Mission Control: they depend on files, git and child
  processes that change outside the code.  What the task guard writes goes through the
  operations of `LocalStore`.
* User interface, installer, migrations, ranking, adapters, SDKs: no shared state, or
  input and output only.  `PROJECT.json` gives the reason for each.

## 11. Plan

1. A composition of `MemoryLifecycle` and `RecallCache`: a recall never returns a
   memory erased before it began.
2. Recovery from a backup and deletion of the workspace in `DeviceSync`, with the
   merge of dependencies.
3. `Deliveries`: webhooks as a refinement of `DurableJobs` with the delivery record.

The modules are written to be proved about: constants with named assumptions, one
action per operation or atomic part of it, invariants as named conjuncts, no
RECURSIVE operators (`Origin` of `DeviceSync` is a recursive function, of which the proofs
use only the equation that `LineageAssumption` states).
