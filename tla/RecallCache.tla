----------------------------- MODULE RecallCache -----------------------------
(***************************************************************************)
(* The recall read path of the hosted server (agentmem/src/lians): the     *)
(* Redis recall cache with its shared generation (cache.py), the working   *)
(* set each API process keeps (session_cache.py), the invalidation barrier *)
(* committed with every mutation (cache_invalidation.py), and the order in *)
(* which recall_memories reads and re-reads them (memory_service.py).      *)
(*                                                                         *)
(* One (namespace, agent) pair and one query.  A mutation is its position  *)
(* in the commit order of the database: `version' is the number of         *)
(* mutations committed, and a recall answer is the number of mutations it  *)
(* reflects.  An invalidation job is named by the mutation it belongs to.  *)
(***************************************************************************)
EXTENDS Integers

CONSTANTS
    Procs,         \* API processes: each has a bypass flag and a working set
    Readers,       \* concurrent recall requests
    MaxVersion,    \* bound: mutations committed
    MaxGen,        \* bound: Redis generation
    MaxFaults,     \* bound: process crashes and Redis failures
    Repeats,       \* a mutation may carry the identity of a completed job
    RedisLoses     \* Redis may restart without its data

ASSUME ConstantsAssumption ==
    /\ MaxVersion \in Nat
    /\ MaxGen \in Nat
    /\ MaxFaults \in Nat
    /\ Repeats \in BOOLEAN
    /\ RedisLoses \in BOOLEAN

VARIABLES
    version,     \* database: mutations committed so far
    pending,     \* database: recall_cache.invalidate jobs not "completed"
    generation,  \* Redis: recall generation, a missing key reads as 0
    results,     \* Redis: generation -> cached answer, or Absent
    bypass,      \* process: the pair is in _cache_bypass_pairs
    workingSet,  \* process: [gen, rows] of session_cache._cache, or none
    flush,       \* process, job -> where its flush_recall_invalidation stands
    pc,          \* reader: next step of recall_memories
    home,        \* reader: the process serving it
    floor,       \* reader: mutations its answer must reflect, those committed
                 \* at its first barrier check
    mark,        \* reader: for a hit, those committed at its second check
    tag,         \* reader: the generation it captured, or NoGen
    keyed,       \* reader: cache_lookup is not None, so a fill is possible
    rows,        \* reader: the mutations its data reflects
    faults       \* crashes and Redis failures so far (bound only)

database == <<version, pending>>
redis    == <<generation, results>>
process  == <<bypass, workingSet, flush>>
reader   == <<pc, home, floor, mark, tag, keyed, rows>>
vars     == <<version, pending, generation, results, bypass, workingSet, flush,
              pc, home, floor, mark, tag, keyed, rows, faults>>

Versions == 0..MaxVersion
Jobs     == 1..MaxVersion
Gens     == 0..MaxGen
NoGen    == -1
Absent   == -1
EmptySet == [gen |-> NoGen, rows |-> 0]

FlushSteps == {"none", "committed", "repeated", "bump", "bumped"}

Steps == {"idle", "lookup", "generation", "value", "reread", "hit", "miss",
          "barrier", "recheck", "current", "confirm", "clock", "clockread",
          "workingset", "fetch", "admit", "admitgen", "admitted", "store",
          "keep", "search", "fill", "put", "write", "done"}

TypeOK ==
    /\ version \in Versions
    /\ pending \in SUBSET Jobs
    /\ generation \in Gens
    /\ results \in [Gens -> Versions \cup {Absent}]
    /\ bypass \in [Procs -> BOOLEAN]
    /\ workingSet \in [Procs -> [gen : Gens \cup {NoGen}, rows : Versions]]
    /\ flush \in [Procs -> [Jobs -> FlushSteps]]
    /\ pc \in [Readers -> Steps]
    /\ home \in [Readers -> Procs]
    /\ floor \in [Readers -> Versions]
    /\ mark \in [Readers -> Versions]
    /\ tag \in [Readers -> Gens \cup {NoGen}]
    /\ keyed \in [Readers -> BOOLEAN]
    /\ rows \in [Readers -> Versions]
    /\ faults \in 0..MaxFaults

Init ==
    /\ version = 0 /\ pending = {}
    /\ generation = 0 /\ results = [g \in Gens |-> Absent]
    /\ bypass = [p \in Procs |-> FALSE]
    /\ workingSet = [p \in Procs |-> EmptySet]
    /\ flush = [p \in Procs |-> [j \in Jobs |-> "none"]]
    /\ pc = [r \in Readers |-> "idle"]
    /\ home \in [Readers -> Procs]
    /\ floor = [r \in Readers |-> 0]
    /\ mark = [r \in Readers |-> 0]
    /\ tag = [r \in Readers |-> NoGen]
    /\ keyed = [r \in Readers |-> FALSE]
    /\ rows = [r \in Readers |-> 0]
    /\ faults = 0

-----------------------------------------------------------------------------
(* Mutations: the change and its invalidation job commit together, then    *)
(* the process drops its own working set, engages its bypass, bumps the    *)
(* shared generation and completes the job.                                *)

\* A recall-affecting mutation and its barrier commit in one transaction.
Commit(p) ==
    /\ version < MaxVersion
    /\ version' = version + 1
    /\ pending' = pending \cup {version + 1}
    /\ flush' = [flush EXCEPT ![p][version + 1] = "committed"]
    /\ UNCHANGED <<redis, bypass, workingSet, reader, faults>>

\* A memory restored twice under one supersession event: enqueue_job returns the
\* completed job of the first time, and with it flush returns at once.
CommitRepeated(p) ==
    /\ Repeats
    /\ version < MaxVersion
    /\ version' = version + 1
    /\ flush' = [flush EXCEPT ![p][version + 1] = "repeated"]
    /\ UNCHANGED <<pending, redis, bypass, workingSet, reader, faults>>

DropSet(p, j) ==
    /\ flush[p][j] = "repeated"
    /\ workingSet' = [workingSet EXCEPT ![p] = EmptySet]
    /\ flush' = [flush EXCEPT ![p][j] = "none"]
    /\ UNCHANGED <<database, redis, bypass, reader, faults>>

\* invalidate_working_set and the bypass precede the first await after commit.
Engage(p, j) ==
    /\ flush[p][j] = "committed"
    /\ workingSet' = [workingSet EXCEPT ![p] = EmptySet]
    /\ bypass' = [bypass EXCEPT ![p] = TRUE]
    /\ flush' = [flush EXCEPT ![p][j] = "bump"]
    /\ UNCHANGED <<database, redis, reader, faults>>

\* Mutant of Repair: the worker engages the bypass and never calls INCR.
RepairForgets(p, j) ==
    /\ j \in pending
    /\ flush[p][j] = "none"
    /\ bypass' = [bypass EXCEPT ![p] = TRUE]
    /\ UNCHANGED <<database, redis, workingSet, flush, reader, faults>>

\* The durable worker of p picks up an unfinished job: bypass, no local drop.
Repair(p, j) ==
    /\ j \in pending
    /\ flush[p][j] = "none"
    /\ bypass' = [bypass EXCEPT ![p] = TRUE]
    /\ flush' = [flush EXCEPT ![p][j] = "bump"]
    /\ UNCHANGED <<database, redis, workingSet, reader, faults>>

\* INCR succeeds, and with its reply the process releases its bypass.
Bump(p, j) ==
    /\ flush[p][j] = "bump"
    /\ generation < MaxGen
    /\ generation' = generation + 1
    /\ bypass' = [bypass EXCEPT ![p] = FALSE]
    /\ flush' = [flush EXCEPT ![p][j] = "bumped"]
    /\ UNCHANGED <<database, results, workingSet, reader, faults>>

\* Mutant of BumpFails: a failed INCR is taken for a successful one.
BumpFailsOpen(p, j) ==
    /\ flush[p][j] = "bump"
    /\ faults < MaxFaults
    /\ faults' = faults + 1
    /\ flush' = [flush EXCEPT ![p][j] = "bumped"]
    /\ UNCHANGED <<database, redis, bypass, workingSet, reader>>

\* INCR fails, or is applied and its reply lost: the bypass stays engaged and
\* the job stays unfinished for the durable worker.
BumpFails(p, j) ==
    /\ flush[p][j] = "bump"
    /\ faults < MaxFaults
    /\ faults' = faults + 1
    /\ generation' \in {generation, generation + 1} \cap Gens
    /\ bypass' = [bypass EXCEPT ![p] = TRUE]
    /\ flush' = [flush EXCEPT ![p][j] = "none"]
    /\ UNCHANGED <<database, results, workingSet, reader>>

\* The job is marked "completed" and committed; a second completion of the
\* same job by another process changes nothing.
Complete(p, j) ==
    /\ flush[p][j] = "bumped"
    /\ pending' = pending \ {j}
    /\ flush' = [flush EXCEPT ![p][j] = "none"]
    /\ UNCHANGED <<version, redis, bypass, workingSet, reader, faults>>

-----------------------------------------------------------------------------
(* A recall of recall_memories.  An await is a step of its own: the moment  *)
(* Redis or the database is read or written; what runs between two awaits  *)
(* without yielding (a bypass test, the working set) is another.           *)

Goto(r, step) == pc' = [pc EXCEPT ![r] = step]

\* The answer is returned; what the request captured is forgotten with it.
Finish(r) ==
    /\ Goto(r, "done")
    /\ tag' = [tag EXCEPT ![r] = NoGen]
    /\ keyed' = [keyed EXCEPT ![r] = FALSE]

\* Mutant of Begin: the lookup is not made to depend on the barrier.
BeginUnchecked(r, p) ==
    /\ pc[r] \in {"idle", "done"}
    /\ home' = [home EXCEPT ![r] = p]
    /\ floor' = [floor EXCEPT ![r] = version]
    /\ rows' = [rows EXCEPT ![r] = 0]
    /\ Goto(r, "lookup")
    /\ UNCHANGED <<database, redis, process, mark, tag, keyed, faults>>

\* The request arrives and reads the database barrier for the first time.
Begin(r, p) ==
    /\ pc[r] \in {"idle", "done"}
    /\ home' = [home EXCEPT ![r] = p]
    /\ floor' = [floor EXCEPT ![r] = version]
    /\ rows' = [rows EXCEPT ![r] = 0]
    /\ Goto(r, IF pending = {} THEN "lookup" ELSE "search")
    /\ UNCHANGED <<database, redis, process, mark, tag, keyed, faults>>

\* The bypass tests of cache.py, before and after its Redis calls: where a
\* request goes on when the bypass is off.
Tested == [lookup |-> "generation", hit |-> "barrier", miss |-> "workingset",
           recheck |-> "current", clock |-> "clockread", admit |-> "admitgen",
           admitted |-> "store", put |-> "write"]

PassBypass(r) ==
    /\ pc[r] \in DOMAIN Tested
    /\ ~bypass[home[r]]
    /\ Goto(r, Tested[pc[r]])
    /\ UNCHANGED <<database, redis, process, home, floor, mark, tag, keyed,
                   rows, faults>>

\* Redis is refused at one of the steps `tests' because the bypass is on, or
\* fails at one of the steps `calls'.
Refused(r, tests, calls) ==
    \/ pc[r] \in tests /\ bypass[home[r]]
    \/ pc[r] \in calls

\* get_cached_recall reads the generation ...
ReadGeneration(r) ==
    /\ pc[r] = "generation"
    /\ tag' = [tag EXCEPT ![r] = generation]
    /\ keyed' = [keyed EXCEPT ![r] = TRUE]
    /\ Goto(r, "value")
    /\ UNCHANGED <<database, redis, process, home, floor, mark, rows, faults>>

\* ... then the payload under it: a hit, or a miss (nothing was cached there,
\* or it has expired) ...
ReadValue(r) ==
    /\ pc[r] = "value"
    /\ \/ /\ results[tag[r]] # Absent
          /\ rows' = [rows EXCEPT ![r] = results[tag[r]]]
          /\ Goto(r, "reread")
       \/ /\ Goto(r, "miss")
          /\ UNCHANGED rows
    /\ UNCHANGED <<database, redis, process, home, floor, mark, tag, keyed,
                   faults>>

\* ... then the generation again: one that moved turns the hit into a miss
\* under the new generation.
RereadGeneration(r) ==
    /\ pc[r] = "reread"
    /\ tag' = [tag EXCEPT ![r] = generation]
    /\ Goto(r, IF generation = tag[r] THEN "hit" ELSE "workingset")
    /\ UNCHANGED <<database, redis, process, home, floor, mark, keyed, rows,
                   faults>>

\* cache_lookup is None: no hit, and no fill of this request.
NoLookup(r) ==
    /\ Refused(r, {"lookup", "hit", "miss"}, {"generation", "value", "reread"})
    /\ tag' = [tag EXCEPT ![r] = NoGen]
    /\ keyed' = [keyed EXCEPT ![r] = FALSE]
    /\ Goto(r, "clock")
    /\ UNCHANGED <<database, redis, process, home, floor, mark, rows, faults>>

\* A hit is trusted only if no barrier is pending now ...
RecheckBarrier(r) ==
    /\ pc[r] = "barrier"
    /\ IF pending = {}
       THEN /\ mark' = [mark EXCEPT ![r] = version]
            /\ Goto(r, "recheck")
       ELSE /\ Goto(r, "workingset")
            /\ UNCHANGED mark
    /\ UNCHANGED <<database, redis, process, home, floor, tag, keyed, rows,
                   faults>>

\* ... and cache_generation_is_current: the generation is still the captured one.
RecheckGeneration(r) ==
    /\ pc[r] = "current"
    /\ generation = tag[r]
    /\ Goto(r, "confirm")
    /\ UNCHANGED <<database, redis, process, home, floor, mark, tag, keyed,
                   rows, faults>>

\* The cached result is returned.
AnswerHit(r) ==
    /\ pc[r] = "confirm"
    /\ ~bypass[home[r]]
    /\ floor' = [floor EXCEPT ![r] = mark[r]]
    /\ mark' = [mark EXCEPT ![r] = 0]
    /\ Finish(r)
    /\ UNCHANGED <<database, redis, process, home, rows, faults>>

\* The generation moved, or could not be read: the hit is not used, its
\* generation still is.
NotCurrent(r) ==
    /\ Refused(r, {"recheck", "confirm"}, {"current"})
    /\ mark' = [mark EXCEPT ![r] = 0]
    /\ rows' = [rows EXCEPT ![r] = 0]
    /\ Goto(r, "workingset")
    /\ UNCHANGED <<database, redis, process, home, floor, tag, keyed, faults>>

\* Without a lookup the working set needs a shared generation of its own:
\* get_agent_cache_generation ...
ReadClock(r) ==
    /\ pc[r] = "clockread"
    /\ tag' = [tag EXCEPT ![r] = generation]
    /\ Goto(r, "workingset")
    /\ UNCHANGED <<database, redis, process, home, floor, mark, keyed, rows,
                   faults>>

\* ... or None, and the database is searched.
NoClock(r) ==
    /\ Refused(r, {"clock"}, {"clockread"})
    /\ Goto(r, "search")
    /\ UNCHANGED <<database, redis, process, home, floor, mark, tag, keyed,
                   rows, faults>>

\* get_working_set: an entry of the captured generation is used, any other is
\* dropped (and so is one older than its TTL, at any time).
ReadWorkingSet(r) ==
    /\ pc[r] = "workingset"
    /\ LET p == home[r] IN
       \/ /\ workingSet[p].gen = tag[r]
          /\ rows' = [rows EXCEPT ![r] = workingSet[p].rows]
          /\ Goto(r, "fill")
          /\ UNCHANGED workingSet
       \/ /\ workingSet' = [workingSet EXCEPT ![p] = EmptySet]
          /\ Goto(r, "fetch")
          /\ UNCHANGED rows
    /\ UNCHANGED <<database, redis, bypass, flush, home, floor, mark, tag,
                   keyed, faults>>

\* fetch_working_set reads the live projection of the database.
FetchWorkingSet(r) ==
    /\ pc[r] = "fetch"
    /\ rows' = [rows EXCEPT ![r] = version]
    /\ Goto(r, "admit")
    /\ UNCHANGED <<database, redis, process, home, floor, mark, tag, keyed,
                   faults>>

\* The snapshot is admitted only if the generation is still current ...
AdmitGeneration(r) ==
    /\ pc[r] = "admitgen"
    /\ generation = tag[r]
    /\ Goto(r, "admitted")
    /\ UNCHANGED <<database, redis, process, home, floor, mark, tag, keyed,
                   rows, faults>>

\* ... and no barrier is pending ...
AdmitBarrier(r) ==
    /\ pc[r] = "store"
    /\ pending = {}
    /\ Goto(r, "keep")
    /\ UNCHANGED <<database, redis, process, home, floor, mark, tag, keyed,
                   rows, faults>>

\* Mutant of KeepWorkingSet: the rows are filed under the generation of now.
KeepUnderCurrent(r) ==
    /\ pc[r] = "keep"
    /\ workingSet' = [workingSet EXCEPT ![home[r]] =
                        [gen |-> generation, rows |-> rows[r]]]
    /\ Goto(r, "fill")
    /\ UNCHANGED <<database, redis, bypass, flush, home, floor, mark, tag,
                   keyed, rows, faults>>

\* ... and then set_working_set keeps it.
KeepWorkingSet(r) ==
    /\ pc[r] = "keep"
    /\ workingSet' = [workingSet EXCEPT ![home[r]] =
                        [gen |-> tag[r], rows |-> rows[r]]]
    /\ Goto(r, "fill")
    /\ UNCHANGED <<database, redis, bypass, flush, home, floor, mark, tag,
                   keyed, rows, faults>>

\* The snapshot raced a mutation: it is discarded with the working set.
Discard(r) ==
    /\ \/ Refused(r, {"admit", "admitted"}, {"admitgen"})
       \/ pc[r] = "store" /\ pending # {}
    /\ workingSet' = [workingSet EXCEPT ![home[r]] = EmptySet]
    /\ Goto(r, "search")
    /\ UNCHANGED <<database, redis, bypass, flush, home, floor, mark, tag,
                   keyed, rows, faults>>

\* hybrid_recall without an admitted working set reads the database.
SearchDatabase(r) ==
    /\ pc[r] = "search"
    /\ rows' = [rows EXCEPT ![r] = version]
    /\ Goto(r, "fill")
    /\ UNCHANGED <<database, redis, process, home, floor, mark, tag, keyed,
                   faults>>

\* The result may be cached only under a lookup and with no pending barrier.
CheckFill(r) ==
    /\ pc[r] = "fill"
    /\ IF keyed[r] /\ pending = {}
       THEN Goto(r, "put") /\ UNCHANGED <<tag, keyed>>
       ELSE Finish(r)
    /\ UNCHANGED <<database, redis, process, home, floor, mark, rows, faults>>

\* set_cached_recall writes under the captured generation ...
PutResult(r) ==
    /\ pc[r] = "write"
    /\ results' = [results EXCEPT ![tag[r]] = rows[r]]
    /\ Finish(r)
    /\ UNCHANGED <<database, generation, process, home, floor, mark, rows,
                   faults>>

\* ... or not at all.
NoPut(r) ==
    /\ Refused(r, {"put"}, {"write"})
    /\ Finish(r)
    /\ UNCHANGED <<database, redis, process, home, floor, mark, rows, faults>>

-----------------------------------------------------------------------------
(* Failures.                                                               *)

\* A process dies: its memory, its requests and its flushes are gone.
Crash(p) ==
    /\ faults < MaxFaults
    /\ faults' = faults + 1
    /\ bypass' = [bypass EXCEPT ![p] = FALSE]
    /\ workingSet' = [workingSet EXCEPT ![p] = EmptySet]
    /\ flush' = [flush EXCEPT ![p] = [j \in Jobs |-> "none"]]
    /\ LET Lost(r) == home[r] = p /\ pc[r] # "done" IN
       /\ pc' = [r \in Readers |-> IF Lost(r) THEN "idle" ELSE pc[r]]
       /\ mark' = [r \in Readers |-> IF Lost(r) THEN 0 ELSE mark[r]]
       /\ tag' = [r \in Readers |-> IF Lost(r) THEN NoGen ELSE tag[r]]
       /\ keyed' = [r \in Readers |-> IF Lost(r) THEN FALSE ELSE keyed[r]]
    /\ UNCHANGED <<database, redis, home, floor, rows>>

\* Redis restarts empty; a missing generation key reads as "0".
LoseRedis ==
    /\ RedisLoses
    /\ faults < MaxFaults
    /\ faults' = faults + 1
    /\ generation' = 0
    /\ results' = [g \in Gens |-> Absent]
    /\ UNCHANGED <<database, process, reader>>

Recall(r) ==
    \/ PassBypass(r)
    \/ ReadGeneration(r) \/ ReadValue(r) \/ RereadGeneration(r) \/ NoLookup(r)
    \/ RecheckBarrier(r) \/ RecheckGeneration(r) \/ AnswerHit(r) \/ NotCurrent(r)
    \/ ReadClock(r) \/ NoClock(r)
    \/ ReadWorkingSet(r) \/ FetchWorkingSet(r) \/ AdmitGeneration(r)
    \/ AdmitBarrier(r) \/ KeepWorkingSet(r) \/ Discard(r)
    \/ SearchDatabase(r) \/ CheckFill(r) \/ PutResult(r) \/ NoPut(r)

Next ==
    \/ \E p \in Procs : Commit(p) \/ CommitRepeated(p) \/ Crash(p)
    \/ \E p \in Procs, j \in Jobs :
          Engage(p, j) \/ DropSet(p, j) \/ Repair(p, j) \/ Bump(p, j) \/ BumpFails(p, j)
            \/ Complete(p, j)
    \/ \E r \in Readers, p \in Procs : Begin(r, p)
    \/ \E r \in Readers : Recall(r)
    \/ LoseRedis

Spec == Init /\ [][Next]_vars

\* The durable worker of every process keeps running, and a Redis call that is
\* tried again and again is answered in the end (failures are bounded).
WorkerFairness ==
    \A p \in Procs, j \in Jobs :
        /\ WF_vars(Engage(p, j)) /\ WF_vars(Repair(p, j))
        /\ WF_vars(Bump(p, j)) /\ WF_vars(Complete(p, j))

FairSpec == Spec /\ WorkerFairness

-----------------------------------------------------------------------------
(* Correctness.                                                            *)

\* The promise of the barrier (cache_invalidation.py): whatever Redis does and
\* whichever process mutated, an answer reflects every mutation committed
\* before the request read the barrier, and a cache hit every mutation
\* committed before the barrier was read the second time.
NoStaleAnswer == \A r \in Readers : pc[r] = "done" => rows[r] >= floor[r]

\* The generation was bumped for a mutation after it committed: its job is
\* completed, or a process is about to complete it.
Bumped(j) == \/ j \notin pending
             \/ \E p \in Procs : flush[p][j] = "bumped"

\* Data that misses no mutation whose barrier is, or is about to be, released.
Fresh(v) == \A j \in 1..version : Bumped(j) => j <= v

\* The request holds data that belongs to the generation it captured.
Holding(r) == pc[r] \in {"reread", "hit", "barrier", "recheck", "current",
                         "confirm", "admit", "admitgen", "admitted", "store",
                         "keep", "fill", "put", "write"}

\* What the current generation makes reachable (a Redis result, the working
\* set of a process, data a request may still publish) never predates a
\* mutation whose barrier was released: the counter, not the barrier, is what
\* keeps old data out once the job is completed.
ReachableIsFresh ==
    /\ results[generation] # Absent => Fresh(results[generation])
    /\ \A p \in Procs :
          workingSet[p].gen = generation => Fresh(workingSet[p].rows)
    /\ \A r \in Readers :
          Holding(r) /\ tag[r] = generation => Fresh(rows[r])

-----------------------------------------------------------------------------
(* The inductive invariant behind both, when every recall-affecting        *)
(* mutation queues its barrier and Redis keeps its counter.                *)

\* The mutations 1..n have all had their barrier released.
Cleared(n) == \A j \in 1..n : j \notin pending

\* Nothing refers to a mutation or a generation that does not exist yet.
JobsBehind ==
    /\ \A j \in pending : j <= version
    /\ \A p \in Procs, j \in Jobs : flush[p][j] # "none" => j <= version

RequestsBehind ==
    \A r \in Readers :
        /\ floor[r] <= version /\ mark[r] <= version /\ rows[r] <= version
        /\ tag[r] <= generation

SetsBehind ==
    \A p \in Procs : /\ workingSet[p].rows <= version
                     /\ workingSet[p].gen <= generation

ResultsBehind ==
    \A g \in Gens : results[g] # Absent => g <= generation /\ results[g] <= version

\* The request passed the first barrier check and trusts shared data since.
Trusting(r) == pc[r] \notin {"idle", "search", "fill", "put", "write", "done"}

\* It has captured a generation and not yet settled which data it answers with.
Captured(r) ==
    Trusting(r) /\ pc[r] \notin {"lookup", "generation", "clock", "clockread"}

\* Whatever carries the generation a request captured reflects the mutations
\* that request must reflect, although the generation may be an old one by now.
CapturedIsFresh ==
    \A r \in Readers : Captured(r) =>
        /\ tag[r] \in Gens
        /\ results[tag[r]] # Absent => results[tag[r]] >= floor[r]
        /\ \A p \in Procs : workingSet[p].gen = tag[r] =>
                               workingSet[p].rows >= floor[r]
        /\ \A q \in Readers : Holding(q) /\ tag[q] = tag[r] =>
                               rows[q] >= floor[r]

\* It has a hit that passed the second barrier check.
Marked(r) == pc[r] \in {"recheck", "current", "confirm"}

BarrierHeld ==
    \A r \in Readers :
        /\ Trusting(r) => Cleared(floor[r])
        /\ Marked(r) => Cleared(mark[r]) /\ floor[r] <= mark[r]

SettledIsFresh ==
    \A r \in Readers :
        /\ pc[r] \in {"fill", "put", "write", "done"} => rows[r] >= floor[r]
        /\ pc[r] = "confirm" => rows[r] >= mark[r]

IInv ==
    /\ TypeOK
    /\ JobsBehind /\ RequestsBehind /\ SetsBehind /\ ResultsBehind
    /\ ReachableIsFresh
    /\ CapturedIsFresh
    /\ BarrierHeld
    /\ SettledIsFresh

-----------------------------------------------------------------------------
\* The barrier of every mutation is released in the end, although the process
\* that committed it may crash or fail to reach Redis before it does so.
BarrierReleased == \A j \in Jobs : j \in pending ~> j \notin pending

\* The recall path implements the atomic register of FreshRecall.
Register == INSTANCE FreshRecall WITH
    status <- [r \in Readers |-> CASE pc[r] = "idle" -> "idle"
                                   [] pc[r] = "done" -> "done"
                                   [] OTHER -> "open"],
    answer <- [r \in Readers |-> IF pc[r] = "done" THEN rows[r] ELSE 0]

ImplementsRegister == Register!Spec
=============================================================================
