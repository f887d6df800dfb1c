--------------------------- MODULE MemoryLifecycle ---------------------------
(***************************************************************************)
(* The life of the memories of one agent in the hosted server              *)
(* (agentmem/src/lians): ingestion with supersession (memory_service.py,   *)
(* supersession.py), the present-time projection live_facts                *)
(* (current_facts.py), reviewer and adjudicator decisions, learning        *)
(* reviews (feedback_service.py), and the three ways content is erased.    *)
(*                                                                         *)
(* A handler that reads a row and writes it in a later statement is two    *)
(* steps, for only add_memory and forget_memory take the agent's write     *)
(* lock: Begin... reads, Finish... commits, and the database (READ         *)
(* COMMITTED, no version column) lets the last writer of a column win.     *)
(***************************************************************************)
EXTENDS Integers, FiniteSets

CONSTANTS
    Memories,    \* memories that may be ingested
    Workers,     \* requests and jobs in progress
    Values,      \* what a memory states
    Variants,    \* its metadata other than the structured keys
    None,        \* no memory, no worker
    MaxTime,     \* bound: the clock
    Backdated,   \* a memory may be older than one ingested before it
    Future,      \* a memory may be ahead of the clock
    Ops          \* the operations that take place

AllOps == {"add", "note", "reject", "adjudicate", "resolve", "feedback",
           "review", "forget", "prune", "erase"}

ASSUME ConstantsAssumption ==
    /\ MaxTime \in Nat \ {0}
    /\ Backdated \in BOOLEAN /\ Future \in BOOLEAN
    /\ Ops \subseteq AllOps
    /\ None \notin Memories \cup Workers

VARIABLES
    now,       \* the clock
    fact,      \* memory -> what it states: its event time, whether it carries
               \* structured keys, its value and variant (never changes)
    known,     \* memories: rows ingested
    until,     \* memories: valid_to, or Open
    by,        \* memories: superseded_by, or None
    erased,    \* memories: "no", or how erased_at was set
    metadata,  \* memories: rows whose metadata still is the user's
    review,    \* memories: metadata._learning_review.status
    live,      \* live_facts: no row, a row with content, or one without
    flag,      \* conflict_flags: status of the conflict of a pair
    jobs,      \* durable_jobs: supersession.adjudicate not completed
    lock,      \* holder of the agent's write lock
    op,        \* worker -> what it is doing
    target,    \* worker -> the memory it read
    other,     \* worker -> the memory it ingests, or the second of a pair
    seen,      \* worker -> the columns it read
    stamp,     \* worker -> the time it took
    plan       \* worker -> SupersessionResult of the ingestion in progress

rows    == <<known, until, by, erased, metadata, review, live>>
task    == <<op, target, other, seen, stamp, plan>>
vars    == <<now, fact, known, until, by, erased, metadata, review, live, flag,
             jobs, lock, op, target, other, seen, stamp, plan>>

Times == 1..MaxTime
Open  == 0
Pairs == Memories \X Memories

Facts == [time : Times, keyed : BOOLEAN, value : Values, variant : Variants]

Columns == [until : Times \cup {Open}, by : Memories \cup {None},
            erased : BOOLEAN, metadata : BOOLEAN]
Unread  == [until |-> Open, by |-> None, erased |-> FALSE, metadata |-> FALSE]

Plans  == [closes : SUBSET Memories, conflicts : SUBSET Memories,
           successor : Memories \cup {None}]
NoPlan == [closes |-> {}, conflicts |-> {}, successor |-> None]

Resolved == {"accept_a", "accept_b", "dismissed"}

Doing == {"idle", "add", "reject", "adjudicate", "feedback", "keep", "retire",
          "replace", "replacing", "replaced"} \cup Resolved

TypeOK ==
    /\ now \in Times
    /\ fact \in [Memories -> Facts]
    /\ known \in SUBSET Memories
    /\ until \in [Memories -> Times \cup {Open}]
    /\ by \in [Memories -> Memories \cup {None}]
    /\ erased \in [Memories -> {"no", "pruned", "shredded"}]
    /\ metadata \in SUBSET known
    /\ review \in [Memories -> {"none", "pending", "resolved"}]
    /\ live \in [Memories -> {"none", "content", "husk"}]
    /\ flag \in [Pairs -> {"none", "open"} \cup Resolved]
    /\ jobs \in SUBSET Pairs
    /\ lock \in Workers \cup {None}
    /\ op \in [Workers -> Doing]
    /\ target \in [Workers -> Memories \cup {None}]
    /\ other \in [Workers -> Memories \cup {None}]
    /\ seen \in [Workers -> Columns]
    /\ stamp \in [Workers -> Times]
    /\ plan \in [Workers -> Plans]

Init ==
    /\ now = 1
    /\ fact \in [Memories -> Facts]
    /\ known = {}
    /\ until = [m \in Memories |-> Open]
    /\ by = [m \in Memories |-> None]
    /\ erased = [m \in Memories |-> "no"]
    /\ metadata = {}
    /\ review = [m \in Memories |-> "none"]
    /\ live = [m \in Memories |-> "none"]
    /\ flag = [p \in Pairs |-> "none"]
    /\ jobs = {}
    /\ lock = None
    /\ op = [w \in Workers |-> "idle"]
    /\ target = [w \in Workers |-> None]
    /\ other = [w \in Workers |-> None]
    /\ seen = [w \in Workers |-> Unread]
    /\ stamp = [w \in Workers |-> 1]
    /\ plan = [w \in Workers |-> NoPlan]

Tick ==
    /\ now < MaxTime
    /\ now' = now + 1
    /\ UNCHANGED <<fact, rows, flag, jobs, lock, task>>

Row(m) == [until |-> until[m], by |-> by[m],
           erased |-> erased[m] # "no", metadata |-> m \in metadata]

\* A worker takes up an operation on m, and on m2 if it is about two memories,
\* having read the given columns of m (only those it uses are kept).
Take(w, what, m, m2, columns) ==
    /\ op[w] = "idle"
    /\ op' = [op EXCEPT ![w] = what]
    /\ target' = [target EXCEPT ![w] = m]
    /\ other' = [other EXCEPT ![w] = m2]
    /\ seen' = [seen EXCEPT ![w] = columns]
    /\ stamp' = [stamp EXCEPT ![w] =
                    IF what \in Resolved \cup {"retire", "replace"} THEN now ELSE 1]
    /\ UNCHANGED <<now, fact, rows, flag, jobs, lock, plan>>

\* It is done, or gives up, and forgets what it read.
Release(w) ==
    /\ op' = [op EXCEPT ![w] = "idle"]
    /\ target' = [target EXCEPT ![w] = None]
    /\ other' = [other EXCEPT ![w] = None]
    /\ seen' = [seen EXCEPT ![w] = Unread]
    /\ stamp' = [stamp EXCEPT ![w] = 1]
    /\ plan' = [plan EXCEPT ![w] = NoPlan]

-----------------------------------------------------------------------------
(* Ingestion.                                                              *)

Time(m)  == fact[m].time
Keyed(m) == fact[m].keyed

\* What the supersession funnel looks at: open rows that are not erased.
Candidates == {m \in known : until[m] = Open /\ erased[m] = "no"}

\* Mutant of Older: facts of the same time are closed too.
OlderOrEqual(n) == {m \in Candidates : Keyed(m) /\ Time(m) <= Time(n)}

\* _keyed_supersession: the open facts with the same structured keys.  Any
\* changed value among the older ones closes all of them and reports no
\* conflict; otherwise a conflict at the same time closes none of them.
Older(n)   == {m \in Candidates : Keyed(m) /\ Time(m) < Time(n)}
Changed(n) == {m \in Older(n) : fact[m].value # fact[n].value}
Clash(n)   == {m \in Candidates : /\ Keyed(m) /\ Time(m) = Time(n)
                                  /\ fact[m].value # fact[n].value}
Newer(n)   == {m \in Candidates : /\ Keyed(m) /\ Time(m) > Time(n)
                                  /\ fact[m].variant = fact[n].variant}

\* Mutant of KeyedPlans: a duplicate is looked for before a conflict.
KeyedPlansDuplicateFirst(n) ==
    LET duplicate == \E m \in Candidates : /\ Keyed(m) /\ Time(m) = Time(n)
                                          /\ fact[m].value = fact[n].value
    IN  {[closes    |-> Older(n),
          conflicts |-> IF Changed(n) # {} \/ duplicate THEN {} ELSE Clash(n),
          successor |-> s] : s \in IF Newer(n) = {} THEN {None} ELSE Newer(n)}

KeyedPlans(n) ==
    {[closes    |-> IF Changed(n) # {} \/ Clash(n) = {} THEN Older(n) ELSE {},
      conflicts |-> IF Changed(n) # {} THEN {} ELSE Clash(n),
      successor |-> s] :
        s \in IF Newer(n) = {} THEN {None}
              ELSE {m \in Newer(n) : \A x \in Newer(n) : Time(m) <= Time(x)}}

\* Mutant of FreePlans: a later statement is narrowed like an earlier one.
FreePlansAnyOrder(n) ==
    [closes    : SUBSET Candidates,
     conflicts : {{}},
     successor : {m \in Candidates : Time(m) > Time(n) /\ ~Keyed(m)} \cup {None}]

\* The unkeyed path of run_supersession.  Which of the candidates are similar,
\* and what a cue word or the classifier makes of them, is left open.
FreePlans(n) ==
    {p \in [closes    : SUBSET {m \in Candidates : Time(m) <= Time(n)},
            conflicts : SUBSET {m \in Candidates : Keyed(m) /\ Time(m) = Time(n)},
            successor : {m \in Candidates : Time(m) > Time(n) /\ ~Keyed(m)}
                           \cup {None}] :
        p.closes \cap p.conflicts = {}}

Ingestible(n) ==
    /\ n \notin known /\ \A w \in Workers : other[w] # n
    /\ Future \/ Time(n) <= now
    /\ Backdated \/ \A m \in known : Time(m) <= Time(n)

\* Mutant of BeginAdd: the write lock is not waited for.
BeginAddUnlocked(w, n) ==
    /\ (IF Keyed(n) THEN "add" ELSE "note") \in Ops
    /\ op[w] = "idle" /\ Ingestible(n)
    /\ lock' = w
    /\ op' = [op EXCEPT ![w] = "add"]
    /\ other' = [other EXCEPT ![w] = n]
    /\ \E p \in IF Keyed(n) THEN KeyedPlans(n) ELSE FreePlans(n) :
          plan' = [plan EXCEPT ![w] = p]
    /\ UNCHANGED <<now, fact, rows, flag, jobs, target, seen, stamp>>

\* Under the write lock the funnel reads the candidates ...
BeginAdd(w, n) ==
    /\ (IF Keyed(n) THEN "add" ELSE "note") \in Ops
    /\ op[w] = "idle" /\ lock = None /\ Ingestible(n)
    /\ lock' = w
    /\ op' = [op EXCEPT ![w] = "add"]
    /\ other' = [other EXCEPT ![w] = n]
    /\ \E p \in IF Keyed(n) THEN KeyedPlans(n) ELSE FreePlans(n) :
          plan' = [plan EXCEPT ![w] = p]
    /\ UNCHANGED <<now, fact, rows, flag, jobs, target, seen, stamp>>

\* Mutants of ValidTo: the closed windows end at the time of ingestion; the
\* window of a memory that arrives late ends after its successor begins.
ValidToNow(n, p) ==
    [m \in Memories |->
        CASE m \in p.closes -> now
          [] m = n /\ p.successor # None -> Time(p.successor)
          [] OTHER -> until[m]]

ValidToLate(n, p) ==
    [m \in Memories |->
        CASE m \in p.closes -> Time(n)
          [] m = n /\ p.successor # None -> Time(p.successor) + 1
          [] OTHER -> until[m]]

ValidTo(n, p) ==
    [m \in Memories |->
        CASE m \in p.closes -> Time(n)
          [] m = n /\ p.successor # None -> Time(p.successor)
          [] OTHER -> until[m]]

\* ... and the transaction commits the row, what it closes, the conflict flags,
\* the projection and the adjudication jobs.
Ingest(w) ==
    LET n == other[w]
        p == plan[w]
    IN  /\ known' = known \cup {n}
        /\ until' = ValidTo(n, p)
        /\ by' = [m \in Memories |->
                     CASE m \in p.closes -> n
                       [] m = n -> p.successor
                       [] OTHER -> by[m]]
        /\ live' = [m \in Memories |->
                       CASE m \in p.closes -> "none"
                         [] m = n /\ p.successor = None -> "content"
                         [] OTHER -> live[m]]
        /\ metadata' = metadata \cup {n}
        /\ flag' = [f \in Pairs |->
                       IF f[1] \in p.conflicts /\ f[2] = n THEN "open" ELSE flag[f]]
        /\ jobs' = IF Keyed(n) THEN jobs ELSE jobs \cup (p.closes \X {n})
        /\ lock' = None
        /\ UNCHANGED <<now, fact, erased, review>>

FinishAdd(w) ==
    /\ op[w] = "add"
    /\ Ingest(w)
    /\ Release(w)

-----------------------------------------------------------------------------
(* Decisions about a memory, each read and committed without the lock.     *)

\* apply_supersession_action "reject": whatever the row's state, it is opened
\* and its live fact inserted from the row as it was read; a second live fact
\* of one memory violates the unique index and the request is rolled back.
BeginReject(w, m) ==
    /\ "reject" \in Ops /\ m \in known
    /\ Take(w, "reject", m, None, [Row(m) EXCEPT !.metadata = FALSE])

FinishReject(w) ==
    LET m == target[w] IN
    /\ op[w] = "reject"
    /\ IF live[m] # "none"
       THEN UNCHANGED <<until, by, live>>
       ELSE /\ until' = [until EXCEPT ![m] =
                           IF seen[w].until # Open THEN Open ELSE @]
            /\ by' = [by EXCEPT ![m] = IF seen[w].by # None THEN None ELSE @]
            /\ live' = [live EXCEPT ![m] =
                          IF seen[w].erased THEN "husk" ELSE "content"]
    /\ Release(w)
    /\ UNCHANGED <<now, fact, known, erased, metadata, review, flag, jobs, lock>>

\* handle_llm_adjudication_job reads both memories; without the content of both
\* the job has nothing to decide ...
BeginAdjudicate(w, m, n) ==
    /\ "adjudicate" \in Ops /\ <<m, n>> \in jobs
    /\ erased[m] = "no" /\ erased[n] = "no"
    /\ Take(w, "adjudicate", m, n, [Row(m) EXCEPT !.metadata = FALSE])

DropAdjudication(m, n) ==
    /\ "adjudicate" \in Ops /\ <<m, n>> \in jobs
    /\ erased[m] # "no" \/ erased[n] # "no"
    /\ jobs' = jobs \ {<<m, n>>}
    /\ UNCHANGED <<now, fact, rows, flag, lock, task>>

\* ... and the model, asked in between, upholds the supersession or finds a
\* paraphrase: then the older row is opened, and only the row.
FinishAdjudicate(w) ==
    LET m == target[w] IN
    /\ op[w] = "adjudicate"
    /\ \/ UNCHANGED <<until, by>>
       \/ /\ seen[w].until # Open
          /\ until' = [until EXCEPT ![m] = Open]
          /\ by' = [by EXCEPT ![m] = IF seen[w].by # None THEN None ELSE @]
    /\ jobs' = jobs \ {<<m, other[w]>>}
    /\ Release(w)
    /\ UNCHANGED <<now, fact, known, erased, metadata, review, live, flag, lock>>

\* resolve_conflict tests that the conflict is open when it reads it ...
BeginResolve(w, a, b, resolution) ==
    /\ "resolve" \in Ops /\ flag[<<a, b>>] = "open"
    /\ Take(w, resolution, a, b, Unread)

\* Mutant of FinishResolve: the losing side keeps its live fact.
FinishResolveKeepsFact(w) ==
    /\ op[w] \in Resolved
    /\ until' = [m \in Memories |->
                    IF \/ op[w] = "accept_a" /\ m = other[w]
                       \/ op[w] = "accept_b" /\ m = target[w]
                    THEN stamp[w] ELSE until[m]]
    /\ flag' = [flag EXCEPT ![<<target[w], other[w]>>] = op[w]]
    /\ Release(w)
    /\ UNCHANGED <<now, fact, known, by, erased, metadata, review, live, jobs, lock>>

\* ... and closes the losing side, open or not.
FinishResolve(w) ==
    /\ op[w] \in Resolved
    /\ LET losers == CASE op[w] = "accept_a" -> {other[w]}
                       [] op[w] = "accept_b" -> {target[w]}
                       [] OTHER -> {}
       IN  /\ until' = [m \in Memories |->
                           IF m \in losers THEN stamp[w] ELSE until[m]]
           /\ live' = [m \in Memories |->
                          IF m \in losers THEN "none" ELSE live[m]]
    /\ flag' = [flag EXCEPT ![<<target[w], other[w]>>] = op[w]]
    /\ Release(w)
    /\ UNCHANGED <<now, fact, known, by, erased, metadata, review, jobs, lock>>

\* record_memory_feedback with a negative signal writes the metadata it read
\* back with a pending review.
BeginFeedback(w, m) ==
    /\ "feedback" \in Ops /\ m \in known
    /\ Take(w, "feedback", m, None, [Unread EXCEPT !.metadata = m \in metadata])

\* The metadata column as the handler read it is written back.
Restore(m, had) == metadata' = IF had THEN metadata \cup {m} ELSE metadata \ {m}

FinishFeedback(w) ==
    /\ op[w] = "feedback"
    /\ Restore(target[w], seen[w].metadata)
    /\ review' = [review EXCEPT ![target[w]] = "pending"]
    /\ Release(w)
    /\ UNCHANGED <<now, fact, known, until, by, erased, live, flag, jobs, lock>>

\* resolve_memory_review: keep, retire, or replace by a correction.
BeginReview(w, m, decision) ==
    /\ "review" \in Ops /\ review[m] = "pending"
    /\ Take(w, decision, m, None, [Unread EXCEPT !.metadata = m \in metadata])

\* A replacement goes through add_memory, in a transaction of its own.
BeginReplacement(w, n) ==
    LET m == target[w] IN
    /\ op[w] = "replace" /\ lock = None /\ Ingestible(n)
    /\ Time(n) = stamp[w] /\ Keyed(n) = (Keyed(m) /\ seen[w].metadata)
    /\ fact[n].variant = fact[m].variant
    /\ lock' = w
    /\ op' = [op EXCEPT ![w] = "replacing"]
    /\ other' = [other EXCEPT ![w] = n]
    /\ \E p \in IF Keyed(n) THEN KeyedPlans(n) ELSE FreePlans(n) :
          plan' = [plan EXCEPT ![w] = p]
    /\ UNCHANGED <<now, fact, rows, flag, jobs, target, seen, stamp>>

FinishReplacement(w) ==
    /\ op[w] = "replacing"
    /\ Ingest(w)
    /\ op' = [op EXCEPT ![w] = "replaced"]
    /\ seen' = [seen EXCEPT ![w].by =
                   IF target[w] \in plan[w].closes THEN other[w] ELSE @]
    /\ plan' = [plan EXCEPT ![w] = NoPlan]
    /\ UNCHANGED <<target, other, stamp>>

\* Mutant of FinishReview: a memory that is retired keeps its live fact.
FinishReviewKeepsFact(w) ==
    LET m == target[w] IN
    /\ op[w] \in {"keep", "retire", "replaced"}
    /\ Restore(m, seen[w].metadata)
    /\ review' = [review EXCEPT ![m] = "resolved"]
    /\ until' = [until EXCEPT ![m] = IF op[w] = "keep" THEN @ ELSE stamp[w]]
    /\ by' = [by EXCEPT ![m] = IF op[w] = "replaced" THEN other[w] ELSE @]
    /\ Release(w)
    /\ UNCHANGED <<now, fact, known, erased, live, flag, jobs, lock>>

\* The session writes a column only if it changes the row it holds: one that
\* its own replacement closed is not closed again.
FinishReview(w) ==
    LET m == target[w] IN
    /\ op[w] \in {"keep", "retire", "replaced"}
    /\ Restore(m, seen[w].metadata)
    /\ review' = [review EXCEPT ![m] = "resolved"]
    /\ IF op[w] = "keep"
       THEN UNCHANGED <<until, by, live>>
       ELSE /\ IF op[w] = "replaced" /\ seen[w].by = other[w]
               THEN UNCHANGED <<until, by>>
               ELSE /\ until' = [until EXCEPT ![m] = stamp[w]]
                    /\ by' = [by EXCEPT ![m] =
                                 IF op[w] = "replaced" THEN other[w] ELSE @]
            /\ live' = [live EXCEPT ![m] = "none"]
    /\ Release(w)
    /\ UNCHANGED <<now, fact, known, erased, flag, jobs, lock>>

\* The transaction of w is rolled back: an error, or its process died.
Abort(w) ==
    /\ op[w] # "idle"
    /\ lock' = IF lock = w THEN None ELSE lock
    /\ Release(w)
    /\ UNCHANGED <<now, fact, rows, flag, jobs>>

-----------------------------------------------------------------------------
(* Erasure.                                                                *)

\* forget_memory: the write lock and the row lock make it one step.
Forget(m) ==
    /\ "forget" \in Ops /\ lock = None
    /\ m \in known /\ erased[m] = "no"
    /\ erased' = [erased EXCEPT ![m] = "shredded"]
    /\ until' = [until EXCEPT ![m] = IF @ = Open THEN now ELSE @]
    /\ metadata' = metadata \ {m}
    /\ review' = [review EXCEPT ![m] = "none"]
    /\ live' = [live EXCEPT ![m] = "none"]
    /\ UNCHANGED <<now, fact, known, by, flag, jobs, lock, task>>

\* Mutant of Prune: the projection is not purged.
PruneKeepsFact(m) ==
    /\ "prune" \in Ops
    /\ m \in known /\ erased[m] = "no"
    /\ erased' = [erased EXCEPT ![m] = "pruned"]
    /\ UNCHANGED <<now, fact, known, until, by, metadata, review, live, flag, jobs,
                   lock, task>>

\* erase_subject and prune_expired_content take no lock and write only what
\* does not depend on what they read; one memory of a batch.  Pruning a memory
\* of the hosted connector does what EraseSubject does.
EraseSubject(m) ==
    /\ "erase" \in Ops
    /\ m \in known /\ erased[m] = "no"
    /\ erased' = [erased EXCEPT ![m] = "shredded"]
    /\ metadata' = metadata \ {m}
    /\ review' = [review EXCEPT ![m] = "none"]
    /\ live' = [live EXCEPT ![m] = "none"]
    /\ UNCHANGED <<now, fact, known, until, by, flag, jobs, lock, task>>

Prune(m) ==
    /\ "prune" \in Ops
    /\ m \in known /\ erased[m] = "no"
    /\ erased' = [erased EXCEPT ![m] = "pruned"]
    /\ live' = [live EXCEPT ![m] = "none"]
    /\ UNCHANGED <<now, fact, known, until, by, metadata, review, flag, jobs,
                   lock, task>>

Next ==
    \/ Tick
    \/ \E m \in Memories : Forget(m) \/ EraseSubject(m) \/ Prune(m)
    \/ \E m, n \in Memories : DropAdjudication(m, n)
    \/ \E w \in Workers, m \in Memories :
          BeginAdd(w, m) \/ BeginReject(w, m) \/ BeginFeedback(w, m)
            \/ BeginReplacement(w, m)
    \/ \E w \in Workers, m, n \in Memories :
          \/ BeginAdjudicate(w, m, n)
          \/ \E resolution \in Resolved : BeginResolve(w, m, n, resolution)
    \/ \E w \in Workers, m \in Memories,
          decision \in {"keep", "retire", "replace"} : BeginReview(w, m, decision)
    \/ \E w \in Workers :
          FinishAdd(w) \/ FinishReject(w) \/ FinishAdjudicate(w)
            \/ FinishResolve(w) \/ FinishFeedback(w) \/ FinishReplacement(w)
            \/ FinishReview(w) \/ Abort(w)

Spec == Init /\ [][Next]_vars

-----------------------------------------------------------------------------
(* Correctness.                                                            *)

\* The projection recall reads agrees with the log: a memory has a row in live_facts
\* exactly when its own row is open and not erased, whoever wrote the two
\* (upsert_live_fact and remove_live_facts beside every change of valid_to).
LiveMatchesLog ==
    \A m \in known : live[m] # "none" <=> until[m] = Open /\ erased[m] = "no"

\* No erased memory is recalled, neither its content nor an empty husk of it: forget,
\* erase_subject and prune purge the projection and nobody refills it.
NoErasedRecalled == \A m \in Memories : erased[m] # "no" => live[m] = "none"

\* The metadata of a memory forgotten or erased with its subject is gone, whatever
\* feedback was writing it at the time.
ErasedIsShredded == \A m \in metadata : erased[m] # "shredded"

\* Of the facts with the same structured keys and variant, only those of one
\* event time are live, in whatever order and by whatever requests they were ingested
\* (_keyed_supersession under the write lock of add_memory).
LiveAgree ==
    \A m, n \in known :
        /\ live[m] # "none" /\ live[n] # "none"
        /\ Keyed(m) /\ Keyed(n) /\ fact[m].variant = fact[n].variant
        => Time(m) = Time(n)

\* Two different values live for the same keys at the same time are flagged, or
\* were and have been decided (conflict_flags, written by add_memory).
ConflictsFlagged ==
    \A m, n \in known :
        /\ live[m] # "none" /\ live[n] # "none"
        /\ Keyed(m) /\ Keyed(n)
        /\ Time(m) = Time(n) /\ fact[m].value # fact[n].value
        => flag[<<m, n>>] # "none" \/ flag[<<n, m>>] # "none"

\* Nothing but the newest statement is live, and it is, when nothing is closed
\* by decision or erased: what _keyed_supersession makes of late arrivals.
LiveIsLatest ==
    \A m \in known : Keyed(m) =>
        (live[m] # "none" <=> \A n \in known : Keyed(n) => Time(n) <= Time(m))

\* What an as_of recall reads at time t.
AsOf(t) == {m \in known : /\ erased[m] = "no" /\ Time(m) <= t
                           /\ (until[m] = Open \/ until[m] > t)}

\* A recall as of t sees statements of one event time for the same keys: add_memory
\* ends the window of a value where that of the next one begins.
AsOfAgree ==
    \A t \in Times : \A m, n \in AsOf(t) :
        Keyed(m) /\ Keyed(n) /\ fact[m].variant = fact[n].variant
        => Time(m) = Time(n)

\* A fact that arrives with a time before the end of a window already closed.
Late(n) ==
    \E x \in known : /\ Keyed(x) /\ fact[x].variant = fact[n].variant
                      /\ until[x] # Open /\ until[x] > Time(n)

\* Only such a late arrival can make the windows of different event times overlap:
\* every other ingestion, in whatever order and by whatever requests, leaves a
\* history that answers as of any time with one event time (_keyed_supersession).
AsOfKept ==
    [][AsOfAgree /\ ~(\E n \in known' \ known : Late(n)) => AsOfAgree']_vars

\* A conflict is resolved once: resolve_conflict refuses one that is not open.
ResolvedOnce ==
    [][\A p \in Pairs : flag[p] \in Resolved => flag'[p] = flag[p]]_vars

\* superseded_by leads from every memory to one that is not superseded, so that
\* walking a lineage ends.
Superseders(S) == {by[m] : m \in S} \ {None}

LineageAcyclic ==
    \A S \in SUBSET known : S # {} => ~(S \subseteq Superseders(S))

\* A live fact belongs to an open row: whatever closes a memory by decision
\* (resolve_conflict) also takes it out of the projection.
LiveIsOpen == \A m \in known : live[m] # "none" => until[m] = Open
=============================================================================
