------------------------ MODULE MemoryLifecycleProofs ------------------------
(***************************************************************************)
(* Theorems about MemoryLifecycle, for any memories, workers and values.   *)
(***************************************************************************)
EXTENDS MemoryLifecycle, TLAPS

Locked(w) == op[w] \in {"add", "replacing"}

\* The holder of the write lock works with memories that are known, on one that
\* is not.
Planned(w) ==
    /\ lock = w
    /\ other[w] \in Memories \ known
    /\ plan[w].closes \subseteq known
    /\ plan[w].conflicts \subseteq known
    /\ plan[w].successor \in known \cup {None}

\* What a worker has read and reserved.
Work(w) ==
    /\ op[w] \notin {"idle", "add"} => target[w] \in known
    /\ op[w] \in Resolved \cup {"adjudicate", "replaced"} => other[w] \in known
    /\ Locked(w) => Planned(w)
    /\ op[w] \in {"replace", "replacing"} => seen[w].by = None

WorkInv == \A w \in Workers : Work(w)

\* Conflicts and jobs are about memories that were ingested ...
PairInv ==
    /\ \A p \in Pairs : flag[p] # "none" => p[1] \in known /\ p[2] \in known
    /\ jobs \subseteq known \X known

\* ... and a memory that was not has no columns yet.
FreshInv ==
    \A m \in Memories \ known :
        until[m] = Open /\ erased[m] = "no" /\ live[m] = "none" /\ review[m] = "none"

Base == TypeOK /\ WorkInv /\ PairInv /\ FreshInv

\* The rows as far as their types go.
RowsOK ==
    /\ known \in SUBSET Memories
    /\ until \in [Memories -> Times \cup {Open}]
    /\ by \in [Memories -> Memories \cup {None}]
    /\ erased \in [Memories -> {"no", "pruned", "shredded"}]
    /\ metadata \in SUBSET known
    /\ review \in [Memories -> {"none", "pending", "resolved"}]
    /\ live \in [Memories -> {"none", "content", "husk"}]
    /\ flag \in [Pairs -> {"none", "open"} \cup Resolved]
    /\ jobs \in SUBSET Pairs

\* The tasks as far as their types go.
TasksOK ==
    /\ op \in [Workers -> Doing]
    /\ target \in [Workers -> Memories \cup {None}]
    /\ other \in [Workers -> Memories \cup {None}]
    /\ seen \in [Workers -> Columns]
    /\ stamp \in [Workers -> Times]
    /\ plan \in [Workers -> Plans]

Typed ==
    /\ now \in Times /\ fact \in [Memories -> Facts]
    /\ lock \in Workers \cup {None}
    /\ RowsOK /\ TasksOK

\* The type invariant, as the part about rows and the part about workers.
LEMMA TypeParts == (TypeOK <=> Typed) /\ (TypeOK' <=> Typed')
BY DEF TypeOK, Typed, RowsOK, TasksOK

-----------------------------------------------------------------------------
(* Workers.                                                                *)

\* A worker that gives up or is done is well typed and has read nothing.
LEMMA ReleaseStep ==
    ASSUME TasksOK, NEW w \in Workers, Release(w)
    PROVE  /\ TasksOK'
           /\ op'[w] = "idle"
           /\ \A v \in Workers \ {w} :
                 op'[v] = op[v] /\ target'[v] = target[v] /\ other'[v] = other[v]
                   /\ seen'[v] = seen[v] /\ stamp'[v] = stamp[v] /\ plan'[v] = plan[v]
  <1>1. 1 \in Times /\ Open \in Times \cup {Open}
    BY ConstantsAssumption DEF Times, Open
  <1>2. Unread \in Columns
    BY <1>1 DEF Unread, Columns
  <1>3. NoPlan \in Plans
    BY DEF NoPlan, Plans
  <1> QED BY <1>1, <1>2, <1>3 DEF TasksOK, Release, Doing

\* What holds of a worker that does not move is not disturbed by the ingestion of
\* more memories, nor by a lock it does not hold.
LEMMA WorkKept ==
    ASSUME NEW v \in Workers, Work(v),
           op'[v] = op[v], target'[v] = target[v], other'[v] = other[v],
           seen'[v] = seen[v], plan'[v] = plan[v],
           known \subseteq known',
           Locked(v) => known' = known /\ lock' = lock
    PROVE  Work(v)'
BY DEF Work, Planned, Locked

\* A step that takes up no work on the rows and leaves the lock keeps Base.
LEMMA IdleWork ==
    ASSUME WorkInv, UNCHANGED <<known, lock, task>>
    PROVE  WorkInv'
BY DEF WorkInv, Work, Planned, Locked, task

\* A worker that takes up an operation on known memories keeps Base.
LEMMA TakeStep ==
    ASSUME Base, NEW w \in Workers, NEW what, NEW m \in known, NEW m2, NEW columns,
           Take(w, what, m, m2, columns),
           what \in (Doing \ {"idle", "add", "replacing", "replaced"}),
           m2 \in known \cup {None},
           what \in Resolved \cup {"adjudicate"} => m2 \in known,
           columns \in Columns,
           what = "replace" => columns.by = None
    PROVE  Base'
  <1> USE TypeParts DEF Typed
  <1>1. 1 \in Times
    BY ConstantsAssumption DEF Times
  <1>2. TasksOK'
    BY <1>1 DEF Base, TasksOK, RowsOK, Take
  <1>3. RowsOK' /\ TypeOK'
    BY <1>2 DEF Base, RowsOK, Take, rows
  <1>4. WorkInv'
    <2> SUFFICES ASSUME NEW v \in Workers PROVE Work(v)'
      BY DEF WorkInv
    <2>1. CASE v = w
      BY <2>1 DEF Base, TasksOK, Take, rows, Work, Locked, Doing, Resolved
    <2>2. CASE v # w
      <3>1. Work(v)
        BY DEF Base, WorkInv
      <3>2. UNCHANGED <<known, lock>>
        BY DEF Take, rows
      <3>3. /\ op'[v] = op[v] /\ target'[v] = target[v] /\ other'[v] = other[v]
            /\ seen'[v] = seen[v] /\ plan'[v] = plan[v]
        BY <2>2 DEF Base, TasksOK, Take
      <3> QED BY <3>1, <3>2, <3>3, WorkKept
    <2> QED BY <2>1, <2>2
  <1>5. PairInv' /\ FreshInv'
    BY DEF Base, Take, rows, PairInv, FreshInv
  <1> QED BY <1>3, <1>4, <1>5 DEF Base

-----------------------------------------------------------------------------
(* Taking up work.                                                         *)

\* A row as it is read is well typed.
LEMMA RowRead ==
    ASSUME TypeOK, NEW m \in Memories
    PROVE  /\ [Row(m) EXCEPT !.metadata = FALSE] \in Columns
           /\ [Unread EXCEPT !.metadata = m \in metadata] \in Columns
           /\ [Unread EXCEPT !.metadata = m \in metadata].by = None
           /\ Unread \in Columns
  <1>1. until[m] \in Times \cup {Open} /\ by[m] \in Memories \cup {None}
    BY DEF TypeOK
  <1>2. (erased[m] # "no") \in BOOLEAN /\ (m \in metadata) \in BOOLEAN
    OBVIOUS
  <1> QED BY <1>1, <1>2 DEF Row, Unread, Columns

\* So do the operations that begin with Take: each reads rows that exist.
LEMMA BeginStep ==
    ASSUME Base, NEW w \in Workers, NEW m \in Memories, NEW n \in Memories,
           \/ BeginReject(w, m) \/ BeginFeedback(w, m) \/ BeginAdjudicate(w, m, n)
           \/ \E resolution \in Resolved : BeginResolve(w, m, n, resolution)
           \/ \E decision \in {"keep", "retire", "replace"} : BeginReview(w, m, decision)
    PROVE  Base'
  <1> USE RowRead
  <1> TypeOK
    BY DEF Base
  <1>1. CASE BeginReject(w, m)
    BY <1>1, TakeStep DEF BeginReject, Doing, Resolved
  <1>2. CASE BeginFeedback(w, m)
    BY <1>2, TakeStep DEF BeginFeedback, Doing, Resolved
  <1>3. CASE BeginAdjudicate(w, m, n)
    <2>1. m \in known /\ n \in known
      BY <1>3 DEF BeginAdjudicate, Base, PairInv
    <2> QED BY <1>3, <2>1, TakeStep DEF BeginAdjudicate, Doing, Resolved
  <1>4. CASE \E resolution \in Resolved : BeginResolve(w, m, n, resolution)
    <2>1. PICK resolution \in Resolved : BeginResolve(w, m, n, resolution)
      BY <1>4
    <2>2. m \in known /\ n \in known
      BY <2>1 DEF BeginResolve, Base, PairInv, Pairs
    <2> QED BY <2>1, <2>2, TakeStep DEF BeginResolve, Doing, Resolved
  <1>5. CASE \E decision \in {"keep", "retire", "replace"} : BeginReview(w, m, decision)
    <2>1. PICK decision \in {"keep", "retire", "replace"} : BeginReview(w, m, decision)
      BY <1>5
    <2>2. m \in known
      BY <2>1 DEF BeginReview, Base, FreshInv
    <2> QED BY <2>1, <2>2, TakeStep DEF BeginReview, Doing, Resolved
  <1> QED BY <1>1, <1>2, <1>3, <1>4, <1>5

\* A plan is about known memories.
LEMMA PlanIsKnown ==
    ASSUME TypeOK, NEW n \in Memories,
           NEW p \in IF Keyed(n) THEN KeyedPlans(n) ELSE FreePlans(n)
    PROVE  /\ p \in Plans
           /\ p.closes \subseteq Candidates
           /\ p.conflicts \subseteq known
           /\ p.successor \in Candidates \cup {None}
  <1>1. Candidates \subseteq known /\ known \subseteq Memories
    BY DEF Candidates, TypeOK
  <1>2. CASE Keyed(n)
    BY <1>1, <1>2 DEF KeyedPlans, Plans, Older, Newer, Clash
  <1>3. CASE ~Keyed(n)
    BY <1>1, <1>3 DEF FreePlans, Plans
  <1> QED BY <1>2, <1>3

\* An ingestion that begins takes the free lock and reserves its memory.
LEMMA ReserveStep ==
    ASSUME Base, NEW w \in Workers, NEW n \in Memories,
           BeginAdd(w, n) \/ BeginReplacement(w, n)
    PROVE  Base'
  <1> USE TypeParts DEF Typed
  <1> TypeOK /\ TasksOK
    BY DEF Base
  <1>1. PICK p \in IF Keyed(n) THEN KeyedPlans(n) ELSE FreePlans(n) :
           plan' = [plan EXCEPT ![w] = p]
    BY DEF BeginAdd, BeginReplacement
  <1>2. /\ p \in Plans /\ p.closes \subseteq known /\ p.conflicts \subseteq known
        /\ p.successor \in known \cup {None}
    BY PlanIsKnown DEF Candidates
  <1>3. /\ lock = None /\ lock' = w /\ n \notin known
        /\ other' = [other EXCEPT ![w] = n]
        /\ UNCHANGED <<now, fact, rows, flag, jobs, target, seen, stamp>>
        /\ \/ op[w] = "idle" /\ op' = [op EXCEPT ![w] = "add"]
           \/ op[w] = "replace" /\ op' = [op EXCEPT ![w] = "replacing"]
    BY DEF BeginAdd, BeginReplacement, Ingestible
  <1>4. TypeOK'
    BY <1>1, <1>2, <1>3 DEF RowsOK, TasksOK, Doing, rows
  <1>5. WorkInv'
    <2> SUFFICES ASSUME NEW v \in Workers PROVE Work(v)'
      BY DEF WorkInv
    <2>1. Work(v)
      BY DEF Base, WorkInv
    <2>2. CASE v = w
      BY <1>1, <1>2, <1>3, <2>1, <2>2 DEF TasksOK, rows, Work, Locked, Planned, Resolved
    <2>3. CASE v # w
      <3>1. ~Locked(v)
        BY <2>1, <1>3, ConstantsAssumption DEF Work, Planned
      <3> QED BY <1>1, <1>3, <2>1, <2>3, <3>1, WorkKept DEF TasksOK, rows
    <2> QED BY <2>2, <2>3
  <1>6. PairInv' /\ FreshInv'
    BY <1>3 DEF Base, rows, PairInv, FreshInv
  <1> QED BY <1>4, <1>5, <1>6 DEF Base

-----------------------------------------------------------------------------
(* Committing work.                                                        *)

\* The transaction of the holder of the lock keeps the rows well typed, and gives
\* columns only to known memories.
LEMMA IngestStep ==
    ASSUME Base, NEW w \in Workers, Locked(w), Ingest(w)
    PROVE  /\ RowsOK' /\ PairInv' /\ FreshInv'
           /\ now' = now /\ fact' = fact /\ lock' = None
           /\ known' = known \cup {other[w]}
           /\ known \subseteq known' /\ other[w] \in known'
  <1> DEFINE n == other[w]
             p == plan[w]
  <1> USE TypeParts DEF Typed
  <1> TypeOK /\ RowsOK /\ TasksOK
    BY DEF Base
  <1>1. /\ n \in Memories \ known /\ p.closes \subseteq known
        /\ p.conflicts \subseteq known /\ p.successor \in known \cup {None}
    BY DEF Base, WorkInv, Work, Planned
  <1>2. known \subseteq Memories /\ p \in Plans
    BY DEF RowsOK, TasksOK
  <1>3. Time(n) \in Times
    BY <1>1 DEF Time, Facts
  <1>4. p.successor # None => Time(p.successor) \in Times
    BY <1>1, <1>2 DEF Time, Facts
  <1>5. /\ known' = known \cup {n}
        /\ until' = ValidTo(n, p)
        /\ by' = [m \in Memories |->
                     CASE m \in p.closes -> n
                       [] m = n -> p.successor
                       [] OTHER -> by[m]]
        /\ live' = [m \in Memories |->
                       CASE m \in p.closes -> "none"
                         [] m = n /\ p.successor = None -> "content"
                         [] OTHER -> live[m]]
        /\ metadata' = metadata \cup {n}
        /\ flag' = [f \in Pairs |->
                       IF f[1] \in p.conflicts /\ f[2] = n THEN "open" ELSE flag[f]]
        /\ jobs' = IF Keyed(n) THEN jobs ELSE jobs \cup (p.closes \X {n})
        /\ lock' = None
        /\ UNCHANGED <<now, fact, erased, review>>
    BY DEF Ingest
  <1>6. until' \in [Memories -> Times \cup {Open}]
    BY <1>3, <1>4, <1>5 DEF ValidTo, RowsOK
  <1>7. by' \in [Memories -> Memories \cup {None}]
    BY <1>1, <1>2, <1>5 DEF RowsOK
  <1>8. live' \in [Memories -> {"none", "content", "husk"}]
    BY <1>5 DEF RowsOK
  <1>9. flag' \in [Pairs -> {"none", "open"} \cup Resolved]
    BY <1>5 DEF RowsOK
  <1>10. jobs' \subseteq known' \X known'
    BY <1>1, <1>5 DEF Base, PairInv
  <1>11. RowsOK'
    BY <1>1, <1>2, <1>5, <1>6, <1>7, <1>8, <1>9, <1>10 DEF RowsOK, Pairs
  <1>12. PairInv'
    BY <1>1, <1>2, <1>5, <1>10 DEF Base, PairInv, Pairs
  <1>13. FreshInv'
    BY <1>1, <1>5 DEF Base, FreshInv, ValidTo
  <1> QED BY <1>1, <1>5, <1>11, <1>12, <1>13

\* A worker that is done keeps Base if its rows do.
LEMMA DoneStep ==
    ASSUME Base, NEW w \in Workers, Release(w), RowsOK', PairInv', FreshInv',
           now' \in Times, fact' = fact, lock' \in Workers \cup {None},
           known \subseteq known',
           \A v \in Workers \ {w} : Locked(v) => known' = known /\ lock' = lock
    PROVE  Base'
  <1> USE TypeParts DEF Typed
  <1> TypeOK /\ TasksOK
    BY DEF Base
  <1>1. TypeOK'
    BY ReleaseStep
  <1>2. WorkInv'
    <2> SUFFICES ASSUME NEW v \in Workers PROVE Work(v)'
      BY DEF WorkInv
    <2>1. CASE v = w
      BY <2>1, ReleaseStep DEF Work, Locked, Resolved
    <2>2. CASE v # w
      BY <2>2, ReleaseStep, WorkKept DEF Base, WorkInv
    <2> QED BY <2>1, <2>2
  <1> QED BY <1>1, <1>2 DEF Base

\* There is one holder of the lock.
LEMMA OneHolder ==
    ASSUME Base, NEW v \in Workers, NEW w \in Workers, Locked(v), Locked(w)
    PROVE  v = w
BY DEF Base, WorkInv, Work, Planned

\* An ingestion that commits gives back the lock, and what it adds is known.
LEMMA FinishIngestStep ==
    ASSUME Base, NEW w \in Workers, FinishAdd(w) \/ FinishReplacement(w)
    PROVE  Base'
  <1> USE TypeParts DEF Typed
  <1> TypeOK /\ TasksOK
    BY DEF Base
  <1>1. Locked(w) /\ Ingest(w)
    BY DEF FinishAdd, FinishReplacement, Locked
  <1>2. \A v \in Workers \ {w} : ~Locked(v)
    BY <1>1, OneHolder
  <1>3. CASE FinishAdd(w)
    BY <1>1, <1>2, <1>3, IngestStep, DoneStep DEF FinishAdd
  <1>4. CASE FinishReplacement(w)
    <2>1. /\ op[w] = "replacing" /\ op' = [op EXCEPT ![w] = "replaced"]
          /\ seen' = [seen EXCEPT ![w].by =
                         IF target[w] \in plan[w].closes THEN other[w] ELSE @]
          /\ plan' = [plan EXCEPT ![w] = NoPlan]
          /\ UNCHANGED <<target, other, stamp>>
      BY <1>4 DEF FinishReplacement
    <2>2. NoPlan \in Plans
      BY DEF NoPlan, Plans
    <2>3. seen' \in [Workers -> Columns]
      <3>1. other[w] \in Memories \cup {None}
        BY DEF TasksOK
      <3> QED BY <2>1, <3>1 DEF TasksOK, Columns
    <2>4. TasksOK'
      BY <2>1, <2>2, <2>3 DEF TasksOK, Doing
    <2>5. TypeOK'
      BY <1>1, <2>4, IngestStep
    <2>6. WorkInv'
      <3> SUFFICES ASSUME NEW v \in Workers PROVE Work(v)'
        BY DEF WorkInv
      <3>1. Work(v)
        BY DEF Base, WorkInv
      <3>2. CASE v = w
        BY <1>1, <2>1, <3>1, <3>2, IngestStep DEF TasksOK, Work, Locked, Resolved
      <3>3. CASE v # w
        BY <1>1, <1>2, <2>1, <3>1, <3>3, IngestStep, WorkKept DEF TasksOK
      <3> QED BY <3>2, <3>3
    <2> QED BY <1>1, <2>5, <2>6, IngestStep DEF Base
  <1> QED BY <1>3, <1>4

\* A decision, a feedback or a review that commits.
LEMMA FinishStep ==
    ASSUME Base, NEW w \in Workers,
           \/ FinishReject(w) \/ FinishAdjudicate(w) \/ FinishResolve(w)
           \/ FinishFeedback(w) \/ FinishReview(w) \/ Abort(w)
    PROVE  Base'
  <1> USE TypeParts DEF Typed
  <1> TypeOK /\ RowsOK /\ TasksOK
    BY DEF Base
  <1> DEFINE m == target[w]
  <1>1. /\ stamp[w] \in Times /\ other[w] \in Memories \cup {None}
        /\ known \subseteq Memories
    BY DEF TasksOK, RowsOK
  <1>2. op[w] \notin {"idle", "add"} => m \in known
    BY DEF Base, WorkInv, Work
  <1>3. op[w] \in Resolved => other[w] \in known
    BY DEF Base, WorkInv, Work
  <1>4. now' = now /\ fact' = fact /\ known' = known /\ Release(w)
    BY DEF FinishReject, FinishAdjudicate, FinishResolve, FinishFeedback,
           FinishReview, Abort, rows
  <1>5. \A v \in Workers \ {w} : Locked(v) => lock' = lock
    <2>1. CASE Abort(w)
      BY <2>1 DEF Abort, Base, WorkInv, Work, Planned
    <2> QED BY <2>1 DEF FinishReject, FinishAdjudicate, FinishResolve,
                        FinishFeedback, FinishReview
  <1>6. lock' \in Workers \cup {None}
    BY DEF FinishReject, FinishAdjudicate, FinishResolve, FinishFeedback,
           FinishReview, Abort
  <1>7. RowsOK' /\ PairInv' /\ FreshInv'
    <2>1. CASE FinishReject(w)
      BY <1>2, <2>1 DEF FinishReject, RowsOK, Base, PairInv, FreshInv
    <2>2. CASE FinishAdjudicate(w)
      BY <1>2, <2>2 DEF FinishAdjudicate, RowsOK, Base, PairInv, FreshInv, Resolved
    <2>3. CASE FinishResolve(w)
      <3> DEFINE losers == CASE op[w] = "accept_a" -> {other[w]}
                             [] op[w] = "accept_b" -> {m}
                             [] OTHER -> {}
      <3>1. losers \subseteq known /\ m \in known /\ op[w] \in Resolved
        BY <1>2, <1>3, <2>3 DEF FinishResolve, Resolved
      <3>2. /\ until' = [x \in Memories |-> IF x \in losers THEN stamp[w] ELSE until[x]]
            /\ live' = [x \in Memories |-> IF x \in losers THEN "none" ELSE live[x]]
            /\ flag' = [flag EXCEPT ![<<m, other[w]>>] = op[w]]
            /\ UNCHANGED <<known, by, erased, metadata, review, jobs>>
        BY <2>3 DEF FinishResolve
      <3> HIDE DEF losers
      <3>3. RowsOK'
        BY <1>1, <3>1, <3>2 DEF RowsOK
      <3>4. FreshInv'
        BY <3>1, <3>2 DEF Base, FreshInv
      <3>5. PairInv'
        BY <1>3, <3>1, <3>2 DEF Base, PairInv, RowsOK
      <3> QED BY <3>3, <3>4, <3>5
    <2>4. CASE FinishFeedback(w)
      BY <1>2, <2>4 DEF FinishFeedback, Restore, RowsOK, Base, PairInv, FreshInv
    <2>5. CASE FinishReview(w)
      <3>1. m \in known
        BY <1>2, <2>5 DEF FinishReview
      <3>2. /\ metadata' \in SUBSET known
            /\ review' = [review EXCEPT ![m] = "resolved"]
            /\ UNCHANGED <<known, erased, flag, jobs>>
        BY <2>5, <3>1 DEF FinishReview, Restore, RowsOK
      <3>3. /\ until' \in [Memories -> Times \cup {Open}]
            /\ by' \in [Memories -> Memories \cup {None}]
            /\ live' \in [Memories -> {"none", "content", "husk"}]
            /\ \A x \in Memories \ {m} :
                  until'[x] = until[x] /\ by'[x] = by[x] /\ live'[x] = live[x]
        BY <1>1, <2>5 DEF FinishReview, RowsOK
      <3>4. RowsOK'
        BY <3>1, <3>2, <3>3 DEF RowsOK
      <3>5. PairInv' /\ FreshInv'
        BY <3>1, <3>2, <3>3 DEF Base, PairInv, FreshInv, RowsOK
      <3> QED BY <3>4, <3>5
    <2>6. CASE Abort(w)
      BY <2>6 DEF Abort, rows, RowsOK, Base, PairInv, FreshInv
    <2> QED BY <2>1, <2>2, <2>3, <2>4, <2>5, <2>6
  <1> QED BY <1>4, <1>5, <1>6, <1>7, DoneStep

\* The three erasures leave workers, plans and the lock alone.
LEMMA EraseStep ==
    ASSUME Base, NEW m \in Memories, Forget(m) \/ EraseSubject(m) \/ Prune(m)
    PROVE  Base'
  <1> USE TypeParts DEF Typed
  <1> TypeOK /\ RowsOK /\ TasksOK
    BY DEF Base
  <1>1. /\ m \in known /\ UNCHANGED <<known, lock, fact, now, task, flag, jobs>>
    BY DEF Forget, EraseSubject, Prune
  <1>2. RowsOK'
    BY DEF Forget, EraseSubject, Prune, RowsOK
  <1>3. TasksOK'
    BY <1>1 DEF task, TasksOK
  <1>4. PairInv' /\ FreshInv'
    BY <1>1 DEF Forget, EraseSubject, Prune, Base, PairInv, FreshInv, RowsOK
  <1>5. WorkInv'
    BY <1>1, IdleWork DEF Base
  <1> QED BY <1>1, <1>2, <1>3, <1>4, <1>5 DEF Base

\* So do the clock and an adjudication job that is dropped.
LEMMA OtherStep ==
    ASSUME Base, \/ Tick \/ \E m, n \in Memories : DropAdjudication(m, n)
                 \/ UNCHANGED vars
    PROVE  Base'
  <1> USE TypeParts DEF Typed
  <1> TypeOK /\ RowsOK /\ TasksOK
    BY DEF Base
  <1>1. UNCHANGED <<fact, rows, lock, task, flag>> /\ jobs' \subseteq jobs
    BY DEF Tick, DropAdjudication, vars, rows, task
  <1>2. now' \in Times
    <2>1. CASE Tick
      BY <2>1, ConstantsAssumption DEF Tick, Times, TypeOK
    <2>2. CASE now' = now
      BY <2>2 DEF TypeOK
    <2> QED BY <2>1, <2>2 DEF DropAdjudication, vars
  <1>3. RowsOK' /\ TasksOK' /\ PairInv' /\ FreshInv'
    BY <1>1 DEF rows, task, RowsOK, TasksOK, Base, PairInv, FreshInv
  <1>4. WorkInv'
    BY <1>1, IdleWork DEF rows, Base
  <1> QED BY <1>1, <1>2, <1>3, <1>4 DEF Base

\* Nothing is known and nobody works at first.
LEMMA BaseInit == Init => Base
  <1> SUFFICES ASSUME Init PROVE Base
    OBVIOUS
  <1>1. 1 \in Times
    BY ConstantsAssumption DEF Times
  <1>2. Unread \in Columns /\ NoPlan \in Plans
    BY DEF Unread, Columns, NoPlan, Plans
  <1>3. TypeOK
    BY <1>1, <1>2 DEF Init, TypeOK, Doing
  <1>4. WorkInv /\ PairInv /\ FreshInv
    BY DEF Init, WorkInv, Work, Locked, Resolved, PairInv, FreshInv
  <1> QED BY <1>3, <1>4 DEF Base

\* Every step keeps Base.
LEMMA BaseStep == Base /\ [Next]_vars => Base'
  <1> SUFFICES ASSUME Base, [Next]_vars PROVE Base'
    OBVIOUS
  <1> QED BY BeginStep, ReserveStep, FinishIngestStep, FinishStep, EraseStep,
             OtherStep DEF Next

\* In every reachable state the rows and workers are well typed, everything a row, a
\* plan or a worker refers to is known, and only the holder of the write lock of
\* add_memory ingests.
THEOREM BaseInvariant == Spec => []Base
BY BaseInit, BaseStep, PTL DEF Spec

\* Every reachable state is well typed.
THEOREM TypeCorrect == Spec => []TypeOK
  <1>1. Base => TypeOK
    BY DEF Base
  <1> QED BY <1>1, BaseInvariant, PTL

-----------------------------------------------------------------------------
(* The projection.                                                         *)

Deciding(w, m, n) ==
    \/ BeginReject(w, m) \/ BeginFeedback(w, m) \/ BeginAdjudicate(w, m, n)
    \/ \E resolution \in Resolved : BeginResolve(w, m, n, resolution)
    \/ \E decision \in {"keep", "retire", "replace"} : BeginReview(w, m, decision)

\* Every step is of one of these kinds.
StepKind ==
    \/ UNCHANGED <<known, until, by, erased, live, fact, task>>
    \/ \E w \in Workers, m, n \in Memories : Deciding(w, m, n)
    \/ \E w \in Workers, n \in Memories : BeginAdd(w, n) \/ BeginReplacement(w, n)
    \/ \E w \in Workers : FinishAdd(w) \/ FinishReplacement(w)
    \/ \E w \in Workers : FinishReject(w) \/ FinishAdjudicate(w)
    \/ \E w \in Workers : FinishResolve(w) \/ FinishReview(w)
    \/ \E w \in Workers : FinishFeedback(w) \/ Abort(w)
    \/ \E m \in Memories : Forget(m) \/ EraseSubject(m) \/ Prune(m)

\* Every step is of one of the kinds the proofs treat, or a stutter.
LEMMA StepKinds == [Next]_vars => StepKind
  <1>1. Tick \/ (\E m, n \in Memories : DropAdjudication(m, n)) \/ UNCHANGED vars
           => UNCHANGED <<known, until, by, erased, live, fact, task>>
    BY DEF Tick, DropAdjudication, vars, rows, task
  <1> QED BY <1>1 DEF Next, StepKind, Deciding

\* Beginning anything but an ingestion leaves the rows and the other workers alone.
LEMMA DecidingMoves ==
    ASSUME TypeOK, NEW w \in Workers, NEW m \in Memories, NEW n \in Memories,
           Deciding(w, m, n)
    PROVE  /\ UNCHANGED <<fact, rows, plan>>
           /\ op'[w] \notin {"idle", "add", "replacing", "replaced"}
           /\ op'[w] = "reject" => "reject" \in Ops
           /\ op'[w] = "adjudicate" => "adjudicate" \in Ops
           /\ \A v \in Workers \ {w} :
                 /\ op'[v] = op[v] /\ target'[v] = target[v]
                 /\ other'[v] = other[v] /\ seen'[v] = seen[v]
BY DEF Deciding, BeginReject, BeginFeedback, BeginAdjudicate, BeginResolve,
       BeginReview, Take, TypeOK, Resolved

\* What reopens a memory is under way only where it takes place.
ReopenInv ==
    \A w \in Workers : op[w] \in {"reject", "adjudicate"} => op[w] \in Ops

\* A worker rejects or adjudicates only where these operations take place.
LEMMA ReopenStep ==
    ASSUME Base, ReopenInv, [Next]_vars
    PROVE  ReopenInv'
  <1> SUFFICES ASSUME NEW v \in Workers, op'[v] \in {"reject", "adjudicate"}
               PROVE  op'[v] \in Ops
    BY DEF ReopenInv
  <1> TypeOK
    BY DEF Base
  <1>1. op'[v] = op[v] => op'[v] \in Ops
    BY DEF ReopenInv
  <1>2. CASE UNCHANGED task
    BY <1>1, <1>2 DEF task
  <1>3. CASE \E w \in Workers, m, n \in Memories : Deciding(w, m, n)
    BY <1>1, <1>3, DecidingMoves
  <1>4. CASE \E w \in Workers, n \in Memories : BeginAdd(w, n) \/ BeginReplacement(w, n)
    BY <1>1, <1>4 DEF BeginAdd, BeginReplacement, TypeOK
  <1>5. CASE \E w \in Workers : Release(w)
    BY <1>1, <1>5 DEF Release, TypeOK
  <1>6. CASE \E w \in Workers : FinishReplacement(w)
    BY <1>1, <1>6 DEF FinishReplacement, TypeOK
  <1> QED BY <1>2, <1>3, <1>4, <1>5, <1>6, StepKinds
          DEF StepKind, FinishAdd, FinishReject, FinishAdjudicate, FinishResolve,
              FinishReview, FinishFeedback, Abort, Forget, EraseSubject, Prune

\* Without rejections an erasure is final.
LEMMA ErasureStep ==
    ASSUME Base, ReopenInv, NoErasedRecalled, [Next]_vars, "reject" \notin Ops
    PROVE  NoErasedRecalled'
  <1> TypeOK
    BY DEF Base
  <1>1. CASE UNCHANGED <<erased, live>>
    BY <1>1 DEF NoErasedRecalled
  <1>2. CASE \E w \in Workers : FinishAdd(w) \/ FinishReplacement(w)
    <2>1. PICK w \in Workers : Locked(w) /\ Ingest(w)
      BY <1>2 DEF FinishAdd, FinishReplacement, Locked
    <2>2. other[w] \in Memories \ known
      BY <2>1 DEF Base, WorkInv, Work, Planned
    <2>3. erased[other[w]] = "no"
      BY <2>2 DEF Base, FreshInv
    <2> QED BY <2>1, <2>3 DEF Ingest, NoErasedRecalled
  <1>3. CASE \E w \in Workers : FinishReject(w)
    BY <1>3 DEF FinishReject, ReopenInv
  <1>4. CASE \E w \in Workers : FinishResolve(w) \/ FinishReview(w)
    BY <1>4 DEF FinishResolve, FinishReview, NoErasedRecalled, TypeOK
  <1>5. CASE \E m \in Memories : Forget(m) \/ EraseSubject(m) \/ Prune(m)
    BY <1>5 DEF Forget, EraseSubject, Prune, NoErasedRecalled, TypeOK
  <1>6. (\E w \in Workers, m, n \in Memories : Deciding(w, m, n))
           => UNCHANGED <<erased, live>>
    BY DecidingMoves DEF rows
  <1> QED BY <1>1, <1>2, <1>3, <1>4, <1>5, <1>6, StepKinds
          DEF StepKind, BeginAdd, BeginReplacement, FinishAdjudicate,
              FinishFeedback, Abort, rows

\* Whatever decisions and ingestions race with it, an erased memory is never
\* recalled again, as long as no supersession is rejected.
THEOREM ErasureIsFinal ==
    ASSUME "reject" \notin Ops
    PROVE  Spec => []NoErasedRecalled
  <1>1. Init => NoErasedRecalled /\ ReopenInv
    BY DEF Init, NoErasedRecalled, ReopenInv
  <1>2. Base /\ NoErasedRecalled /\ ReopenInv /\ [Next]_vars
           => (NoErasedRecalled /\ ReopenInv)'
    BY ReopenStep, ErasureStep
  <1> QED BY <1>1, <1>2, BaseInvariant, PTL DEF Spec

-----------------------------------------------------------------------------
(* Exactness of the projection.                                            *)

\* A memory that its own replacement closed stays closed until the review is
\* committed, which therefore need not close it again.
ReplacedInv ==
    \A w \in Workers :
        op[w] = "replaced" /\ seen[w].by = other[w] => until[target[w]] # Open

ExactInv == LiveMatchesLog /\ ReplacedInv /\ ReopenInv

NothingReopens == Ops \cap {"reject", "adjudicate"} = {}

\* A time is not the mark of an open window.
LEMMA TimesAreClosed ==
    ASSUME NEW t \in Times PROVE t # Open
BY DEF Times, Open

\* Ingestion closes windows and opens one, with its live fact.
LEMMA IngestExact ==
    ASSUME Base, LiveMatchesLog, NEW w \in Workers, Locked(w), Ingest(w)
    PROVE  /\ LiveMatchesLog'
           /\ \A m \in known : until[m] # Open => until'[m] # Open
           /\ \A m \in plan[w].closes : until'[m] # Open
  <1> DEFINE n == other[w]
             p == plan[w]
  <1> TypeOK
    BY DEF Base
  <1>1. /\ n \in Memories \ known /\ p.closes \subseteq known
        /\ p.successor \in known \cup {None} /\ known \subseteq Memories
    BY DEF Base, WorkInv, Work, Planned, TypeOK
  <1>2. Time(n) # Open
    BY <1>1, TimesAreClosed DEF TypeOK, Facts, Time
  <1>3. p.successor # None => Time(p.successor) # Open
    BY <1>1, TimesAreClosed DEF TypeOK, Facts, Time
  <1>4. until[n] = Open /\ erased[n] = "no" /\ live[n] = "none"
    BY <1>1 DEF Base, FreshInv
  <1>5. /\ known' = known \cup {n}
        /\ until' = ValidTo(n, p)
        /\ live' = [m \in Memories |->
                       CASE m \in p.closes -> "none"
                         [] m = n /\ p.successor = None -> "content"
                         [] OTHER -> live[m]]
        /\ erased' = erased
    BY DEF Ingest
  <1>6. \A m \in p.closes : until'[m] # Open /\ live'[m] = "none"
    BY <1>1, <1>2, <1>5 DEF ValidTo
  <1>7. \A m \in known \ p.closes : until'[m] = until[m] /\ live'[m] = live[m]
    BY <1>1, <1>5 DEF ValidTo
  <1>8. CASE p.successor = None
    <2>1. until'[n] = Open /\ live'[n] = "content"
      BY <1>1, <1>4, <1>5, <1>8 DEF ValidTo
    <2> QED BY <1>4, <1>5, <1>6, <1>7, <2>1 DEF LiveMatchesLog
  <1>9. CASE p.successor # None
    <2>1. until'[n] # Open /\ live'[n] = "none"
      BY <1>1, <1>3, <1>4, <1>5, <1>9 DEF ValidTo
    <2> QED BY <1>4, <1>5, <1>6, <1>7, <2>1 DEF LiveMatchesLog
  <1> QED BY <1>8, <1>9

\* The rows: no step reopens a memory, and each keeps the projection exact.
LEMMA ExactRows ==
    ASSUME Base, ExactInv, [Next]_vars, NothingReopens
    PROVE  /\ LiveMatchesLog'
           /\ \A m \in known : until[m] # Open => until'[m] # Open
  <1> TypeOK
    BY DEF Base
  <1>1. CASE UNCHANGED <<known, until, erased, live>>
    BY <1>1 DEF ExactInv, LiveMatchesLog
  <1>2. CASE \E w \in Workers : FinishAdd(w) \/ FinishReplacement(w)
    BY <1>2, IngestExact DEF ExactInv, FinishAdd, FinishReplacement, Locked
  <1>3. CASE \E w \in Workers : FinishReject(w) \/ FinishAdjudicate(w)
    BY <1>3 DEF FinishReject, FinishAdjudicate, ExactInv, ReopenInv, NothingReopens
  <1>4. CASE \E w \in Workers : FinishResolve(w)
    <2>1. PICK w \in Workers : FinishResolve(w)
      BY <1>4
    <2> DEFINE losers == CASE op[w] = "accept_a" -> {other[w]}
                           [] op[w] = "accept_b" -> {target[w]}
                           [] OTHER -> {}
    <2>2. /\ until' = [x \in Memories |-> IF x \in losers THEN stamp[w] ELSE until[x]]
          /\ live' = [x \in Memories |-> IF x \in losers THEN "none" ELSE live[x]]
          /\ UNCHANGED <<known, erased>>
      BY <2>1 DEF FinishResolve
    <2> HIDE DEF losers
    <2>3. stamp[w] # Open /\ known \subseteq Memories
      BY TimesAreClosed DEF TypeOK
    <2> QED BY <2>2, <2>3 DEF ExactInv, LiveMatchesLog
  <1>5. CASE \E w \in Workers : FinishReview(w)
    <2>1. PICK w \in Workers : FinishReview(w)
      BY <1>5
    <2>2. target[w] \in known /\ stamp[w] # Open /\ known \subseteq Memories
      BY <2>1, TimesAreClosed DEF FinishReview, Base, WorkInv, Work, TypeOK
    <2>3. op[w] = "keep" => UNCHANGED <<until, live>>
      BY <2>1 DEF FinishReview
    <2>4. op[w] # "keep" => /\ live' = [live EXCEPT ![target[w]] = "none"]
                            /\ until'[target[w]] # Open
                            /\ \A m \in known \ {target[w]} : until'[m] = until[m]
      BY <2>1, <2>2 DEF FinishReview, ExactInv, ReplacedInv, TypeOK
    <2>5. UNCHANGED <<known, erased>>
      BY <2>1 DEF FinishReview
    <2> QED BY <2>2, <2>3, <2>4, <2>5 DEF ExactInv, LiveMatchesLog, TypeOK
  <1>6. CASE \E m \in Memories : Forget(m) \/ EraseSubject(m) \/ Prune(m)
    <2>1. PICK m \in Memories : Forget(m) \/ EraseSubject(m) \/ Prune(m)
      BY <1>6
    <2>2. /\ known' = known /\ m \in known /\ known \subseteq Memories
          /\ live' = [live EXCEPT ![m] = "none"]
          /\ erased'[m] # "no" /\ \A x \in Memories \ {m} : erased'[x] = erased[x]
      BY <2>1 DEF Forget, EraseSubject, Prune, TypeOK
    <2>3. /\ now # Open
          /\ until' = until \/ until' = [until EXCEPT ![m] = IF @ = Open THEN now ELSE @]
      BY <2>1, TimesAreClosed DEF Forget, EraseSubject, Prune, TypeOK
    <2>4. \A x \in known \ {m} : until'[x] = until[x]
      BY <2>2, <2>3 DEF TypeOK
    <2>5. until[m] # Open => until'[m] # Open
      BY <2>2, <2>3 DEF TypeOK
    <2> QED BY <2>2, <2>4, <2>5 DEF ExactInv, LiveMatchesLog, TypeOK
  <1>7. (\E w \in Workers, m, n \in Memories : Deciding(w, m, n))
           => UNCHANGED <<known, until, erased, live>>
    BY DecidingMoves DEF rows
  <1> QED BY <1>1, <1>2, <1>3, <1>4, <1>5, <1>6, <1>7, StepKinds
          DEF StepKind, BeginAdd, BeginReplacement, FinishFeedback, Abort, rows

\* A review whose own replacement closed its memory finds it closed when it commits.
LEMMA ReplacedStep ==
    ASSUME Base, Base', ExactInv, [Next]_vars, NothingReopens
    PROVE  ReplacedInv'
  <1> SUFFICES ASSUME NEW v \in Workers, op'[v] = "replaced", seen'[v].by = other'[v]
               PROVE  until'[target'[v]] # Open
    BY DEF ReplacedInv
  <1> TypeOK
    BY DEF Base
  <1>1. ASSUME op'[v] = op[v], target'[v] = target[v], other'[v] = other[v],
               seen'[v] = seen[v]
        PROVE  until'[target'[v]] # Open
    <2>1. target[v] \in known /\ until[target[v]] # Open
      BY <1>1 DEF ExactInv, ReplacedInv, Base, WorkInv, Work
    <2> QED BY <1>1, <2>1, ExactRows
  <1>2. CASE UNCHANGED task
    BY <1>1, <1>2 DEF task
  <1>3. CASE \E w \in Workers, m, n \in Memories : Deciding(w, m, n)
    BY <1>1, <1>3, DecidingMoves
  <1>4. CASE \E w \in Workers, n \in Memories : BeginAdd(w, n) \/ BeginReplacement(w, n)
    BY <1>1, <1>4 DEF BeginAdd, BeginReplacement, TypeOK
  <1>5. CASE \E w \in Workers : Release(w)
    BY <1>1, <1>5 DEF Release, TypeOK
  <1>6. CASE \E w \in Workers : FinishReplacement(w)
    <2>1. PICK w \in Workers : FinishReplacement(w)
      BY <1>6
    <2>2. CASE w # v
      BY <1>1, <2>1, <2>2 DEF FinishReplacement, TypeOK
    <2>3. CASE w = v
      <3>1. Locked(v) /\ Ingest(v) /\ op[v] = "replacing"
        BY <2>1, <2>3 DEF FinishReplacement, Locked
      <3>2. /\ other[v] \in Memories /\ seen[v].by = None /\ target[v] \in known
            /\ seen[v] \in Columns
        BY <3>1 DEF Base, WorkInv, Work, Planned, TypeOK
      <3>3. target[v] \in plan[v].closes
        BY <2>1, <2>3, <3>2, ConstantsAssumption DEF FinishReplacement, TypeOK, Columns
      <3> QED BY <2>1, <2>3, <3>1, <3>3, IngestExact
              DEF FinishReplacement, ExactInv
    <2> QED BY <2>2, <2>3
  <1> QED BY <1>2, <1>3, <1>4, <1>5, <1>6, StepKinds
          DEF StepKind, FinishAdd, FinishReject, FinishAdjudicate, FinishResolve,
              FinishReview, FinishFeedback, Abort, Forget, EraseSubject, Prune

\* Every step keeps the projection exact.
LEMMA ExactStep ==
    ASSUME Base, Base', ExactInv, [Next]_vars, NothingReopens
    PROVE  ExactInv'
BY ExactRows, ReplacedStep, ReopenStep DEF ExactInv

\* Where nothing is reopened, what recall reads is exactly what the log says,
\* however ingestions, reviews, resolutions and erasures interleave.
THEOREM ProjectionIsExact ==
    ASSUME NothingReopens
    PROVE  Spec => []LiveMatchesLog
  <1>1. Init => ExactInv
    BY DEF Init, ExactInv, LiveMatchesLog, ReplacedInv, ReopenInv
  <1>2. Base /\ Base' /\ ExactInv /\ [Next]_vars => ExactInv'
    BY ExactStep
  <1>3. ExactInv => LiveMatchesLog
    BY DEF ExactInv
  <1> QED BY <1>1, <1>2, <1>3, BaseInvariant, PTL DEF Spec

-----------------------------------------------------------------------------
(* Superseded values.                                                      *)

SingleVariant == \A a, b \in Variants : a = b

\* What the holder of the lock read still covers the candidates: it closes every
\* older one and yields to any newer one.
Covers(w) ==
    \A m \in Candidates :
        Keyed(m) =>
            /\ Time(m) < Time(other[w]) => m \in plan[w].closes
            /\ Time(m) > Time(other[w]) => plan[w].successor # None

CoverInv == \A w \in Workers : Locked(w) /\ Keyed(other[w]) => Covers(w)

AgreeInv == ExactInv /\ LiveAgree /\ CoverInv

\* In an exact projection the candidates are the live memories.
LEMMA CandidatesAreLive ==
    ASSUME LiveMatchesLog
    PROVE  Candidates = {m \in known : live[m] # "none"}
BY DEF LiveMatchesLog, Candidates

\* Event times are compared as integers.
LEMMA TimesAreNumbers ==
    ASSUME TypeOK, NEW m \in Memories PROVE Time(m) \in Nat /\ fact[m].variant \in Variants
BY ConstantsAssumption DEF TypeOK, Facts, Time, Times

\* A plan made under the lock covers the candidates.
LEMMA PlanCovers ==
    ASSUME TypeOK, LiveMatchesLog, LiveAgree, SingleVariant,
           NEW n \in Memories, Keyed(n), NEW p \in KeyedPlans(n),
           NEW m \in Candidates, Keyed(m)
    PROVE  /\ Time(m) < Time(n) => m \in p.closes
           /\ Time(m) > Time(n) => p.successor # None
  <1>1. Candidates \subseteq Memories /\ Candidates \subseteq known
    BY DEF TypeOK, Candidates
  <1>2. ASSUME Time(m) < Time(n)
        PROVE  m \in p.closes
    <2>1. m \in Older(n)
      BY <1>2 DEF Older
    <2>2. Clash(n) = {}
      <3>1. SUFFICES ASSUME NEW c \in Clash(n) PROVE FALSE
        OBVIOUS
      <3>2. c \in Candidates /\ Keyed(c) /\ Time(c) = Time(n)
        BY DEF Clash
      <3>3. live[c] # "none" /\ live[m] # "none"
        BY <3>2, CandidatesAreLive
      <3>4. fact[c].variant = fact[m].variant
        BY <1>1, <3>2, TimesAreNumbers DEF SingleVariant
      <3>5. Time(c) = Time(m)
        BY <1>1, <3>2, <3>3, <3>4 DEF LiveAgree
      <3> QED BY <1>1, <1>2, <3>2, <3>5, TimesAreNumbers
    <2> QED BY <2>1, <2>2 DEF KeyedPlans
  <1>3. ASSUME Time(m) > Time(n)
        PROVE  p.successor # None
    <2>1. m \in Newer(n)
      BY <1>1, <1>3, TimesAreNumbers DEF Newer, SingleVariant
    <2>2. p.successor \in Newer(n)
      BY <2>1 DEF KeyedPlans
    <2> QED BY <1>1, <2>2, ConstantsAssumption DEF Newer
  <1> QED BY <1>2, <1>3

\* While a worker holds the lock no other step adds a candidate.
LEMMA CandidatesShrink ==
    ASSUME Base, Base', ExactInv, [Next]_vars, NothingReopens,
           NEW v \in Workers, Locked(v), Locked(v)'
    PROVE  Candidates' \subseteq Candidates
  <1> TypeOK
    BY DEF Base
  <1>1. known' = known
    <2>1. CASE \E w \in Workers : FinishAdd(w) \/ FinishReplacement(w)
      <3>1. PICK w \in Workers : FinishAdd(w) \/ FinishReplacement(w)
        BY <2>1
      <3>2. Locked(w)
        BY <3>1 DEF FinishAdd, FinishReplacement, Locked
      <3>3. w = v
        BY <3>2, OneHolder
      <3>4. ~Locked(v)'
        BY <3>1, <3>3 DEF FinishAdd, FinishReplacement, Release, Locked, TypeOK
      <3> QED BY <3>4
    <2>2. (\E w \in Workers, m, n \in Memories : Deciding(w, m, n)) => known' = known
      BY DecidingMoves DEF rows
    <2> QED BY <2>1, <2>2, StepKinds
            DEF StepKind, BeginAdd, BeginReplacement, FinishReject, FinishAdjudicate,
                FinishResolve, FinishReview, FinishFeedback, Abort, Forget,
                EraseSubject, Prune, rows
  <1>2. \A m \in known : erased[m] # "no" => erased'[m] # "no"
    <2>1. CASE \E m \in Memories : Forget(m) \/ EraseSubject(m) \/ Prune(m)
      BY <2>1 DEF Forget, EraseSubject, Prune, TypeOK
    <2>2. CASE \E w \in Workers : FinishAdd(w) \/ FinishReplacement(w)
      BY <2>2 DEF FinishAdd, FinishReplacement, Ingest
    <2>3. (\E w \in Workers, m, n \in Memories : Deciding(w, m, n)) => erased' = erased
      BY DecidingMoves DEF rows
    <2> QED BY <2>1, <2>2, <2>3, StepKinds
            DEF StepKind, BeginAdd, BeginReplacement, FinishReject, FinishAdjudicate,
                FinishResolve, FinishReview, FinishFeedback, Abort, rows
  <1> QED BY <1>1, <1>2, ExactRows DEF Candidates

\* What a memory states never changes.
LEMMA FactsStay ==
    ASSUME TypeOK, [Next]_vars PROVE fact' = fact
  <1>1. (\E w \in Workers, m, n \in Memories : Deciding(w, m, n)) => fact' = fact
    BY DecidingMoves
  <1>2. (\E w \in Workers : FinishAdd(w) \/ FinishReplacement(w)) => fact' = fact
    BY DEF FinishAdd, FinishReplacement, Ingest
  <1> QED BY <1>1, <1>2, StepKinds
          DEF StepKind, BeginAdd, BeginReplacement, FinishReject, FinishAdjudicate,
              FinishResolve, FinishReview, FinishFeedback, Abort, Forget,
              EraseSubject, Prune

\* A plan keeps covering the candidates until it commits.
LEMMA CoverStep ==
    ASSUME Base, Base', AgreeInv, [Next]_vars, NothingReopens, SingleVariant
    PROVE  CoverInv'
  <1> SUFFICES ASSUME NEW v \in Workers, Locked(v)', Keyed(other[v])'
               PROVE  Covers(v)'
    BY DEF CoverInv
  <1> TypeOK
    BY DEF Base
  <1>1. fact' = fact
    BY FactsStay
  <1>2. ASSUME Locked(v), other'[v] = other[v], plan'[v] = plan[v]
        PROVE  Covers(v)'
    <2>1. Candidates' \subseteq Candidates
      BY <1>2, CandidatesShrink DEF AgreeInv
    <2>2. Covers(v)
      BY <1>1, <1>2 DEF AgreeInv, CoverInv, Keyed
    <2> QED BY <1>1, <1>2, <2>1, <2>2 DEF Covers, Keyed, Time
  <1>3. CASE UNCHANGED task
    BY <1>2, <1>3 DEF task, Locked
  <1>4. CASE \E w \in Workers, m, n \in Memories : Deciding(w, m, n)
    BY <1>2, <1>4, DecidingMoves DEF Locked
  <1>5. CASE \E w \in Workers, n \in Memories : BeginAdd(w, n) \/ BeginReplacement(w, n)
    <2>1. PICK w \in Workers, n \in Memories : BeginAdd(w, n) \/ BeginReplacement(w, n)
      BY <1>5
    <2>2. CASE w # v
      BY <1>2, <2>1, <2>2 DEF BeginAdd, BeginReplacement, Locked, TypeOK
    <2>3. CASE w = v
      <3>1. other'[v] = n /\ Candidates' = Candidates
        BY <2>1, <2>3 DEF BeginAdd, BeginReplacement, TypeOK, rows, Candidates
      <3>2. Keyed(n)
        BY <1>1, <3>1 DEF Keyed
      <3>3. PICK p \in KeyedPlans(n) : plan'[v] = p
        BY <2>1, <2>3, <3>2 DEF BeginAdd, BeginReplacement, TypeOK
      <3> QED BY <1>1, <3>1, <3>2, <3>3, PlanCovers
              DEF Covers, AgreeInv, ExactInv, Keyed, Time
    <2> QED BY <2>2, <2>3
  <1>6. CASE \E w \in Workers : Release(w)
    BY <1>2, <1>6 DEF Release, Locked, TypeOK
  <1>7. CASE \E w \in Workers : FinishReplacement(w)
    BY <1>2, <1>7 DEF FinishReplacement, Locked, TypeOK
  <1> QED BY <1>3, <1>4, <1>5, <1>6, <1>7, StepKinds
          DEF StepKind, FinishAdd, FinishReject, FinishAdjudicate, FinishResolve,
              FinishReview, FinishFeedback, Abort, Forget, EraseSubject, Prune

\* A memory becomes live only when it is ingested.
LEMMA AgreeStep ==
    ASSUME Base, Base', AgreeInv, [Next]_vars, NothingReopens, SingleVariant
    PROVE  LiveAgree'
  <1> TypeOK
    BY DEF Base
  <1>1. fact' = fact
    BY FactsStay
  <1>2. ASSUME known' = known, \A m \in known : live'[m] # "none" => live[m] # "none"
        PROVE  LiveAgree'
    BY <1>1, <1>2 DEF AgreeInv, LiveAgree, Keyed, Time
  <1>3. CASE \E w \in Workers : FinishAdd(w) \/ FinishReplacement(w)
    <2>1. PICK w \in Workers : Locked(w) /\ Ingest(w)
      BY <1>3 DEF FinishAdd, FinishReplacement, Locked
    <2> DEFINE n == other[w]
               p == plan[w]
    <2>2. n \in Memories \ known /\ known \subseteq Memories /\ p.closes \subseteq known
      BY <2>1 DEF Base, WorkInv, Work, Planned, TypeOK
    <2>3. /\ known' = known \cup {n}
          /\ \A m \in p.closes : live'[m] = "none"
          /\ \A m \in known \ p.closes : live'[m] = live[m]
          /\ live'[n] # "none" => p.successor = None
      <3>1. live[n] = "none"
        BY <2>2 DEF Base, FreshInv
      <3> QED BY <2>1, <2>2, <3>1 DEF Ingest
    <2>4. ASSUME NEW m \in known, live'[m] # "none", live'[n] # "none",
                 Keyed(m), Keyed(n)
          PROVE  Time(m) = Time(n)
      <3>1. m \notin p.closes /\ m \in Candidates
        BY <2>3, <2>4, CandidatesAreLive DEF AgreeInv, ExactInv
      <3>2. Covers(w) /\ p.successor = None
        BY <2>1, <2>3, <2>4 DEF AgreeInv, CoverInv
      <3>3. ~(Time(m) < Time(n)) /\ ~(Time(m) > Time(n))
        BY <2>4, <3>1, <3>2 DEF Covers
      <3> QED BY <2>2, <3>3, TimesAreNumbers
    <2>5. ASSUME NEW m \in known, NEW x \in known, live'[m] # "none", live'[x] # "none",
                 Keyed(m), Keyed(x), fact[m].variant = fact[x].variant
          PROVE  Time(m) = Time(x)
      <3>1. live[m] # "none" /\ live[x] # "none"
        BY <2>3, <2>5
      <3> QED BY <2>5, <3>1 DEF AgreeInv, LiveAgree
    <2>6. SUFFICES ASSUME NEW a \in known', NEW b \in known',
                          live'[a] # "none", live'[b] # "none", Keyed(a), Keyed(b),
                          fact[a].variant = fact[b].variant
                   PROVE  Time(a) = Time(b)
      BY <1>1 DEF LiveAgree, Keyed, Time
    <2> QED BY <2>3, <2>4, <2>5, <2>6
  <1>4. CASE \E w \in Workers : FinishReject(w) \/ FinishAdjudicate(w)
    BY <1>4 DEF FinishReject, FinishAdjudicate, AgreeInv, ExactInv, ReopenInv,
                NothingReopens
  <1>5. CASE \E w \in Workers : FinishResolve(w) \/ FinishReview(w)
    BY <1>2, <1>5 DEF FinishResolve, FinishReview, TypeOK
  <1>6. CASE \E m \in Memories : Forget(m) \/ EraseSubject(m) \/ Prune(m)
    BY <1>2, <1>6 DEF Forget, EraseSubject, Prune, TypeOK
  <1>7. CASE UNCHANGED <<known, live>>
    BY <1>2, <1>7
  <1>8. (\E w \in Workers, m, n \in Memories : Deciding(w, m, n))
           => UNCHANGED <<known, live>>
    BY DecidingMoves DEF rows
  <1> QED BY <1>3, <1>4, <1>5, <1>6, <1>7, <1>8, StepKinds
          DEF StepKind, BeginAdd, BeginReplacement, FinishFeedback, Abort, rows

\* Where nothing is reopened and the facts of the same keys differ in nothing else,
\* recall never holds an older value beside a newer one, in whatever order the two
\* were ingested and whatever else is going on.
THEOREM SupersededIsNotRecalled ==
    ASSUME NothingReopens, SingleVariant
    PROVE  Spec => []LiveAgree
  <1>1. Init => AgreeInv
    BY DEF Init, AgreeInv, ExactInv, LiveMatchesLog, ReplacedInv, ReopenInv,
           LiveAgree, CoverInv, Locked
  <1>2. Base /\ Base' /\ AgreeInv /\ [Next]_vars => AgreeInv'
    BY ExactStep, AgreeStep, CoverStep DEF AgreeInv
  <1>3. AgreeInv => LiveAgree
    BY DEF AgreeInv
  <1> QED BY <1>1, <1>2, <1>3, BaseInvariant, PTL DEF Spec

-----------------------------------------------------------------------------
(* The plan of the holder of the lock.                                     *)

Begins(w, n) == BeginAdd(w, n) \/ BeginReplacement(w, n)

\* An ingestion in progress was so before the step, with the same plan, or begins with
\* it: the funnel of add_memory runs once, under the write lock.
LEMMA LockedMoves ==
    ASSUME TypeOK, [Next]_vars, NEW v \in Workers, Locked(v)'
    PROVE  \/ Locked(v) /\ other'[v] = other[v] /\ plan'[v] = plan[v]
           \/ \E n \in Memories : Begins(v, n)
  <1> DEFINE Same == /\ op'[v] = op[v] /\ other'[v] = other[v]
                     /\ plan'[v] = plan[v]
  <1>1. Same => Locked(v) /\ other'[v] = other[v] /\ plan'[v] = plan[v]
    BY DEF Locked
  <1>2. CASE UNCHANGED task
    BY <1>1, <1>2 DEF task
  <1>3. CASE \E w \in Workers, m, n \in Memories : Deciding(w, m, n)
    BY <1>1, <1>3, DecidingMoves DEF Locked
  <1>4. CASE \E w \in Workers, n \in Memories : BeginAdd(w, n) \/ BeginReplacement(w, n)
    <2>1. PICK w \in Workers, n \in Memories : Begins(w, n)
      BY <1>4 DEF Begins
    <2>2. w # v => Same
      BY <2>1 DEF Begins, BeginAdd, BeginReplacement, TypeOK
    <2> QED BY <1>1, <2>1, <2>2
  <1>5. CASE \E w \in Workers : Release(w)
    <2>1. PICK w \in Workers : Release(w)
      BY <1>5
    <2>2. w # v
      BY <2>1 DEF Release, Locked, TypeOK
    <2>3. Same
      BY <2>1, <2>2 DEF Release, TypeOK
    <2> QED BY <1>1, <2>3
  <1>6. CASE \E w \in Workers : FinishReplacement(w)
    <2>1. PICK w \in Workers : FinishReplacement(w)
      BY <1>6
    <2>2. w # v
      BY <2>1 DEF FinishReplacement, Locked, TypeOK
    <2>3. Same
      BY <2>1, <2>2 DEF FinishReplacement, TypeOK
    <2> QED BY <1>1, <2>3
  <1> QED BY <1>2, <1>3, <1>4, <1>5, <1>6, StepKinds
          DEF StepKind, FinishAdd, FinishReject, FinishAdjudicate, FinishResolve,
              FinishReview, FinishFeedback, Abort, Forget, EraseSubject, Prune

\* An ingestion that begins has one of the plans of its memory, and changes no row.
LEMMA BeganPlan ==
    ASSUME TypeOK, NEW v \in Workers, NEW n \in Memories, Begins(v, n)
    PROVE  /\ other'[v] = n /\ n \notin known
           /\ Candidates' = Candidates /\ UNCHANGED <<now, fact, rows>>
           /\ plan'[v] \in IF Keyed(n) THEN KeyedPlans(n) ELSE FreePlans(n)
BY DEF Begins, BeginAdd, BeginReplacement, Ingestible, TypeOK, rows, Candidates

\* What a plan closes is not later than the memory that is ingested, and what the
\* memory yields to is later; among facts with structured keys nothing of its own
\* time is closed, and it yields to another such fact.
Ordered(w) ==
    /\ \A m \in plan[w].closes : Time(m) <= Time(other[w])
    /\ plan[w].successor # None => Time(plan[w].successor) > Time(other[w])
    /\ Keyed(other[w]) =>
          /\ \A m \in plan[w].closes : Time(m) < Time(other[w])
          /\ plan[w].successor # None => Keyed(plan[w].successor)

OrderedInv == \A w \in Workers : Locked(w) => Ordered(w)

\* Every plan of the funnel is ordered.
LEMMA PlanIsOrdered ==
    ASSUME TypeOK, NEW n \in Memories,
           NEW p \in IF Keyed(n) THEN KeyedPlans(n) ELSE FreePlans(n)
    PROVE  /\ \A m \in p.closes : Time(m) <= Time(n)
           /\ p.successor # None => Time(p.successor) > Time(n)
           /\ Keyed(n) => /\ \A m \in p.closes : Time(m) < Time(n)
                          /\ p.successor # None => Keyed(p.successor)
  <1>1. Candidates \subseteq Memories
    BY DEF Candidates, TypeOK
  <1>2. CASE Keyed(n)
    <2>1. p.closes \subseteq Older(n) /\ p.successor \in Newer(n) \cup {None}
      BY <1>2 DEF KeyedPlans
    <2> QED BY <1>1, <1>2, <2>1, TimesAreNumbers DEF Older, Newer
  <1>3. CASE ~Keyed(n)
    BY <1>1, <1>3 DEF FreePlans
  <1> QED BY <1>2, <1>3

\* A plan stays ordered until it commits, for nobody changes what memories state.
LEMMA OrderedStep ==
    ASSUME TypeOK, OrderedInv, [Next]_vars
    PROVE  OrderedInv'
  <1> SUFFICES ASSUME NEW v \in Workers, Locked(v)' PROVE Ordered(v)'
    BY DEF OrderedInv
  <1>1. fact' = fact
    BY FactsStay
  <1>2. CASE Locked(v) /\ other'[v] = other[v] /\ plan'[v] = plan[v]
    BY <1>1, <1>2 DEF OrderedInv, Ordered, Time, Keyed
  <1>3. CASE \E n \in Memories : Begins(v, n)
    <2>1. PICK n \in Memories : Begins(v, n)
      BY <1>3
    <2>2. /\ other'[v] = n
          /\ plan'[v] \in IF Keyed(n) THEN KeyedPlans(n) ELSE FreePlans(n)
      BY <2>1, BeganPlan
    <2> QED BY <1>1, <2>2, PlanIsOrdered DEF Ordered, Time, Keyed
  <1> QED BY <1>2, <1>3, LockedMoves

\* What a commit of add_memory writes, row by row: a memory it closes ends where the new
\* one begins, the new one ends where its successor begins, and no other row changes.
LEMMA Ingested ==
    ASSUME Base, NEW w \in Workers, Locked(w), Ingest(w)
    PROVE  /\ known' = known \cup {other[w]} /\ other[w] \in Memories \ known
           /\ known \subseteq Memories /\ plan[w].closes \subseteq known
           /\ plan[w].conflicts \subseteq known
           /\ plan[w].successor \in known \cup {None}
           /\ UNCHANGED <<fact, now, erased>>
           /\ \A m \in plan[w].closes :
                 /\ until'[m] = Time(other[w]) /\ by'[m] = other[w]
                 /\ live'[m] = "none"
           /\ \A m \in known \ plan[w].closes :
                 until'[m] = until[m] /\ by'[m] = by[m] /\ live'[m] = live[m]
           /\ by'[other[w]] = plan[w].successor
           /\ plan[w].successor = None =>
                 until'[other[w]] = Open /\ live'[other[w]] = "content"
           /\ plan[w].successor # None =>
                 /\ until'[other[w]] = Time(plan[w].successor)
                 /\ live'[other[w]] = "none"
           /\ \A f \in Pairs :
                 flag'[f] = IF f[1] \in plan[w].conflicts /\ f[2] = other[w]
                            THEN "open" ELSE flag[f]
  <1> DEFINE n == other[w]
             p == plan[w]
  <1>1. /\ n \in Memories \ known /\ p.closes \subseteq known
        /\ p.conflicts \subseteq known
        /\ p.successor \in known \cup {None} /\ known \subseteq Memories
    BY DEF Base, WorkInv, Work, Planned, TypeOK
  <1>2. until[n] = Open /\ live[n] = "none"
    BY <1>1 DEF Base, FreshInv
  <1>3. /\ known' = known \cup {n} /\ until' = ValidTo(n, p)
        /\ by' = [m \in Memories |->
                     CASE m \in p.closes -> n
                       [] m = n -> p.successor
                       [] OTHER -> by[m]]
        /\ live' = [m \in Memories |->
                       CASE m \in p.closes -> "none"
                         [] m = n /\ p.successor = None -> "content"
                         [] OTHER -> live[m]]
        /\ flag' = [f \in Pairs |->
                       IF f[1] \in p.conflicts /\ f[2] = n THEN "open" ELSE flag[f]]
        /\ UNCHANGED <<now, fact, erased>>
    BY DEF Ingest
  <1>4. \A m \in p.closes : until'[m] = Time(n) /\ by'[m] = n /\ live'[m] = "none"
    BY <1>1, <1>3 DEF ValidTo
  <1>5. \A m \in known \ p.closes :
           until'[m] = until[m] /\ by'[m] = by[m] /\ live'[m] = live[m]
    BY <1>1, <1>3 DEF ValidTo
  <1>6. /\ by'[n] = p.successor
        /\ p.successor = None => until'[n] = Open /\ live'[n] = "content"
        /\ p.successor # None => until'[n] = Time(p.successor) /\ live'[n] = "none"
    BY <1>1, <1>2, <1>3 DEF ValidTo
  <1> QED BY <1>1, <1>3, <1>4, <1>5, <1>6

-----------------------------------------------------------------------------
(* Conflicts.                                                              *)

\* The candidates that contradict the memory being ingested, in the plan to flag them.
Contested(w) ==
    \A m \in Candidates :
        /\ Keyed(m) /\ Time(m) = Time(other[w])
        /\ fact[m].value # fact[other[w]].value
        => m \in plan[w].conflicts

ContestedInv == \A w \in Workers : Locked(w) /\ Keyed(other[w]) => Contested(w)

\* _keyed_supersession reports no conflict when an older value changes; but then no
\* candidate is of the time of the new memory, for all live facts are of one time.
LEMMA PlanFlags ==
    ASSUME TypeOK, LiveMatchesLog, LiveAgree, SingleVariant,
           NEW n \in Memories, Keyed(n), NEW p \in KeyedPlans(n),
           NEW m \in Candidates, Keyed(m), Time(m) = Time(n),
           fact[m].value # fact[n].value
    PROVE  m \in p.conflicts
  <1>1. Candidates \subseteq Memories /\ Candidates \subseteq known
    BY DEF TypeOK, Candidates
  <1>2. m \in Clash(n)
    BY DEF Clash
  <1>3. Changed(n) = {}
    <2> SUFFICES ASSUME NEW c \in Changed(n) PROVE FALSE
      OBVIOUS
    <2>1. c \in Candidates /\ Keyed(c) /\ Time(c) < Time(n)
      BY DEF Changed, Older
    <2>2. live[c] # "none" /\ live[m] # "none"
      BY <2>1, CandidatesAreLive
    <2>3. fact[c].variant = fact[m].variant
      BY <1>1, <2>1, TimesAreNumbers DEF SingleVariant
    <2>4. Time(c) = Time(m)
      BY <1>1, <2>1, <2>2, <2>3 DEF LiveAgree
    <2> QED BY <1>1, <2>1, <2>4, TimesAreNumbers
  <1> QED BY <1>2, <1>3 DEF KeyedPlans

\* The candidates that contradict an ingestion stay in its plan until it commits.
LEMMA ContestedStep ==
    ASSUME Base, Base', AgreeInv, ContestedInv, [Next]_vars,
           NothingReopens, SingleVariant
    PROVE  ContestedInv'
  <1> SUFFICES ASSUME NEW v \in Workers, Locked(v)', Keyed(other[v])'
               PROVE  Contested(v)'
    BY DEF ContestedInv
  <1> TypeOK
    BY DEF Base
  <1>1. fact' = fact
    BY FactsStay
  <1>2. CASE Locked(v) /\ other'[v] = other[v] /\ plan'[v] = plan[v]
    <2>1. Candidates' \subseteq Candidates
      BY <1>2, CandidatesShrink DEF AgreeInv
    <2>2. Contested(v)
      BY <1>1, <1>2 DEF ContestedInv, Keyed
    <2> QED BY <1>1, <1>2, <2>1, <2>2 DEF Contested, Keyed, Time
  <1>3. CASE \E n \in Memories : Begins(v, n)
    <2>1. PICK n \in Memories : Begins(v, n)
      BY <1>3
    <2>2. /\ other'[v] = n /\ Candidates' = Candidates
          /\ plan'[v] \in IF Keyed(n) THEN KeyedPlans(n) ELSE FreePlans(n)
      BY <2>1, BeganPlan
    <2>3. Keyed(n)
      BY <1>1, <2>2 DEF Keyed
    <2>4. plan'[v] \in KeyedPlans(n)
      BY <2>2, <2>3
    <2> QED BY <1>1, <2>2, <2>3, <2>4, PlanFlags
            DEF Contested, AgreeInv, ExactInv, Keyed, Time
  <1> QED BY <1>2, <1>3, LockedMoves

\* A conflict that was flagged stays on record, decided or not.
LEMMA FlagsStay ==
    ASSUME Base, [Next]_vars, NEW f \in Pairs, flag[f] # "none"
    PROVE  flag'[f] # "none"
  <1> TypeOK
    BY DEF Base
  <1>1. CASE \E w \in Workers : FinishAdd(w) \/ FinishReplacement(w)
    BY <1>1 DEF FinishAdd, FinishReplacement, Ingest
  <1>2. CASE \E w \in Workers : FinishResolve(w)
    BY <1>2 DEF FinishResolve, TypeOK, Resolved
  <1>3. CASE flag' = flag
    BY <1>3
  <1> QED BY <1>1, <1>2, <1>3
          DEF Next, Tick, Forget, EraseSubject, Prune, DropAdjudication, BeginAdd,
              BeginReject, BeginFeedback, BeginReplacement, BeginAdjudicate,
              BeginResolve, BeginReview, Take, FinishReject, FinishAdjudicate,
              FinishFeedback, FinishReview, Abort, vars

\* Where nothing is reopened a memory becomes live only as the one that is ingested.
LEMMA LiveShrinks ==
    ASSUME Base, ReopenInv, [Next]_vars, NothingReopens,
           ~ \E w \in Workers : FinishAdd(w) \/ FinishReplacement(w)
    PROVE  known' = known /\ \A m \in known : live'[m] # "none" => live[m] # "none"
  <1> TypeOK
    BY DEF Base
  <1>1. CASE \E w \in Workers : FinishReject(w) \/ FinishAdjudicate(w)
    BY <1>1 DEF FinishReject, FinishAdjudicate, ReopenInv, NothingReopens
  <1>2. CASE \E w \in Workers : FinishResolve(w) \/ FinishReview(w)
    BY <1>2 DEF FinishResolve, FinishReview, TypeOK
  <1>3. CASE \E m \in Memories : Forget(m) \/ EraseSubject(m) \/ Prune(m)
    BY <1>3 DEF Forget, EraseSubject, Prune, TypeOK
  <1>4. CASE UNCHANGED <<known, live>>
    BY <1>4
  <1>5. (\E w \in Workers, m, n \in Memories : Deciding(w, m, n))
           => UNCHANGED <<known, live>>
    BY DecidingMoves DEF rows
  <1> QED BY <1>1, <1>2, <1>3, <1>4, <1>5, StepKinds
          DEF StepKind, BeginAdd, BeginReplacement, FinishFeedback, Abort, rows

\* A memory that is ingested beside a live one that contradicts it flags it.
LEMMA FlaggedStep ==
    ASSUME Base, Base', AgreeInv, ContestedInv, ConflictsFlagged, [Next]_vars,
           NothingReopens, SingleVariant
    PROVE  ConflictsFlagged'
  <1> TypeOK
    BY DEF Base
  <1>1. fact' = fact
    BY FactsStay
  <1>2. \A f \in Pairs : flag[f] # "none" => flag'[f] # "none"
    BY FlagsStay
  <1>3. CASE ~ \E w \in Workers : FinishAdd(w) \/ FinishReplacement(w)
    <2>1. known' = known /\ \A m \in known : live'[m] # "none" => live[m] # "none"
      BY <1>3, LiveShrinks DEF AgreeInv, ExactInv
    <2>2. known \X known \subseteq Pairs
      BY DEF TypeOK, Pairs
    <2> QED BY <1>1, <1>2, <2>1, <2>2 DEF ConflictsFlagged, Keyed, Time
  <1>4. CASE \E w \in Workers : FinishAdd(w) \/ FinishReplacement(w)
    <2>1. PICK w \in Workers : Locked(w) /\ Ingest(w)
      BY <1>4 DEF FinishAdd, FinishReplacement, Locked
    <2> DEFINE n == other[w]
               p == plan[w]
    <2>2. /\ known' = known \cup {n} /\ n \in Memories \ known
          /\ known \subseteq Memories
          /\ \A m \in known : live'[m] # "none" => m \notin p.closes /\ live[m] # "none"
          /\ \A m \in p.conflicts : <<m, n>> \in Pairs => flag'[<<m, n>>] = "open"
      BY <2>1, Ingested
    <2>3. ASSUME NEW m \in known, live'[m] # "none", Keyed(m), Keyed(n),
                 Time(m) = Time(n), fact[m].value # fact[n].value
          PROVE  flag'[<<m, n>>] # "none"
      <3>1. m \in Candidates
        BY <2>2, <2>3, CandidatesAreLive DEF AgreeInv, ExactInv
      <3>2. m \in p.conflicts
        BY <2>1, <2>3, <3>1 DEF ContestedInv, Contested
      <3>3. <<m, n>> \in Pairs
        BY <2>2 DEF Pairs
      <3> QED BY <2>2, <3>2, <3>3
    <2>4. ASSUME NEW m \in known, NEW x \in known, live'[m] # "none", live'[x] # "none",
                 Keyed(m), Keyed(x), Time(m) = Time(x), fact[m].value # fact[x].value
          PROVE  flag'[<<m, x>>] # "none" \/ flag'[<<x, m>>] # "none"
      <3>1. live[m] # "none" /\ live[x] # "none"
        BY <2>2, <2>4
      <3>2. <<m, x>> \in Pairs /\ <<x, m>> \in Pairs
        BY <2>2 DEF Pairs
      <3> QED BY <1>2, <2>4, <3>1, <3>2 DEF ConflictsFlagged
    <2>5. SUFFICES ASSUME NEW a \in known', NEW b \in known',
                          live'[a] # "none", live'[b] # "none", Keyed(a), Keyed(b),
                          Time(a) = Time(b), fact[a].value # fact[b].value
                   PROVE  flag'[<<a, b>>] # "none" \/ flag'[<<b, a>>] # "none"
      BY <1>1 DEF ConflictsFlagged, Keyed, Time
    <2> QED BY <2>2, <2>3, <2>4, <2>5
  <1> QED BY <1>3, <1>4

\* Two values live for the same keys at the same time were flagged, whatever was
\* resolved, reviewed or erased around their ingestion: where nothing is reopened and
\* the facts of the same keys differ in nothing else.
THEOREM ConflictsAreFlagged ==
    ASSUME NothingReopens, SingleVariant
    PROVE  Spec => []ConflictsFlagged
  <1> DEFINE Inv == AgreeInv /\ ContestedInv /\ ConflictsFlagged
  <1>1. Init => Inv
    BY DEF Init, AgreeInv, ExactInv, LiveMatchesLog, ReplacedInv, ReopenInv,
           LiveAgree, CoverInv, ContestedInv, ConflictsFlagged, Locked
  <1>2. Base /\ Base' /\ Inv /\ [Next]_vars => Inv'
    BY ExactStep, AgreeStep, CoverStep, ContestedStep, FlaggedStep DEF AgreeInv
  <1>3. Inv => ConflictsFlagged
    OBVIOUS
  <1> HIDE DEF Inv
  <1> QED BY <1>1, <1>2, <1>3, BaseInvariant, PTL DEF Spec

-----------------------------------------------------------------------------
(* The newest statement.                                                   *)

\* Nothing is closed by decision or erased, and every fact has structured keys.
OnlyAdds == Ops \subseteq {"add", "feedback"}

AddsInv ==
    \A w \in Workers :
        op[w] \in {"idle", "add", "feedback"} /\ (op[w] = "add" => Keyed(other[w]))

\* Every statement is as old as a live one, or older.
Dominated ==
    \A m \in known : Keyed(m) =>
        \E k \in known : Keyed(k) /\ live[k] # "none" /\ Time(m) <= Time(k)

LatestInv == LiveIsLatest /\ Dominated

\* Where facts are only added, nothing but their ingestion changes what is live.
LEMMA AddsStep ==
    ASSUME Base, AddsInv, [Next]_vars, OnlyAdds
    PROVE  /\ AddsInv'
           /\ \/ UNCHANGED <<known, live>>
              \/ \E w \in Workers : op[w] = "add" /\ Locked(w) /\ Ingest(w)
  <1> TypeOK
    BY DEF Base
  <1>1. fact' = fact
    BY FactsStay
  <1> DEFINE Kept == UNCHANGED <<known, live>>
             Fine(v) == /\ op'[v] \in {"idle", "add", "feedback"}
                        /\ op'[v] = "add" => Keyed(other'[v])
             AllFine == \A v \in Workers : Fine(v)
  <1>2. \A v \in Workers : op'[v] = op[v] /\ other'[v] = other[v] => Fine(v)
    BY DEF AddsInv
  <1>3. \A v \in Workers :
           \/ op'[v] = "idle" \/ op'[v] = "feedback"
           \/ Keyed(other'[v]) /\ op'[v] = "add"
           => Fine(v)
    OBVIOUS
  <1> AllFine => AddsInv'
    BY <1>1 DEF AddsInv, Keyed
  <1> HIDE DEF Fine
  <1>4. ASSUME UNCHANGED task
        PROVE  AllFine
    BY <1>2, <1>4 DEF task
  <1>5. ASSUME NEW w \in Workers, NEW n \in Memories, BeginAdd(w, n)
        PROVE  Kept /\ AllFine
    <2>1. Keyed(n)
      BY <1>5 DEF BeginAdd, OnlyAdds
    <2>2. Kept /\ op'[w] = "add" /\ other'[w] = n
      BY <1>5 DEF BeginAdd, TypeOK, rows
    <2>3. \A v \in Workers \ {w} : op'[v] = op[v] /\ other'[v] = other[v]
      BY <1>5 DEF BeginAdd, TypeOK
    <2>4. Fine(w)
      BY <1>3, <2>1, <2>2
    <2> QED BY <1>2, <2>2, <2>3, <2>4
  <1>6. ASSUME NEW w \in Workers, NEW n \in Memories, BeginFeedback(w, n)
        PROVE  Kept /\ AllFine
    <2>1. Kept /\ op'[w] = "feedback"
      BY <1>6 DEF BeginFeedback, Take, TypeOK, rows
    <2>2. \A v \in Workers \ {w} : op'[v] = op[v] /\ other'[v] = other[v]
      BY <1>6 DEF BeginFeedback, Take, TypeOK
    <2>3. Fine(w)
      BY <1>3, <2>1
    <2> QED BY <1>2, <2>1, <2>2, <2>3
  <1>7. ASSUME NEW w \in Workers, Release(w)
        PROVE  AllFine
    <2>1. op'[w] = "idle"
      BY <1>7 DEF Release, TypeOK
    <2>2. \A v \in Workers \ {w} : op'[v] = op[v] /\ other'[v] = other[v]
      BY <1>7 DEF Release, TypeOK
    <2>3. Fine(w)
      BY <1>3, <2>1
    <2> QED BY <1>2, <2>1, <2>2, <2>3
  <1>8. CASE \E w \in Workers : FinishFeedback(w) \/ Abort(w)
    <2>1. PICK w \in Workers : FinishFeedback(w) \/ Abort(w)
      BY <1>8
    <2>2. Release(w) /\ Kept
      BY <2>1 DEF FinishFeedback, Abort, rows
    <2> QED BY <1>7, <2>2
  <1>9. CASE \E w \in Workers : FinishAdd(w)
    <2>1. PICK w \in Workers : FinishAdd(w)
      BY <1>9
    <2>2. Release(w) /\ op[w] = "add" /\ Locked(w) /\ Ingest(w)
      BY <2>1 DEF FinishAdd, Locked
    <2> QED BY <1>7, <2>2
  <1>10. \A w \in Workers :
            /\ op[w] \notin {"reject", "adjudicate", "replace", "replacing", "keep",
                             "retire", "replaced"}
            /\ op[w] \notin Resolved
    BY DEF AddsInv, Resolved
  <1> QED BY <1>1, <1>4, <1>5, <1>6, <1>8, <1>9, <1>10
          DEF Next, vars, rows, task, OnlyAdds, Tick, Forget,
              EraseSubject, Prune, DropAdjudication, BeginReject, BeginReplacement,
              BeginAdjudicate, BeginResolve, BeginReview, FinishReject,
              FinishAdjudicate, FinishResolve, FinishReplacement, FinishReview

\* The commit of a late arrival leaves the newest live, that of a new value replaces
\* it, that of an equal one joins it.
LEMMA LatestIngest ==
    ASSUME Base, AgreeInv, OrderedInv, LatestInv,
           NEW w \in Workers, Locked(w), Ingest(w), Keyed(other[w])
    PROVE  LatestInv'
  <1> TypeOK
    BY DEF Base
  <1> DEFINE n == other[w]
             p == plan[w]
  <1>1. /\ known' = known \cup {n} /\ n \in Memories \ known
        /\ known \subseteq Memories /\ p.closes \subseteq known
        /\ p.successor \in known \cup {None} /\ fact' = fact
        /\ \A m \in p.closes : live'[m] = "none"
        /\ \A m \in known \ p.closes : live'[m] = live[m]
        /\ p.successor = None => live'[n] # "none"
        /\ p.successor # None => live'[n] = "none"
    BY Ingested
  <1>2. \A m \in known \cup {n} : Time(m) \in Nat
    BY <1>1, TimesAreNumbers
  <1>3. /\ \A m \in p.closes : Time(m) < Time(n)
        /\ p.successor # None => Keyed(p.successor) /\ Time(p.successor) > Time(n)
    BY DEF OrderedInv, Ordered
  <1>4. \A m \in known : live[m] # "none" /\ Keyed(m) =>
           /\ Time(m) < Time(n) => m \in p.closes
           /\ Time(m) > Time(n) => p.successor # None
    BY CandidatesAreLive DEF AgreeInv, ExactInv, CoverInv, Covers
  <1> DEFINE Newest(m) == \A x \in known : Keyed(x) => Time(x) <= Time(m)
  <1>5. \A m \in known : Keyed(m) => (live[m] # "none" <=> Newest(m))
    BY DEF LatestInv, LiveIsLatest
  <1>6. \A m \in known : Keyed(m) =>
           \E k \in known : Keyed(k) /\ live[k] # "none" /\ Time(m) <= Time(k)
    BY DEF LatestInv, Dominated
  <1> HIDE DEF n, p
  <1>7. CASE p.successor = None
    <2>1. \A x \in known : Keyed(x) => Time(x) <= Time(n)
      <3> SUFFICES ASSUME NEW x \in known, Keyed(x), Time(x) > Time(n) PROVE FALSE
        BY <1>1, <1>2
      <3>1. PICK k \in known : Keyed(k) /\ live[k] # "none" /\ Time(x) <= Time(k)
        BY <1>6
      <3>2. Time(k) > Time(n)
        BY <1>1, <1>2, <3>1
      <3> QED BY <1>4, <1>7, <3>1, <3>2
    <2>2. ASSUME NEW m \in known, Keyed(m)
          PROVE  live'[m] # "none" <=> Newest(m) /\ Time(n) <= Time(m)
      <3>1. CASE live[m] = "none"
        BY <1>1, <1>5, <2>2, <3>1
      <3>2. CASE live[m] # "none" /\ m \in p.closes
        BY <1>1, <1>2, <1>3, <3>2
      <3>3. CASE live[m] # "none" /\ m \notin p.closes
        BY <1>1, <1>2, <1>4, <1>5, <2>2, <3>3
      <3> QED BY <3>1, <3>2, <3>3
    <2>3. LiveIsLatest'
      <3> SUFFICES ASSUME NEW m \in known', Keyed(m)
                   PROVE  live'[m] # "none"
                            <=> \A x \in known' : Keyed(x) => Time(x) <= Time(m)
        BY <1>1 DEF LiveIsLatest, Keyed, Time
      <3>1. CASE m = n
        BY <1>1, <1>2, <1>7, <2>1, <3>1
      <3>2. CASE m \in known
        BY <1>1, <2>2, <3>2 DEF n
      <3> QED BY <1>1, <3>1, <3>2
    <2>4. Keyed(n) /\ live'[n] # "none"
      BY <1>1, <1>7 DEF n
    <2>5. Dominated'
      BY <1>1, <1>2, <2>1, <2>4 DEF Dominated, Keyed, Time
    <2> QED BY <2>3, <2>5 DEF LatestInv
  <1>8. CASE p.successor # None
    <2> DEFINE s == p.successor
    <2>1. s \in known /\ Keyed(s) /\ Time(s) > Time(n)
      BY <1>1, <1>3, <1>8
    <2> HIDE DEF s
    <2>2. \A m \in known : Newest(m) => Time(m) > Time(n) /\ m \notin p.closes
      BY <1>1, <1>2, <1>3, <2>1
    <2>3. ASSUME NEW m \in known, Keyed(m)
          PROVE  live'[m] # "none" <=> live[m] # "none"
      BY <1>1, <1>5, <2>2, <2>3
    <2>4. LiveIsLatest'
      <3> SUFFICES ASSUME NEW m \in known', Keyed(m)
                   PROVE  live'[m] # "none"
                            <=> \A x \in known' : Keyed(x) => Time(x) <= Time(m)
        BY <1>1 DEF LiveIsLatest, Keyed, Time
      <3>1. CASE m = n
        BY <1>1, <1>2, <1>8, <2>1, <3>1
      <3>2. CASE m \in known
        BY <1>1, <1>2, <1>5, <2>2, <2>3, <3>2
      <3> QED BY <1>1, <3>1, <3>2
    <2>5. Dominated'
      <3> SUFFICES ASSUME NEW m \in known', Keyed(m)
                   PROVE  \E k \in known' :
                             Keyed(k) /\ live'[k] # "none" /\ Time(m) <= Time(k)
        BY <1>1 DEF Dominated, Keyed, Time
      <3> DEFINE y == IF m = n THEN s ELSE m
      <3>1. y \in known /\ Keyed(y) /\ Time(m) <= Time(y)
        BY <1>1, <1>2, <2>1
      <3>2. PICK k \in known : Keyed(k) /\ live[k] # "none" /\ Time(y) <= Time(k)
        BY <1>6, <3>1
      <3>3. live'[k] # "none" /\ k \in known'
        BY <1>1, <2>3, <3>2
      <3>4. Time(m) <= Time(k)
        BY <1>1, <1>2, <3>1, <3>2
      <3> QED BY <3>2, <3>3, <3>4
    <2> QED BY <2>4, <2>5 DEF LatestInv
  <1> QED BY <1>7, <1>8

\* Where facts are only added, and those of the same keys differ in nothing else, what
\* is live is exactly what was stated last, in whatever order the statements arrive
\* and by however many requests at once.
THEOREM NewestIsLive ==
    ASSUME OnlyAdds, SingleVariant
    PROVE  Spec => []LiveIsLatest
  <1> DEFINE Inv == AgreeInv /\ OrderedInv /\ AddsInv /\ LatestInv
  <1>1. Init => Inv
    BY DEF Init, AgreeInv, ExactInv, LiveMatchesLog, ReplacedInv, ReopenInv,
           LiveAgree, CoverInv, OrderedInv, AddsInv, LatestInv, LiveIsLatest,
           Dominated, Locked
  <1>2. Base /\ Base' /\ Inv /\ [Next]_vars => Inv'
    <2> SUFFICES ASSUME Base, Base', Inv, [Next]_vars PROVE Inv'
      OBVIOUS
    <2>1. NothingReopens /\ TypeOK
      BY DEF OnlyAdds, NothingReopens, Base
    <2>2. AgreeInv' /\ OrderedInv'
      BY <2>1, ExactStep, AgreeStep, CoverStep, OrderedStep DEF AgreeInv
    <2>3. ASSUME UNCHANGED <<known, live>>
          PROVE  LatestInv'
      <3>1. fact' = fact
        BY <2>1, FactsStay
      <3> QED BY <2>3, <3>1 DEF LatestInv, LiveIsLatest, Dominated, Keyed, Time
    <2>4. ASSUME NEW w \in Workers, op[w] = "add", Locked(w), Ingest(w)
          PROVE  LatestInv'
      BY <2>4, LatestIngest DEF AddsInv
    <2>5. LatestInv' /\ AddsInv'
      BY <2>3, <2>4, AddsStep
    <2> QED BY <2>2, <2>5
  <1>3. Inv => LiveIsLatest
    BY DEF LatestInv
  <1> HIDE DEF Inv
  <1> QED BY <1>1, <1>2, <1>3, BaseInvariant, PTL DEF Spec

-----------------------------------------------------------------------------
(* The history.                                                            *)

Reviewing == {"keep", "retire", "replace", "replacing", "replaced"}

\* A worker does only what takes place.
Sanctioned ==
    \A w \in Workers :
        /\ op[w] \in {"reject", "adjudicate"} => op[w] \in Ops
        /\ op[w] \in Resolved => "resolve" \in Ops
        /\ op[w] \in Reviewing => "review" \in Ops

\* A worker takes up only operations that take place, and goes on with no other.
LEMMA SanctionedStep ==
    ASSUME TypeOK, Sanctioned, [Next]_vars
    PROVE  Sanctioned'
  <1> DEFINE Fine(v, o) == /\ o \in {"reject", "adjudicate"} => o \in Ops
                           /\ o \in Resolved => "resolve" \in Ops
                           /\ o \in Reviewing => "review" \in Ops
  <1> SUFFICES ASSUME NEW v \in Workers PROVE Fine(v, op'[v])
    BY DEF Sanctioned
  <1>1. Fine(v, op[v])
    BY DEF Sanctioned
  <1>2. op'[v] = op[v] => Fine(v, op'[v])
    BY <1>1
  <1>3. op'[v] \in {"idle", "add", "feedback"} => Fine(v, op'[v])
    BY DEF Resolved, Reviewing
  <1>4. ASSUME NEW w \in Workers, NEW m \in Memories, NEW n \in Memories,
               Deciding(w, m, n)
        PROVE  Fine(v, op'[v])
    <2>1. CASE v # w
      BY <1>2, <1>4, <2>1, DecidingMoves
    <2>2. CASE v = w
      BY <1>4, <2>2 DEF Deciding, BeginReject, BeginFeedback, BeginAdjudicate,
                        BeginResolve, BeginReview, Take, TypeOK, Resolved, Reviewing
    <2> QED BY <2>1, <2>2
  <1>5. ASSUME NEW w \in Workers, NEW n \in Memories, Begins(w, n)
        PROVE  Fine(v, op'[v])
    <2>1. \/ op'[v] = op[v] \/ op'[v] = "add"
          \/ op[v] = "replace" /\ op'[v] = "replacing"
      BY <1>5 DEF Begins, BeginAdd, BeginReplacement, TypeOK
    <2> QED BY <1>1, <1>2, <1>3, <2>1 DEF Resolved, Reviewing
  <1>6. ASSUME NEW w \in Workers, Release(w)
        PROVE  Fine(v, op'[v])
    <2>1. op'[v] = op[v] \/ op'[v] = "idle"
      BY <1>6 DEF Release, TypeOK
    <2> QED BY <1>2, <1>3, <2>1
  <1>7. ASSUME NEW w \in Workers, FinishReplacement(w)
        PROVE  Fine(v, op'[v])
    <2>1. op'[v] = op[v] \/ (op[v] = "replacing" /\ op'[v] = "replaced")
      BY <1>7 DEF FinishReplacement, TypeOK
    <2> QED BY <1>1, <1>2, <2>1 DEF Resolved, Reviewing
  <1>8. UNCHANGED task => Fine(v, op'[v])
    BY <1>2 DEF task
  <1> HIDE DEF Fine
  <1> QED BY <1>4, <1>5, <1>6, <1>7, <1>8, StepKinds
          DEF StepKind, Begins, FinishAdd, FinishReject, FinishAdjudicate,
              FinishResolve, FinishReview, FinishFeedback, Abort, Forget,
              EraseSubject, Prune

\* Nobody decides about a memory: what ends its window is a later ingestion.
NothingDecided == Ops \cap {"reject", "adjudicate", "resolve", "review"} = {}

\* Where nothing is decided, a window moves only as its memory is erased or by an
\* ingestion, and not at all while another ingestion holds the lock.
LEMMA WindowsStay ==
    ASSUME Base, Sanctioned, [Next]_vars, NothingDecided,
           ~ \E w \in Workers : FinishAdd(w) \/ FinishReplacement(w)
    PROVE  /\ known' = known
           /\ \A m \in known : erased'[m] = "no" => erased[m] = "no"
                                                     /\ until'[m] = until[m]
           /\ lock # None => until' = until
  <1> TypeOK
    BY DEF Base
  <1>1. CASE \E m \in Memories : Forget(m) \/ EraseSubject(m) \/ Prune(m)
    <2>1. PICK m \in Memories : Forget(m) \/ EraseSubject(m) \/ Prune(m)
      BY <1>1
    <2>2. /\ known' = known /\ erased'[m] # "no"
          /\ \A x \in Memories \ {m} : erased'[x] = erased[x] /\ until'[x] = until[x]
      BY <2>1 DEF Forget, EraseSubject, Prune, TypeOK
    <2>3. lock # None => until' = until
      BY <2>1 DEF Forget, EraseSubject, Prune
    <2> QED BY <2>2, <2>3 DEF TypeOK
  <1>2. CASE UNCHANGED <<known, until, erased>>
    BY <1>2
  <1>3. (\E w \in Workers, m, n \in Memories : Deciding(w, m, n))
           => UNCHANGED <<known, until, erased>>
    BY DecidingMoves DEF rows
  <1>4. \A w \in Workers : ~ (FinishReject(w) \/ FinishAdjudicate(w)
                                \/ FinishResolve(w) \/ FinishReview(w))
    BY DEF FinishReject, FinishAdjudicate, FinishResolve, FinishReview, Sanctioned,
           NothingDecided, Reviewing
  <1> QED BY <1>1, <1>2, <1>3, <1>4, StepKinds
          DEF StepKind, BeginAdd, BeginReplacement, FinishFeedback, Abort, rows

\* What the holder of the lock closes is open, and what its memory yields to is the
\* earliest of the later candidates.
Sharp(w) ==
    /\ \A m \in plan[w].closes : until[m] = Open
    /\ Keyed(other[w]) /\ plan[w].successor # None =>
          \A m \in Candidates : Keyed(m) /\ Time(m) > Time(other[w])
             => Time(plan[w].successor) <= Time(m)

SharpInv == \A w \in Workers : Locked(w) => Sharp(w)

\* The windows that a plan refers to stay as they are until it commits.
LEMMA SharpStep ==
    ASSUME Base, Base', ExactInv, Sanctioned, SharpInv, [Next]_vars,
           NothingDecided, SingleVariant
    PROVE  SharpInv'
  <1> SUFFICES ASSUME NEW v \in Workers, Locked(v)' PROVE Sharp(v)'
    BY DEF SharpInv
  <1> TypeOK
    BY DEF Base
  <1>1. fact' = fact
    BY FactsStay
  <1>2. CASE Locked(v) /\ other'[v] = other[v] /\ plan'[v] = plan[v]
    <2>1. Candidates' \subseteq Candidates
      BY <1>2, CandidatesShrink DEF NothingDecided, NothingReopens
    <2>2. until' = until
      <3>1. ~ \E w \in Workers : FinishAdd(w) \/ FinishReplacement(w)
        <4> SUFFICES ASSUME NEW w \in Workers, FinishAdd(w) \/ FinishReplacement(w)
                     PROVE  FALSE
          OBVIOUS
        <4>1. Locked(w)
          BY DEF FinishAdd, FinishReplacement, Locked
        <4>2. w = v
          BY <1>2, <4>1, OneHolder
        <4> QED BY <4>2 DEF FinishAdd, FinishReplacement, Release, Locked, TypeOK
      <3>2. lock # None
        BY <1>2, ConstantsAssumption DEF Base, WorkInv, Work, Planned
      <3> QED BY <3>1, <3>2, WindowsStay
    <2>3. Sharp(v)
      BY <1>2 DEF SharpInv
    <2> QED BY <1>1, <1>2, <2>1, <2>2, <2>3 DEF Sharp, Keyed, Time
  <1>3. CASE \E n \in Memories : Begins(v, n)
    <2>1. PICK n \in Memories : Begins(v, n)
      BY <1>3
    <2> DEFINE p == plan'[v]
    <2>2. /\ other'[v] = n /\ Candidates' = Candidates /\ until' = until
          /\ p \in IF Keyed(n) THEN KeyedPlans(n) ELSE FreePlans(n)
      BY <2>1, BeganPlan DEF rows
    <2> HIDE DEF p
    <2>3. \A m \in p.closes : until[m] = Open
      BY <2>2, PlanIsKnown DEF Candidates
    <2>4. ASSUME Keyed(n), p.successor # None, NEW m \in Candidates, Keyed(m),
                 Time(m) > Time(n)
          PROVE  Time(p.successor) <= Time(m)
      <3>1. m \in Memories
        BY DEF Candidates, TypeOK
      <3>2. m \in Newer(n)
        BY <2>4, <3>1, TimesAreNumbers DEF Newer, SingleVariant
      <3> QED BY <2>2, <2>4, <3>2 DEF KeyedPlans
    <2> QED BY <1>1, <2>2, <2>3, <2>4 DEF p, Sharp, Keyed, Time
  <1> QED BY <1>2, <1>3, LockedMoves

\* The commit of an ingestion that is not late: the windows it ends and the one it
\* begins do not meet.
LEMMA AsOfIngest ==
    ASSUME Base, AgreeInv, SharpInv, AsOfAgree,
           NEW w \in Workers, Locked(w), Ingest(w),
           ~ \E x \in known' \ known : Late(x)
    PROVE  AsOfAgree'
  <1> TypeOK
    BY DEF Base
  <1> DEFINE n == other[w]
             p == plan[w]
  <1>1. /\ known' = known \cup {n} /\ n \in Memories \ known
        /\ known \subseteq Memories /\ p.closes \subseteq known
        /\ p.successor \in known \cup {None} /\ fact' = fact /\ erased' = erased
        /\ \A m \in p.closes : until'[m] = Time(n)
        /\ \A m \in known \ p.closes : until'[m] = until[m]
        /\ p.successor # None => until'[n] = Time(p.successor)
    BY Ingested
  <1>2. /\ \A m \in known : Time(m) \in Nat /\ Time(m) # Open
        /\ Time(n) \in Nat /\ Time(n) # Open
    BY <1>1, TimesAreNumbers, TimesAreClosed DEF TypeOK, Facts, Time
  <1>3. /\ \A m \in known : until[m] \in Nat
        /\ \A t \in Times : t \in Nat
    BY <1>1, ConstantsAssumption DEF TypeOK, Times, Open
  <1>4. \A m \in p.closes : until[m] = Open
    BY DEF SharpInv, Sharp
  <1>5. ~ Late(n)
    BY <1>1
  <1>6. Keyed(n) => \A m \in Candidates : Keyed(m) =>
           /\ Time(m) < Time(n) => m \in p.closes
           /\ Time(m) > Time(n) =>
                 p.successor # None /\ Time(p.successor) <= Time(m)
    BY DEF AgreeInv, CoverInv, Covers, SharpInv, Sharp
  <1> HIDE DEF n, p
  <1> DEFINE Seen(m, t) == /\ erased[m] = "no" /\ Time(m) <= t
                           /\ until'[m] = Open \/ until'[m] > t
  <1>7. ASSUME NEW t \in Times, NEW m \in known, Seen(m, t)
        PROVE  m \in AsOf(t)
    BY <1>1, <1>4, <1>7 DEF AsOf
  <1>8. ASSUME NEW t \in Times, NEW m \in known, Seen(m, t), Seen(n, t),
               Keyed(m), Keyed(n), fact[m].variant = fact[n].variant
        PROVE  Time(m) = Time(n)
    <2>1. CASE m \in p.closes
      BY <1>1, <1>2, <1>3, <1>8, <2>1
    <2>2. CASE m \notin p.closes /\ until[m] # Open
      <3>1. ~ (until[m] > Time(n))
        BY <1>5, <1>8, <2>2 DEF Late
      <3> QED BY <1>1, <1>2, <1>3, <1>8, <2>2, <3>1
    <2>3. CASE m \notin p.closes /\ until[m] = Open
      <3>1. m \in Candidates
        BY <1>8, <2>3 DEF Candidates
      <3>2. ~ (Time(m) < Time(n))
        BY <1>6, <1>8, <2>3, <3>1
      <3>3. ~ (Time(m) > Time(n))
        <4> SUFFICES ASSUME Time(m) > Time(n) PROVE FALSE
          OBVIOUS
        <4>1. p.successor # None /\ Time(p.successor) <= Time(m)
          BY <1>6, <1>8, <3>1
        <4>2. until'[n] = Time(p.successor) /\ p.successor \in known
          BY <1>1, <4>1
        <4>3. until'[n] \in Nat /\ until'[n] # Open /\ until'[n] <= Time(m)
          BY <1>2, <4>1, <4>2
        <4> QED BY <1>2, <1>3, <1>8, <4>3
      <3> QED BY <1>1, <1>2, <3>2, <3>3
    <2> QED BY <2>1, <2>2, <2>3
  <1>9. SUFFICES ASSUME NEW t \in Times, NEW a \in known', NEW b \in known',
                        Seen(a, t), Seen(b, t), Keyed(a), Keyed(b),
                        fact[a].variant = fact[b].variant
                 PROVE  Time(a) = Time(b)
    BY <1>1 DEF AsOfAgree, AsOf, Keyed, Time
  <1>10. CASE a \in known /\ b \in known
    BY <1>7, <1>9, <1>10 DEF AsOfAgree
  <1>11. CASE a = n \/ b = n
    BY <1>1, <1>8, <1>9, <1>11
  <1> QED BY <1>1, <1>10, <1>11

\* Where nothing is decided and the facts of the same keys differ in nothing else: windows
\* of different event times that do not overlap still do not after whatever is ingested,
\* erased or annotated, the arrival of a fact below the end of a closed window excepted
\* (Late), which can make them overlap (_keyed_supersession).
THEOREM HistoryAgrees ==
    ASSUME NothingDecided, SingleVariant
    PROVE  Spec => AsOfKept
  <1> DEFINE Inv == AgreeInv /\ Sanctioned /\ SharpInv
             Keeps == AsOfAgree /\ ~(\E n \in known' \ known : Late(n)) => AsOfAgree'
  <1> NothingReopens
    BY DEF NothingDecided, NothingReopens
  <1>1. Init => Inv
    BY DEF Init, AgreeInv, ExactInv, LiveMatchesLog, ReplacedInv, ReopenInv,
           LiveAgree, CoverInv, Sanctioned, SharpInv, Locked, Resolved, Reviewing
  <1>2. Base /\ Base' /\ Inv /\ [Next]_vars => Inv'
    <2> SUFFICES ASSUME Base, Base', Inv, [Next]_vars PROVE Inv'
      OBVIOUS
    <2>1. AgreeInv'
      BY ExactStep, AgreeStep, CoverStep DEF AgreeInv
    <2>2. Sanctioned' /\ SharpInv'
      BY SanctionedStep, SharpStep DEF AgreeInv, Base
    <2> QED BY <2>1, <2>2
  <1>3. Base /\ Inv /\ [Next]_vars => [Keeps]_vars
    <2> SUFFICES ASSUME Base, Inv, [Next]_vars, AsOfAgree,
                        ~(\E n \in known' \ known : Late(n))
                 PROVE  AsOfAgree'
      OBVIOUS
    <2> TypeOK
      BY DEF Base
    <2>1. CASE \E w \in Workers : FinishAdd(w) \/ FinishReplacement(w)
      <3>1. PICK w \in Workers : Locked(w) /\ Ingest(w)
        BY <2>1 DEF FinishAdd, FinishReplacement, Locked
      <3> QED BY <3>1, AsOfIngest
    <2>2. CASE ~ \E w \in Workers : FinishAdd(w) \/ FinishReplacement(w)
      <3>1. fact' = fact
        BY FactsStay
      <3>2. \A t \in Times : AsOf(t)' \subseteq AsOf(t)
        BY <2>2, <3>1, WindowsStay DEF AsOf, Time
      <3> QED BY <3>1, <3>2 DEF AsOfAgree, Keyed, Time
    <2> QED BY <2>1, <2>2
  <1> HIDE DEF Inv, Keeps
  <1>4. Spec => [][Keeps]_vars
    BY <1>1, <1>2, <1>3, BaseInvariant, PTL DEF Spec
  <1> QED BY <1>4 DEF AsOfKept, Keeps

-----------------------------------------------------------------------------
(* Open rows.                                                              *)

\* A rejection commits what it read of the window: nobody else closes it in between.
RejectsAsRead ==
    \/ "reject" \notin Ops
    \/ "forget" \notin Ops /\ \A v, w \in Workers : v = w

RejectInv == \A w \in Workers : op[w] = "reject" => seen[w].until = until[target[w]]

\* While the only worker is rejecting nothing moves a window.
LEMMA RejectStep ==
    ASSUME Base, ReopenInv, RejectInv, [Next]_vars, RejectsAsRead
    PROVE  RejectInv'
  <1> SUFFICES ASSUME NEW v \in Workers, op'[v] = "reject"
               PROVE  seen'[v].until = until'[target'[v]]
    BY DEF RejectInv
  <1> TypeOK
    BY DEF Base
  <1>1. "forget" \notin Ops /\ \A w \in Workers : w = v
    BY ReopenStep DEF ReopenInv, RejectsAsRead
  <1>2. ASSUME op'[v] = op[v], UNCHANGED <<until, target, seen>>
        PROVE  seen'[v].until = until'[target'[v]]
    BY <1>2 DEF RejectInv
  <1>3. ASSUME NEW m \in Memories, BeginReject(v, m)
        PROVE  seen'[v].until = until'[target'[v]]
    BY <1>3 DEF BeginReject, Take, Row, rows, TypeOK
  <1>4. ASSUME NEW w \in Workers, NEW m \in Memories, NEW n \in Memories,
               Deciding(w, m, n)
        PROVE  seen'[v].until = until'[target'[v]]
    <2>1. Deciding(v, m, n)
      BY <1>1, <1>4
    <2>2. BeginReject(v, m)
      BY <2>1 DEF Deciding, BeginFeedback, BeginAdjudicate, BeginResolve, BeginReview,
                  Take, TypeOK, Resolved
    <2> QED BY <1>3, <2>2
  <1>5. ASSUME NEW w \in Workers, NEW n \in Memories,
               BeginAdd(w, n) \/ BeginReplacement(w, n)
        PROVE  FALSE
    BY <1>1, <1>5 DEF BeginAdd, BeginReplacement, TypeOK
  <1>6. ASSUME NEW w \in Workers, Release(w) PROVE FALSE
    BY <1>1, <1>6 DEF Release, TypeOK
  <1>7. ASSUME NEW w \in Workers, FinishReplacement(w) PROVE FALSE
    BY <1>1, <1>7 DEF FinishReplacement, TypeOK
  <1>8. CASE \E m \in Memories : Forget(m) \/ EraseSubject(m) \/ Prune(m)
    BY <1>1, <1>2, <1>8 DEF Forget, EraseSubject, Prune, task
  <1>9. CASE UNCHANGED <<until, task>>
    BY <1>2, <1>9 DEF task
  <1> QED BY <1>4, <1>5, <1>6, <1>7, <1>8, <1>9, StepKinds
          DEF StepKind, FinishAdd, FinishReject, FinishAdjudicate, FinishResolve,
              FinishReview, FinishFeedback, Abort

\* Whatever closes a row takes its live fact away, and what makes a fact live opens
\* the row or finds it open.
LEMMA LiveOpenStep ==
    ASSUME Base, ReopenInv, RejectInv, LiveIsOpen, [Next]_vars
    PROVE  LiveIsOpen'
  <1> TypeOK
    BY DEF Base
  <1>1. CASE UNCHANGED <<known, until, live>>
    BY <1>1 DEF LiveIsOpen
  <1>2. CASE \E w \in Workers : FinishAdd(w) \/ FinishReplacement(w)
    <2>1. PICK w \in Workers : Locked(w) /\ Ingest(w)
      BY <1>2 DEF FinishAdd, FinishReplacement, Locked
    <2> QED BY <2>1, Ingested DEF LiveIsOpen
  <1>3. CASE \E w \in Workers : FinishReject(w)
    <2>1. PICK w \in Workers : FinishReject(w)
      BY <1>3
    <2>2. target[w] \in known /\ seen[w].until = until[target[w]]
      BY <2>1 DEF FinishReject, RejectInv, Base, WorkInv, Work
    <2> QED BY <2>1, <2>2 DEF FinishReject, LiveIsOpen, TypeOK
  <1>4. CASE \E w \in Workers : FinishAdjudicate(w)
    BY <1>4 DEF FinishAdjudicate, LiveIsOpen, TypeOK
  <1>5. CASE \E w \in Workers : FinishResolve(w)
    BY <1>5 DEF FinishResolve, LiveIsOpen, TypeOK
  <1>6. CASE \E w \in Workers : FinishReview(w)
    BY <1>6 DEF FinishReview, LiveIsOpen, TypeOK
  <1>7. CASE \E m \in Memories : Forget(m) \/ EraseSubject(m) \/ Prune(m)
    BY <1>7 DEF Forget, EraseSubject, Prune, LiveIsOpen, TypeOK
  <1>8. (\E w \in Workers, m, n \in Memories : Deciding(w, m, n))
           => UNCHANGED <<known, until, live>>
    BY DecidingMoves DEF rows
  <1> QED BY <1>1, <1>2, <1>3, <1>4, <1>5, <1>6, <1>7, <1>8, StepKinds
          DEF StepKind, BeginAdd, BeginReplacement, FinishFeedback, Abort, rows

\* What is live is open, even where an adjudicator opens rows beside the projection,
\* unless a rejection may write what it read before somebody else closed the row.
THEOREM LiveIsAlwaysOpen ==
    ASSUME RejectsAsRead
    PROVE  Spec => []LiveIsOpen
  <1>1. Init => ReopenInv /\ RejectInv /\ LiveIsOpen
    BY DEF Init, ReopenInv, RejectInv, LiveIsOpen
  <1>2. Base /\ ReopenInv /\ RejectInv /\ LiveIsOpen /\ [Next]_vars
           => (ReopenInv /\ RejectInv /\ LiveIsOpen)'
    BY ReopenStep, RejectStep, LiveOpenStep
  <1> QED BY <1>1, <1>2, BaseInvariant, PTL DEF Spec

-----------------------------------------------------------------------------
(* Lineage.                                                                *)

\* The superseder of a memory, or the correction that a review is about to make it.
Leads(a, b) ==
    \/ by[a] = b
    \/ \E w \in Workers : op[w] = "replaced" /\ target[w] = a /\ other[w] = b

\* Lineages lead to known memories, forward in event time, ...
ByKnown == \A m \in known : by[m] \in known \cup {None}

Ascends == \A a, b \in known : Leads(a, b) => Time(a) <= Time(b)

\* ... and in every set of memories there is one that none of them leads to.
NoLoop == \A S \in SUBSET known : S # {} => \E b \in S : \A a \in S : ~ Leads(a, b)

\* Memories of the past are stated no later than they are known.
PastInv ==
    ~ Future => /\ \A m \in known : Time(m) <= now
                /\ \A w \in Workers : Locked(w) => Time(other[w]) <= now

\* A correction is not older than what it replaces.
ReplaceInv ==
    \A w \in Workers :
        /\ op[w] = "replace" => Time(target[w]) <= stamp[w]
        /\ op[w] = "replacing" => Time(target[w]) <= Time(other[w])

\* A correction is of the time of its review, which a memory ahead of the clock may
\* exceed.
ReviewsThePast == ~ Future \/ "review" \notin Ops

LineageInv == Sanctioned /\ PastInv /\ ReplaceInv /\ ByKnown /\ Ascends /\ NoLoop

\* What a worker is about to make of a review stays so until it does.
LEMMA ReplacedMoves ==
    ASSUME TypeOK, [Next]_vars, NEW v \in Workers,
           op'[v] \in {"replaced", "replacing", "replace"}
    PROVE  \/ UNCHANGED <<op[v], target[v], other[v], stamp[v]>>
           \/ op'[v] = "replace" /\ stamp'[v] = now /\ target'[v] \in Memories
                /\ review[target'[v]] = "pending"
           \/ op'[v] = "replacing" /\ op[v] = "replace"
                /\ target'[v] = target[v] /\ \E n \in Memories :
                      BeginReplacement(v, n) /\ other'[v] = n /\ Time(n) = stamp[v]
           \/ op'[v] = "replaced" /\ FinishReplacement(v)
  <1> DEFINE Same == UNCHANGED <<op[v], target[v], other[v], stamp[v]>>
             Goal == \/ Same
                     \/ op'[v] = "replace" /\ stamp'[v] = now /\ target'[v] \in Memories
                          /\ review[target'[v]] = "pending"
                     \/ op'[v] = "replacing" /\ op[v] = "replace"
                          /\ target'[v] = target[v] /\ \E n \in Memories :
                               BeginReplacement(v, n) /\ other'[v] = n
                                 /\ Time(n) = stamp[v]
                     \/ op'[v] = "replaced" /\ FinishReplacement(v)
  <1> SUFFICES Goal
    OBVIOUS
  <1>1. ASSUME NEW w \in Workers, NEW m \in Memories, NEW n \in Memories,
               Deciding(w, m, n)
        PROVE  Goal
    <2>1. CASE v # w
      BY <1>1, <2>1 DEF Deciding, BeginReject, BeginFeedback, BeginAdjudicate,
                        BeginResolve, BeginReview, Take, TypeOK
    <2>2. CASE v = w /\ \E o \in {"keep", "retire", "replace"} : BeginReview(w, m, o)
      BY <2>2 DEF BeginReview, Take, TypeOK
    <2>3. CASE v = w /\ ~ \E o \in {"keep", "retire", "replace"} : BeginReview(w, m, o)
      BY <1>1, <2>3 DEF Deciding, BeginReject, BeginFeedback, BeginAdjudicate,
                        BeginResolve, Take, TypeOK, Resolved
    <2> QED BY <2>1, <2>2, <2>3
  <1>2. ASSUME NEW w \in Workers, NEW n \in Memories, BeginAdd(w, n)
        PROVE  Goal
    BY <1>2 DEF BeginAdd, TypeOK
  <1>3. ASSUME NEW w \in Workers, NEW n \in Memories, BeginReplacement(w, n)
        PROVE  Goal
    <2>1. CASE v # w
      BY <1>3, <2>1 DEF BeginReplacement, TypeOK
    <2>2. CASE v = w
      <3>1. /\ op[v] = "replace" /\ op'[v] = "replacing" /\ target' = target
            /\ other'[v] = n /\ Time(n) = stamp[v]
        BY <1>3, <2>2 DEF BeginReplacement, TypeOK
      <3> QED BY <1>3, <2>2, <3>1
    <2> QED BY <2>1, <2>2
  <1>4. ASSUME NEW w \in Workers, Release(w)
        PROVE  Same
    BY <1>4 DEF Release, TypeOK
  <1>5. ASSUME NEW w \in Workers, FinishReplacement(w)
        PROVE  Goal
    BY <1>5 DEF FinishReplacement, TypeOK
  <1>6. UNCHANGED task => Same
    BY DEF task
  <1> HIDE DEF Same
  <1>7. Same => Goal
    OBVIOUS
  <1> HIDE DEF Goal
  <1> QED BY <1>1, <1>2, <1>3, <1>4, <1>5, <1>6, <1>7, StepKinds
          DEF StepKind, FinishAdd, FinishReject, FinishAdjudicate, FinishResolve,
              FinishReview, FinishFeedback, Abort, Forget, EraseSubject, Prune

\* The clock does not go back.
LEMMA ClockStep ==
    ASSUME TypeOK, [Next]_vars PROVE now \in Nat /\ now' \in Nat /\ now <= now'
  <1>1. now \in Nat
    BY ConstantsAssumption DEF TypeOK, Times
  <1>2. CASE Tick
    BY <1>1, <1>2 DEF Tick
  <1>3. CASE \E w \in Workers, m, n \in Memories : Deciding(w, m, n)
    BY <1>1, <1>3 DEF Deciding, BeginReject, BeginFeedback, BeginAdjudicate,
                      BeginResolve, BeginReview, Take
  <1>4. CASE \E w \in Workers : FinishAdd(w) \/ FinishReplacement(w)
    BY <1>1, <1>4 DEF FinishAdd, FinishReplacement, Ingest
  <1>5. CASE now' = now
    BY <1>1, <1>5
  <1> QED BY <1>2, <1>3, <1>4, <1>5
          DEF Next, vars, Deciding, Forget, EraseSubject, Prune, DropAdjudication,
              BeginAdd, BeginReplacement, FinishReject, FinishAdjudicate,
              FinishResolve, FinishFeedback, FinishReview, Abort

\* A step that commits no ingestion makes nothing known, and changes superseded_by only
\* in decisions and reviews.
LEMMA KnownStay ==
    ASSUME TypeOK, [Next]_vars, ~ \E w \in Workers : Locked(w) /\ Ingest(w)
    PROVE  /\ known' = known
           /\ \/ by' = by
              \/ \E w \in Workers : FinishReject(w) \/ FinishAdjudicate(w)
                                       \/ FinishReview(w)
  <1>1. (\E w \in Workers, m, n \in Memories : Deciding(w, m, n))
           => UNCHANGED <<known, by>>
    BY DecidingMoves DEF rows
  <1> QED BY <1>1, StepKinds
          DEF StepKind, rows, Locked, BeginAdd, BeginReplacement, FinishAdd,
              FinishReplacement, FinishReject, FinishAdjudicate, FinishResolve,
              FinishReview, FinishFeedback, Abort, Forget, EraseSubject, Prune

\* Where memories are of the past they are ingested no earlier than they happened.
LEMMA PastStep ==
    ASSUME Base, PastInv, [Next]_vars
    PROVE  PastInv'
  <1> TypeOK
    BY DEF Base
  <1>1. fact' = fact /\ now \in Nat /\ now' \in Nat /\ now <= now'
    BY FactsStay, ClockStep
  <1> SUFFICES ASSUME ~ Future
               PROVE  /\ \A m \in known' : Time(m) <= now'
                      /\ \A w \in Workers : Locked(w)' => Time(other'[w]) <= now'
    BY <1>1 DEF PastInv, Time
  <1>2. \A m \in Memories : Time(m) \in Nat
    BY TimesAreNumbers
  <1>3. \A m \in known' : Time(m) <= now'
    <2>1. CASE \E w \in Workers : Locked(w) /\ Ingest(w)
      <3>1. PICK w \in Workers : Locked(w) /\ Ingest(w)
        BY <2>1
      <3>2. known' = known \cup {other[w]} /\ other[w] \in Memories /\ known \subseteq Memories
        BY <3>1, Ingested
      <3> QED BY <1>1, <1>2, <3>1, <3>2 DEF PastInv
    <2>2. CASE ~ \E w \in Workers : Locked(w) /\ Ingest(w)
      BY <1>1, <1>2, <2>2, KnownStay DEF PastInv, TypeOK
    <2> QED BY <2>1, <2>2
  <1>4. ASSUME NEW v \in Workers, Locked(v)'
        PROVE  Time(other'[v]) <= now'
    <2>1. CASE Locked(v) /\ other'[v] = other[v] /\ plan'[v] = plan[v]
      <3>1. other[v] \in Memories /\ Time(other[v]) <= now
        BY <2>1 DEF PastInv, Base, WorkInv, Work, Planned
      <3> QED BY <1>1, <1>2, <2>1, <3>1
    <2>2. CASE \E n \in Memories : Begins(v, n)
      <3>1. PICK n \in Memories : Begins(v, n)
        BY <2>2
      <3>2. Time(n) <= now
        BY <3>1 DEF Begins, BeginAdd, BeginReplacement, Ingestible
      <3> QED BY <1>1, <1>2, <3>1, <3>2, BeganPlan
    <2> QED BY <1>4, <2>1, <2>2, LockedMoves
  <1> QED BY <1>3, <1>4

\* A review that replaces a memory takes its time when it begins.
LEMMA ReplaceStep ==
    ASSUME Base, Sanctioned, Sanctioned', PastInv, ReplaceInv, [Next]_vars,
           ReviewsThePast
    PROVE  ReplaceInv'
  <1> TypeOK
    BY DEF Base
  <1>1. fact' = fact
    BY FactsStay
  <1> SUFFICES ASSUME NEW v \in Workers, op'[v] \in {"replace", "replacing"}
               PROVE  /\ op'[v] = "replace" => Time(target'[v]) <= stamp'[v]
                      /\ op'[v] = "replacing" => Time(target'[v]) <= Time(other'[v])
    BY <1>1 DEF ReplaceInv, Time
  <1>2. ~ Future
    BY DEF Sanctioned, Reviewing, ReviewsThePast
  <1>3. CASE UNCHANGED <<op[v], target[v], other[v], stamp[v]>>
    BY <1>3 DEF ReplaceInv
  <1>4. CASE /\ op'[v] = "replace" /\ stamp'[v] = now /\ target'[v] \in Memories
             /\ review[target'[v]] = "pending"
    BY <1>2, <1>4 DEF PastInv, Base, FreshInv
  <1>5. CASE /\ op'[v] = "replacing" /\ op[v] = "replace" /\ target'[v] = target[v]
             /\ \E n \in Memories :
                   BeginReplacement(v, n) /\ other'[v] = n /\ Time(n) = stamp[v]
    BY <1>5 DEF ReplaceInv
  <1> QED BY <1>3, <1>4, <1>5, ReplacedMoves

\* A step that commits no ingestion makes no memory lead to another that it did not
\* already, or was about to.
LEMMA LeadsStay ==
    ASSUME Base, Base', [Next]_vars, ~ \E w \in Workers : Locked(w) /\ Ingest(w)
    PROVE  /\ \A m \in known : by'[m] = by[m] \/ by'[m] = None
                                \/ (by'[m] \in known /\ Leads(m, by'[m]))
           /\ \A a, b \in known : Leads(a, b)' => Leads(a, b)
  <1> TypeOK
    BY DEF Base
  <1>1. None \notin known
    BY ConstantsAssumption DEF TypeOK
  <1>2. \A m \in known : by'[m] = by[m] \/ by'[m] = None
                            \/ (by'[m] \in known /\ Leads(m, by'[m]))
    <2>1. CASE \E w \in Workers : FinishReject(w) \/ FinishAdjudicate(w)
      BY <2>1 DEF FinishReject, FinishAdjudicate, TypeOK
    <2>2. CASE \E w \in Workers : FinishReview(w)
      <3>1. PICK w \in Workers : FinishReview(w)
        BY <2>2
      <3>2. CASE op[w] = "replaced"
        <4>1. other[w] \in known /\ target[w] \in known
          BY <3>2 DEF Base, WorkInv, Work, Resolved
        <4>2. Leads(target[w], other[w])
          BY <3>2 DEF Leads
        <4>3. \A m \in known \ {target[w]} : by'[m] = by[m]
          BY <3>1 DEF FinishReview, TypeOK
        <4>4. by'[target[w]] = by[target[w]] \/ by'[target[w]] = other[w]
          BY <3>1, <4>1 DEF FinishReview, TypeOK
        <4> QED BY <4>1, <4>2, <4>3, <4>4
      <3>3. CASE op[w] # "replaced"
        BY <3>1, <3>3 DEF FinishReview, TypeOK
      <3> QED BY <3>2, <3>3
    <2>3. CASE by' = by
      BY <2>3
    <2> QED BY <2>1, <2>2, <2>3, KnownStay
  <1>3. ASSUME NEW v \in Workers, op'[v] = "replaced"
        PROVE  op[v] = "replaced" /\ target'[v] = target[v] /\ other'[v] = other[v]
    <2>1. ~ FinishReplacement(v)
      BY DEF FinishReplacement, Locked
    <2> QED BY <1>3, <2>1, ReplacedMoves
  <1>4. ASSUME NEW a \in known, NEW b \in known, Leads(a, b)'
        PROVE  Leads(a, b)
    <2>1. CASE by'[a] = b
      BY <1>1, <1>2, <2>1 DEF Leads
    <2>2. CASE \E w \in Workers : op'[w] = "replaced" /\ target'[w] = a /\ other'[w] = b
      BY <1>3, <2>2 DEF Leads
    <2> QED BY <1>4, <2>1, <2>2 DEF Leads
  <1> QED BY <1>2, <1>4

\* The commit of an ingestion: memories no later than the new one lead to it, and it
\* leads to a later one.
LEMMA LeadsIngest ==
    ASSUME Base, Base', OrderedInv, ReplaceInv, ByKnown, [Next]_vars,
           NEW w \in Workers, Locked(w), Ingest(w), NEW n, n = other[w]
    PROVE  /\ ByKnown'
           /\ \A a, b \in known : Leads(a, b)' => Leads(a, b)
           /\ \A a \in known : Leads(a, n)' => Time(a) <= Time(n)
           /\ \A b \in known' : Leads(n, b)' => Time(b) > Time(n)
  <1> TypeOK
    BY DEF Base
  <1> DEFINE p == plan[w]
  <1>1. /\ known' = known \cup {n} /\ n \in Memories \ known
        /\ known \subseteq Memories /\ p.closes \subseteq known
        /\ p.successor \in known \cup {None}
        /\ \A m \in p.closes : by'[m] = n
        /\ \A m \in known \ p.closes : by'[m] = by[m]
        /\ by'[n] = p.successor
    BY Ingested
  <1>2. None \notin Memories
    BY ConstantsAssumption
  <1>3. /\ \A m \in p.closes : Time(m) <= Time(n)
        /\ p.successor # None => Time(p.successor) > Time(n)
    BY DEF OrderedInv, Ordered
  <1>4. \A m \in known : by[m] \in known \cup {None}
    BY DEF ByKnown
  <1>5. ASSUME NEW v \in Workers, op'[v] = "replaced"
        PROVE  \/ op[v] = "replaced" /\ target'[v] = target[v] /\ other'[v] = other[v]
                    /\ target[v] \in known /\ other[v] \in known
               \/ target'[v] \in known /\ other'[v] = n
                    /\ Time(target'[v]) <= Time(n)
    <2>1. CASE FinishReplacement(v)
      <3>1. Locked(v) /\ op[v] = "replacing"
        BY <2>1 DEF FinishReplacement, Locked
      <3>2. v = w
        BY <3>1, OneHolder
      <3>3. target[v] \in known /\ Time(target[v]) <= Time(n)
        BY <3>1, <3>2 DEF ReplaceInv, Base, WorkInv, Work
      <3> QED BY <2>1, <3>2, <3>3 DEF FinishReplacement
    <2>2. CASE op[v] = "replaced" /\ target'[v] = target[v] /\ other'[v] = other[v]
      BY <2>2 DEF Base, WorkInv, Work, Resolved
    <2> QED BY <1>5, <2>1, <2>2, ReplacedMoves
  <1> HIDE DEF p
  <1>6. ByKnown'
    BY <1>1, <1>4 DEF ByKnown
  <1>7. ASSUME NEW a \in known, NEW b \in known, Leads(a, b)'
        PROVE  Leads(a, b)
    <2>1. CASE by'[a] = b
      BY <1>1, <2>1 DEF Leads
    <2>2. CASE \E v \in Workers : op'[v] = "replaced" /\ target'[v] = a /\ other'[v] = b
      BY <1>1, <1>5, <2>2 DEF Leads
    <2> QED BY <1>7, <2>1, <2>2 DEF Leads
  <1>8. ASSUME NEW a \in known, Leads(a, n)'
        PROVE  Time(a) <= Time(n)
    <2>1. CASE by'[a] = n
      BY <1>1, <1>2, <1>3, <1>4, <2>1
    <2>2. CASE \E v \in Workers : op'[v] = "replaced" /\ target'[v] = a /\ other'[v] = n
      BY <1>1, <1>5, <2>2
    <2> QED BY <1>8, <2>1, <2>2 DEF Leads
  <1>9. ASSUME NEW b \in known', Leads(n, b)'
        PROVE  Time(b) > Time(n)
    <2>1. CASE by'[n] = b
      BY <1>1, <1>2, <1>3, <2>1
    <2>2. CASE \E v \in Workers : op'[v] = "replaced" /\ target'[v] = n /\ other'[v] = b
      BY <1>1, <1>5, <2>2
    <2> QED BY <1>9, <2>1, <2>2 DEF Leads
  <1> QED BY <1>6, <1>7, <1>8, <1>9

\* No commit closes a loop: in a set that each of its members is led to, the new memory
\* and what is not later than it would have to be led to by known memories alone.
LEMMA NoLoopIngest ==
    ASSUME Base, Base', OrderedInv, ReplaceInv, ByKnown, Ascends, NoLoop, [Next]_vars,
           NEW w \in Workers, Locked(w), Ingest(w)
    PROVE  Ascends' /\ NoLoop'
  <1> TypeOK
    BY DEF Base
  <1>0. PICK n \in Memories : n = other[w]
    BY Ingested
  <1>1. fact' = fact
    BY FactsStay
  <1>2. known' = known \cup {n} /\ n \in Memories \ known /\ known \subseteq Memories
    BY <1>0, Ingested
  <1>3. /\ \A a, b \in known : Leads(a, b)' => Leads(a, b)
        /\ \A a \in known : Leads(a, n)' => Time(a) <= Time(n)
        /\ \A b \in known' : Leads(n, b)' => Time(b) > Time(n)
    BY <1>0, LeadsIngest
  <1>4. \A m \in known' : Time(m) \in Nat
    BY <1>2, TimesAreNumbers
  <1>5. \A a, b \in known : Leads(a, b) => Time(a) <= Time(b)
    BY DEF Ascends
  <1>6. Ascends'
    <2> SUFFICES ASSUME NEW a \in known', NEW b \in known', Leads(a, b)'
                 PROVE  Time(a) <= Time(b)
      BY <1>1 DEF Ascends, Time
    <2> QED BY <1>2, <1>3, <1>4, <1>5
  <1>7. ASSUME NEW S \in SUBSET known', \A b \in S : \E a \in S : Leads(a, b)'
        PROVE  S = {}
    <2> DEFINE T == {m \in S \ {n} : Time(m) <= Time(n)}
    <2>1. CASE n \notin S
      <3>1. S \in SUBSET known
        BY <1>2, <2>1
      <3>2. \A b \in S : \E a \in S : Leads(a, b)
        BY <1>3, <1>7, <3>1
      <3> QED BY <3>1, <3>2 DEF NoLoop
    <2>2. CASE n \in S
      <3>1. T \in SUBSET known
        BY <1>2
      <3>2. PICK a \in S : Leads(a, n)'
        BY <1>7, <2>2
      <3>3. a # n
        BY <1>2, <1>3, <1>4, <3>2
      <3>4. a \in T
        BY <1>2, <1>3, <3>2, <3>3
      <3>5. ASSUME NEW b \in T
            PROVE  \E c \in T : Leads(c, b)
        <4>1. PICK c \in S : Leads(c, b)'
          BY <1>7
        <4>2. c # n
          BY <1>2, <1>3, <1>4, <3>1, <4>1
        <4>3. c \in known /\ b \in known
          BY <1>2, <3>1, <4>2
        <4>4. Leads(c, b) /\ Time(c) <= Time(b)
          BY <1>3, <1>5, <4>1, <4>3
        <4>5. Time(c) <= Time(n)
          BY <1>2, <1>4, <4>3, <4>4
        <4> QED BY <4>2, <4>4, <4>5
      <3> HIDE DEF T
      <3> QED BY <3>1, <3>4, <3>5 DEF NoLoop
    <2> QED BY <2>1, <2>2
  <1>8. NoLoop'
    BY <1>7 DEF NoLoop
  <1> QED BY <1>6, <1>8

\* Every step keeps lineages without loops.
LEMMA LineageStep ==
    ASSUME Base, Base', OrderedInv, LineageInv, [Next]_vars, ReviewsThePast
    PROVE  LineageInv'
  <1> TypeOK
    BY DEF Base
  <1>1. Sanctioned' /\ PastInv' /\ ReplaceInv'
    BY SanctionedStep, PastStep, ReplaceStep DEF LineageInv
  <1>2. CASE \E w \in Workers : Locked(w) /\ Ingest(w)
    <2>1. PICK w \in Workers : Locked(w) /\ Ingest(w)
      BY <1>2
    <2>2. ByKnown'
      BY <2>1, LeadsIngest DEF LineageInv
    <2>3. Ascends' /\ NoLoop'
      BY <2>1, NoLoopIngest DEF LineageInv
    <2> QED BY <1>1, <2>2, <2>3 DEF LineageInv
  <1>3. CASE ~ \E w \in Workers : Locked(w) /\ Ingest(w)
    <2>1. known' = known /\ fact' = fact
      BY <1>3, KnownStay, FactsStay
    <2>2. /\ \A m \in known : by'[m] = by[m] \/ by'[m] = None \/ by'[m] \in known
          /\ \A a, b \in known : Leads(a, b)' => Leads(a, b)
      BY <1>3, LeadsStay
    <2>3. ByKnown'
      BY <2>1, <2>2 DEF LineageInv, ByKnown
    <2>4. Ascends'
      BY <2>1, <2>2 DEF LineageInv, Ascends, Time
    <2>5. NoLoop'
      <3> SUFFICES ASSUME NEW S \in SUBSET known, S # {}
                   PROVE  \E b \in S : \A a \in S : ~ Leads(a, b)'
        BY <2>1 DEF NoLoop
      <3> QED BY <2>2 DEF LineageInv, NoLoop
    <2> QED BY <1>1, <2>3, <2>4, <2>5 DEF LineageInv
  <1> QED BY <1>2, <1>3

\* A set whose members are all superseders of its members would be a loop.
LEMMA LoopFree ==
    ASSUME NoLoop PROVE LineageAcyclic
  <1> SUFFICES ASSUME NEW S \in SUBSET known, S # {}, S \subseteq Superseders(S)
               PROVE  FALSE
    BY DEF LineageAcyclic
  <1>1. PICK b \in S : \A a \in S : ~ Leads(a, b)
    BY DEF NoLoop
  <1>2. PICK a \in S : by[a] = b
    BY DEF Superseders
  <1> QED BY <1>1, <1>2 DEF Leads

\* Walking a lineage ends, whatever is ingested, rejected, adjudicated, resolved,
\* reviewed or erased by however many requests at once, unless a review corrects a
\* memory that is ahead of the clock.
THEOREM LineagesEnd ==
    ASSUME ReviewsThePast
    PROVE  Spec => []LineageAcyclic
  <1> DEFINE Inv == OrderedInv /\ LineageInv
  <1>1. Init => Inv
    BY DEF Init, OrderedInv, LineageInv, Sanctioned, PastInv, ReplaceInv, ByKnown,
           Ascends, NoLoop, Locked, Resolved, Reviewing
  <1>2. Base /\ Base' /\ Inv /\ [Next]_vars => Inv'
    BY OrderedStep, LineageStep DEF Base
  <1>3. Inv => LineageAcyclic
    BY LoopFree DEF LineageInv
  <1> HIDE DEF Inv
  <1> QED BY <1>1, <1>2, <1>3, BaseInvariant, PTL DEF Spec

=============================================================================
