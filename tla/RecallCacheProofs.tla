-------------------------- MODULE RecallCacheProofs --------------------------
(* Theorems about RecallCache, for every number of processes, requests,    *)
(* mutations, generations and failures.                                    *)
EXTENDS RecallCache, TLAPS

-----------------------------------------------------------------------------
(* Types.                                                                  *)

\* A request about to read the payload has a generation to read it under.
ValueTagged == \A r \in Readers : pc[r] = "value" => tag[r] \in Gens

\* Every action keeps every variable within its type, and a request that reads a
\* payload has captured the generation it reads it under.
LEMMA TypeStep ==
  ASSUME TypeOK, ValueTagged, [Next]_vars
  PROVE  TypeOK' /\ ValueTagged'
<1> DEFINE TInv == TypeOK /\ ValueTagged
<1> DEFINE Sets == [gen : Gens \cup {NoGen}, rows : Versions]
<1>0. 0 \in Versions /\ 0 \in Gens /\ EmptySet \in Sets
  BY ConstantsAssumption DEF Versions, Gens, EmptySet
<1>a. pc \in [Readers -> Steps]
  BY DEF TypeOK
<1> USE <1>0 DEF ValueTagged
<1>1. ASSUME NEW p \in Procs, Commit(p) PROVE TInv'
  <2>1. version + 1 \in Jobs /\ version + 1 \in Versions
    BY <1>1, ConstantsAssumption DEF Commit, Versions, Jobs, TypeOK
  <2>2. version' \in Versions /\ pending' \in SUBSET Jobs
    BY <1>1, <2>1 DEF Commit, TypeOK
  <2>3. flush' \in [Procs -> [Jobs -> FlushSteps]]
    BY <1>1, <2>1 DEF Commit, FlushSteps, TypeOK
  <2> QED
    BY <1>1, <2>1, <2>2, <2>3 DEF Commit, redis, reader, TypeOK
<1>2. ASSUME NEW p \in Procs, Crash(p) PROVE TInv'
  <2>1. pc' \in [Readers -> Steps]
    BY <1>2, <1>a DEF Crash, Steps
  <2>2. /\ mark' \in [Readers -> Versions]
        /\ tag' \in [Readers -> Gens \cup {NoGen}]
        /\ keyed' \in [Readers -> BOOLEAN]
    BY <1>2 DEF Crash, TypeOK
  <2>3. faults' \in 0..MaxFaults
    BY <1>2, ConstantsAssumption DEF Crash, TypeOK
  <2>4. flush' \in [Procs -> [Jobs -> FlushSteps]]
    BY <1>2 DEF Crash, FlushSteps, TypeOK
  <2>5. bypass' \in [Procs -> BOOLEAN] /\ workingSet' \in [Procs -> Sets]
    BY <1>2 DEF Crash, TypeOK
  <2> QED
    BY <1>2, <2>1, <2>2, <2>3, <2>4, <2>5 DEF Crash, TypeOK, database, redis
<1>3. ASSUME NEW p \in Procs, NEW j \in Jobs, Engage(p, j) PROVE TInv'
  BY <1>3 DEF Engage, database, redis, reader, FlushSteps, TypeOK
<1>4. ASSUME NEW p \in Procs, NEW j \in Jobs, Repair(p, j) PROVE TInv'
  BY <1>4 DEF Repair, database, redis, reader, FlushSteps, TypeOK
<1>5. ASSUME NEW p \in Procs, NEW j \in Jobs, Bump(p, j) PROVE TInv'
  BY <1>5, ConstantsAssumption DEF Gens, Bump, database, reader, FlushSteps, TypeOK
<1>6. ASSUME NEW p \in Procs, NEW j \in Jobs, BumpFails(p, j) PROVE TInv'
  BY <1>6, ConstantsAssumption DEF Gens, BumpFails, database, reader, FlushSteps, TypeOK
<1>7. ASSUME NEW p \in Procs, NEW j \in Jobs, Complete(p, j) PROVE TInv'
  BY <1>7 DEF Complete, redis, reader, FlushSteps, TypeOK
<1>8. ASSUME NEW r \in Readers, NEW p \in Procs, Begin(r, p) PROVE TInv'
  <2>1. pc' \in [Readers -> Steps]
    BY <1>8, <1>a DEF Begin, Goto, Steps
  <2> QED
    BY <1>8, <2>1 DEF Begin, TypeOK, database, redis, process, Goto
<1>9. ASSUME NEW r \in Readers, PassBypass(r) PROVE TInv'
  <2>1. \A step \in DOMAIN Tested : step # "value" /\ Tested[step] \in Steps \ {"value"}
    BY DEF Tested, Steps
  <2>2. pc' \in [Readers -> Steps] /\ ValueTagged'
    BY <1>a, <1>9, <2>1 DEF PassBypass, Goto
  <2> QED
    BY <1>9, <2>2 DEF PassBypass, database, redis, process, TypeOK
<1>10. ASSUME NEW r \in Readers, ReadGeneration(r) PROVE TInv'
  <2>1. pc' \in [Readers -> Steps]
    BY <1>a, <1>10 DEF ReadGeneration, Goto, Steps
  <2>2. ValueTagged'
    BY <1>10 DEF ReadGeneration, Goto, TypeOK
  <2> QED
    BY <1>10, <2>1, <2>2 DEF ReadGeneration, database, redis, process, TypeOK
<1>11. ASSUME NEW r \in Readers, ReadValue(r) PROVE TInv'
  <2>1. pc' \in [Readers -> Steps]
    BY <1>a, <1>11 DEF ReadValue, Goto, Steps
  <2>2. rows' \in [Readers -> Versions]
    BY <1>11 DEF ReadValue, Goto, TypeOK
  <2>3. ValueTagged'
    BY <1>11 DEF ReadValue, Goto, TypeOK
  <2> QED
    BY <1>11, <2>1, <2>2, <2>3 DEF ReadValue, database, redis, process, TypeOK
<1>12. ASSUME NEW r \in Readers, RereadGeneration(r) PROVE TInv'
  <2>1. pc' \in [Readers -> Steps]
    BY <1>a, <1>12 DEF RereadGeneration, Goto, Steps
  <2>2. /\ tag' \in [Readers -> Gens \cup {NoGen}]
        /\ keyed' \in [Readers -> BOOLEAN]
    BY <1>12 DEF RereadGeneration, Goto, TypeOK
  <2>3. ValueTagged'
    BY <1>12 DEF RereadGeneration, Goto, TypeOK
  <2> QED
    BY <1>12, <2>1, <2>2, <2>3 DEF RereadGeneration, database, redis, process, TypeOK
<1>13. ASSUME NEW r \in Readers, NoLookup(r) PROVE TInv'
  <2>1. pc' \in [Readers -> Steps]
    BY <1>a, <1>13 DEF NoLookup, Refused, Goto, Steps
  <2>2. /\ tag' \in [Readers -> Gens \cup {NoGen}]
        /\ keyed' \in [Readers -> BOOLEAN]
    BY <1>13 DEF NoLookup, Refused, Goto, TypeOK
  <2>3. ValueTagged'
    BY <1>13 DEF NoLookup, Refused, Goto, TypeOK
  <2> QED
    BY <1>13, <2>1, <2>2, <2>3 DEF NoLookup, Refused, database, redis, process, TypeOK
<1>14. ASSUME NEW r \in Readers, RecheckBarrier(r) PROVE TInv'
  <2>1. pc' \in [Readers -> Steps]
    BY <1>a, <1>14 DEF RecheckBarrier, Goto, Steps
  <2>2. mark' \in [Readers -> Versions]
    BY <1>14 DEF RecheckBarrier, Goto, TypeOK
  <2>3. ValueTagged'
    BY <1>14 DEF RecheckBarrier, Goto, TypeOK
  <2> QED
    BY <1>14, <2>1, <2>2, <2>3 DEF RecheckBarrier, database, redis, process, TypeOK
<1>15. ASSUME NEW r \in Readers, RecheckGeneration(r) PROVE TInv'
  <2>1. pc' \in [Readers -> Steps]
    BY <1>a, <1>15 DEF RecheckGeneration, Goto, Steps
  <2>2. ValueTagged'
    BY <1>15 DEF RecheckGeneration, Goto, TypeOK
  <2> QED
    BY <1>15, <2>1, <2>2 DEF RecheckGeneration, database, redis, process, TypeOK
<1>16. ASSUME NEW r \in Readers, AnswerHit(r) PROVE TInv'
  <2>1. pc' \in [Readers -> Steps]
    BY <1>a, <1>16 DEF AnswerHit, Finish, Goto, Steps
  <2>2. /\ tag' \in [Readers -> Gens \cup {NoGen}]
        /\ keyed' \in [Readers -> BOOLEAN]
    BY <1>16 DEF AnswerHit, Finish, Goto, TypeOK
  <2>3. ValueTagged'
    BY <1>16 DEF AnswerHit, Finish, Goto, TypeOK
  <2> QED
    BY <1>16, <2>1, <2>2, <2>3 DEF AnswerHit, Finish, database, redis, process, TypeOK
<1>17. ASSUME NEW r \in Readers, NotCurrent(r) PROVE TInv'
  <2>1. pc' \in [Readers -> Steps]
    BY <1>a, <1>17 DEF NotCurrent, Refused, Goto, Steps
  <2>2. mark' \in [Readers -> Versions]
    BY <1>17 DEF NotCurrent, Refused, Goto, TypeOK
  <2>3. rows' \in [Readers -> Versions]
    BY <1>17 DEF NotCurrent, Refused, Goto, TypeOK
  <2>4. ValueTagged'
    BY <1>17 DEF NotCurrent, Refused, Goto, TypeOK
  <2> QED
    BY <1>17, <2>1, <2>2, <2>3, <2>4 DEF NotCurrent, Refused, database, redis, process, TypeOK
<1>18. ASSUME NEW r \in Readers, ReadClock(r) PROVE TInv'
  <2>1. pc' \in [Readers -> Steps]
    BY <1>a, <1>18 DEF ReadClock, Goto, Steps
  <2>2. ValueTagged'
    BY <1>18 DEF ReadClock, Goto, TypeOK
  <2> QED
    BY <1>18, <2>1, <2>2 DEF ReadClock, database, redis, process, TypeOK
<1>19. ASSUME NEW r \in Readers, NoClock(r) PROVE TInv'
  <2>1. pc' \in [Readers -> Steps]
    BY <1>a, <1>19 DEF NoClock, Refused, Goto, Steps
  <2>2. ValueTagged'
    BY <1>19 DEF NoClock, Refused, Goto, TypeOK
  <2> QED
    BY <1>19, <2>1, <2>2 DEF NoClock, Refused, database, redis, process, TypeOK
<1>20. ASSUME NEW r \in Readers, ReadWorkingSet(r) PROVE TInv'
  <2>1. pc' \in [Readers -> Steps]
    BY <1>a, <1>20 DEF ReadWorkingSet, Goto, Steps
  <2>2. workingSet' \in [Procs -> Sets]
    BY <1>20 DEF ReadWorkingSet, Goto, TypeOK
  <2>3. rows' \in [Readers -> Versions]
    BY <1>20 DEF ReadWorkingSet, Goto, TypeOK
  <2>4. ValueTagged'
    BY <1>20 DEF ReadWorkingSet, Goto, TypeOK
  <2> QED
    BY <1>20, <2>1, <2>2, <2>3, <2>4 DEF ReadWorkingSet, database, redis, process, TypeOK
<1>21. ASSUME NEW r \in Readers, FetchWorkingSet(r) PROVE TInv'
  <2>1. pc' \in [Readers -> Steps]
    BY <1>a, <1>21 DEF FetchWorkingSet, Goto, Steps
  <2>2. ValueTagged'
    BY <1>21 DEF FetchWorkingSet, Goto, TypeOK
  <2> QED
    BY <1>21, <2>1, <2>2 DEF FetchWorkingSet, database, redis, process, TypeOK
<1>22. ASSUME NEW r \in Readers, AdmitGeneration(r) PROVE TInv'
  <2>1. pc' \in [Readers -> Steps]
    BY <1>a, <1>22 DEF AdmitGeneration, Goto, Steps
  <2>2. ValueTagged'
    BY <1>22 DEF AdmitGeneration, Goto, TypeOK
  <2> QED
    BY <1>22, <2>1, <2>2 DEF AdmitGeneration, database, redis, process, TypeOK
<1>23. ASSUME NEW r \in Readers, AdmitBarrier(r) PROVE TInv'
  <2>1. pc' \in [Readers -> Steps]
    BY <1>a, <1>23 DEF AdmitBarrier, Goto, Steps
  <2>2. ValueTagged'
    BY <1>23 DEF AdmitBarrier, Goto, TypeOK
  <2> QED
    BY <1>23, <2>1, <2>2 DEF AdmitBarrier, database, redis, process, TypeOK
<1>24. ASSUME NEW r \in Readers, KeepWorkingSet(r) PROVE TInv'
  <2>1. pc' \in [Readers -> Steps]
    BY <1>a, <1>24 DEF KeepWorkingSet, Goto, Steps
  <2>2. workingSet' \in [Procs -> Sets]
    BY <1>24 DEF KeepWorkingSet, Goto, TypeOK
  <2>3. ValueTagged'
    BY <1>24 DEF KeepWorkingSet, Goto, TypeOK
  <2> QED
    BY <1>24, <2>1, <2>2, <2>3 DEF KeepWorkingSet, database, redis, process, TypeOK
<1>25. ASSUME NEW r \in Readers, Discard(r) PROVE TInv'
  <2>1. pc' \in [Readers -> Steps]
    BY <1>a, <1>25 DEF Discard, Refused, Goto, Steps
  <2>2. workingSet' \in [Procs -> Sets]
    BY <1>25 DEF Discard, Refused, Goto, TypeOK
  <2>3. ValueTagged'
    BY <1>25 DEF Discard, Refused, Goto, TypeOK
  <2> QED
    BY <1>25, <2>1, <2>2, <2>3 DEF Discard, Refused, database, redis, process, TypeOK
<1>26. ASSUME NEW r \in Readers, SearchDatabase(r) PROVE TInv'
  <2>1. pc' \in [Readers -> Steps]
    BY <1>a, <1>26 DEF SearchDatabase, Goto, Steps
  <2>2. ValueTagged'
    BY <1>26 DEF SearchDatabase, Goto, TypeOK
  <2> QED
    BY <1>26, <2>1, <2>2 DEF SearchDatabase, database, redis, process, TypeOK
<1>27. ASSUME NEW r \in Readers, CheckFill(r) PROVE TInv'
  <2>1. pc' \in [Readers -> Steps]
    BY <1>a, <1>27 DEF CheckFill, Finish, Goto, Steps
  <2>2. /\ tag' \in [Readers -> Gens \cup {NoGen}]
        /\ keyed' \in [Readers -> BOOLEAN]
    <3>1. \/ UNCHANGED <<tag, keyed>>
          \/ /\ tag' = [tag EXCEPT ![r] = NoGen]
             /\ keyed' = [keyed EXCEPT ![r] = FALSE]
      BY <1>27 DEF CheckFill, Finish
    <3> QED
      BY <3>1 DEF TypeOK
  <2>3. ValueTagged'
    <3>1. \A q \in Readers : pc'[q] = "value" => q # r /\ pc[q] = "value"
      BY <1>a, <1>27 DEF CheckFill, Finish, Goto
    <3>2. \A q \in Readers : q # r => tag'[q] = tag[q]
      BY <1>27 DEF CheckFill, Finish, TypeOK
    <3> QED
      BY <3>1, <3>2
  <2> QED
    BY <1>27, <2>1, <2>2, <2>3 DEF CheckFill, Finish, database, redis, process, TypeOK
<1>28. ASSUME NEW r \in Readers, PutResult(r) PROVE TInv'
  <2>1. pc' \in [Readers -> Steps]
    BY <1>a, <1>28 DEF PutResult, Finish, Goto, Steps
  <2>2. /\ tag' \in [Readers -> Gens \cup {NoGen}]
        /\ keyed' \in [Readers -> BOOLEAN]
    BY <1>28 DEF PutResult, Finish, Goto, TypeOK
  <2>3. results' \in [Gens -> Versions \cup {Absent}]
    BY <1>28 DEF PutResult, Finish, Goto, TypeOK
  <2>4. ValueTagged'
    BY <1>28 DEF PutResult, Finish, Goto, TypeOK
  <2> QED
    BY <1>28, <2>1, <2>2, <2>3, <2>4 DEF PutResult, Finish, database, redis, process, TypeOK
<1>29. ASSUME NEW r \in Readers, NoPut(r) PROVE TInv'
  <2>1. pc' \in [Readers -> Steps]
    BY <1>a, <1>29 DEF NoPut, Refused, Finish, Goto, Steps
  <2>2. /\ tag' \in [Readers -> Gens \cup {NoGen}]
        /\ keyed' \in [Readers -> BOOLEAN]
    BY <1>29 DEF NoPut, Refused, Finish, Goto, TypeOK
  <2>3. ValueTagged'
    BY <1>29 DEF NoPut, Refused, Finish, Goto, TypeOK
  <2> QED
    BY <1>29, <2>1, <2>2, <2>3 DEF NoPut, Refused, Finish, database, redis, process, TypeOK
<1>30. ASSUME NEW p \in Procs, CommitRepeated(p) PROVE TInv'
  <2>1. flush' \in [Procs -> [Jobs -> FlushSteps]]
    BY <1>30 DEF CommitRepeated, FlushSteps, TypeOK
  <2>2. version' \in Versions
    BY <1>30, ConstantsAssumption DEF CommitRepeated, Versions, TypeOK
  <2> QED
    BY <1>30, <2>1, <2>2 DEF CommitRepeated, redis, reader, TypeOK
<1>33. ASSUME NEW p \in Procs, NEW j \in Jobs, DropSet(p, j) PROVE TInv'
  <2>1. flush' \in [Procs -> [Jobs -> FlushSteps]]
    BY <1>33 DEF DropSet, FlushSteps, TypeOK
  <2>2. workingSet' \in [Procs -> [gen : Gens \cup {NoGen}, rows : Versions]]
    BY <1>33, ConstantsAssumption DEF DropSet, EmptySet, Versions, TypeOK
  <2> QED
    BY <1>33, <2>1, <2>2 DEF DropSet, database, redis, reader, TypeOK
<1>31. CASE LoseRedis
  BY <1>31, ConstantsAssumption DEF LoseRedis, database, process, reader, TypeOK
<1>32. CASE UNCHANGED vars
  BY <1>32 DEF vars, TypeOK
<1> QED
  BY <1>1, <1>2, <1>3, <1>4, <1>5, <1>6, <1>7, <1>8, <1>9, <1>10, <1>11,
     <1>12, <1>13, <1>14, <1>15, <1>16, <1>17, <1>18, <1>19, <1>20, <1>21,
     <1>22, <1>23, <1>24, <1>25, <1>26, <1>27, <1>28, <1>29, <1>30, <1>31,
     <1>32, <1>33 DEF Next, Recall

\* Every reachable state is well typed: no step of the read path reads a
\* payload without a captured generation.
THEOREM TypeCorrect == Spec => []TypeOK
<1>1. Init => TypeOK /\ ValueTagged
  BY ConstantsAssumption DEF Init, TypeOK, ValueTagged, Versions, Jobs, Gens, NoGen, Absent, EmptySet, FlushSteps, Steps
<1>2. TypeOK /\ ValueTagged /\ [Next]_vars => (TypeOK /\ ValueTagged)'
  BY TypeStep
<1> QED
  BY <1>1, <1>2, PTL DEF Spec

-----------------------------------------------------------------------------
(* What a step can do to each part of the state.                           *)

\* Versions only grow, and while Redis keeps its data so do generations.
LEMMA Monotone ==
  ASSUME TypeOK, Next, ~RedisLoses
  PROVE  /\ version \in Nat /\ version' \in Nat /\ version <= version'
         /\ generation \in Nat /\ generation' \in Nat
         /\ generation <= generation'
<1>1. version \in Nat /\ generation \in Nat
  BY ConstantsAssumption DEF TypeOK, Versions, Gens
<1>2. /\ version' \in {version, version + 1}
      /\ generation' \in {generation, generation + 1}
  BY DEF Next, Recall, Commit, Crash, Engage, Repair, Bump, BumpFails, Complete,
         Begin, PassBypass, ReadGeneration, ReadValue, RereadGeneration,
         NoLookup, RecheckBarrier, RecheckGeneration, AnswerHit, NotCurrent,
         ReadClock, NoClock, ReadWorkingSet, FetchWorkingSet, AdmitGeneration,
         AdmitBarrier, KeepWorkingSet, Discard, SearchDatabase, CheckFill,
         PutResult, NoPut,
         CommitRepeated, DropSet, LoseRedis, database, redis
<1> QED
  BY <1>1, <1>2

\* Without repeated identities a new mutation comes with its job, and a job leaves
\* only when a process that bumped the generation for it completes it.
LEMMA BarrierChange ==
  ASSUME TypeOK, Next, ~Repeats
  PROVE  \/ version' = version /\ pending' = pending
         \/ version' = version + 1 /\ pending' = pending \cup {version + 1}
         \/ /\ version' = version
            /\ \E p \in Procs, j \in Jobs :
                  flush[p][j] = "bumped" /\ pending' = pending \ {j}
  BY DEF Next, Recall, Commit, Crash, Engage, Repair, Bump, BumpFails, Complete,
         Begin, PassBypass, ReadGeneration, ReadValue, RereadGeneration,
         NoLookup, RecheckBarrier, RecheckGeneration, AnswerHit, NotCurrent,
         ReadClock, NoClock, ReadWorkingSet, FetchWorkingSet, AdmitGeneration,
         AdmitBarrier, KeepWorkingSet, Discard, SearchDatabase, CheckFill,
         PutResult, NoPut,
         CommitRepeated, DropSet, LoseRedis, database, redis

\* A working set is kept, dropped, or stored by a request that saw no barrier.
LEMMA SetChange ==
  ASSUME TypeOK, Next, NEW p \in Procs
  PROVE  \/ workingSet'[p] \in {workingSet[p], EmptySet}
         \/ \E r \in Readers :
               /\ pc[r] = "keep"
               /\ workingSet'[p] = [gen |-> tag[r], rows |-> rows[r]]
  BY DEF TypeOK, Next, Recall, Commit, Crash, Engage, Repair, Bump, BumpFails, Complete,
         Begin, PassBypass, ReadGeneration, ReadValue, RereadGeneration,
         NoLookup, RecheckBarrier, RecheckGeneration, AnswerHit, NotCurrent,
         ReadClock, NoClock, ReadWorkingSet, FetchWorkingSet, AdmitGeneration,
         AdmitBarrier, KeepWorkingSet, Discard, SearchDatabase, CheckFill,
         PutResult, NoPut,
         CommitRepeated, DropSet, LoseRedis, process

\* A cached answer is kept, or written by a request under its own generation.
LEMMA ResultChange ==
  ASSUME TypeOK, Next, ~RedisLoses, NEW g \in Gens
  PROVE  \/ results'[g] = results[g]
         \/ \E r \in Readers :
               pc[r] = "write" /\ tag[r] = g /\ results'[g] = rows[r]
  BY DEF TypeOK, Next, Recall, Commit, Crash, Engage, Repair, Bump, BumpFails, Complete,
         Begin, PassBypass, ReadGeneration, ReadValue, RereadGeneration,
         NoLookup, RecheckBarrier, RecheckGeneration, AnswerHit, NotCurrent,
         ReadClock, NoClock, ReadWorkingSet, FetchWorkingSet, AdmitGeneration,
         AdmitBarrier, KeepWorkingSet, Discard, SearchDatabase, CheckFill,
         PutResult, NoPut,
         CommitRepeated, DropSet, LoseRedis, redis

\* The step leaves the request alone.
Untouched(r) ==
    /\ pc'[r] = pc[r] /\ tag'[r] = tag[r] /\ rows'[r] = rows[r]
    /\ floor'[r] = floor[r] /\ mark'[r] = mark[r] /\ keyed'[r] = keyed[r]

\* The process serving the request dies.
Abandoned(r) ==
    /\ pc'[r] = "idle" /\ tag'[r] = NoGen /\ rows'[r] = rows[r]
    /\ floor'[r] = floor[r] /\ mark'[r] = 0

\* A request moves by a step of its own, or is abandoned by a crash.
LEMMA RequestChange ==
  ASSUME TypeOK, Next, NEW r \in Readers
  PROVE  Untouched(r) \/ Abandoned(r) \/ Recall(r) \/ \E p \in Procs : Begin(r, p)
<1>. USE DEF Untouched, TypeOK
<1>1. ASSUME NEW q \in Readers, q # r, Recall(q) PROVE Untouched(r)
  <2>1. CASE PassBypass(q) BY <2>1, <1>1 DEF PassBypass, Tested, Goto
  <2>2. CASE ReadGeneration(q) BY <2>2, <1>1 DEF ReadGeneration, Goto
  <2>3. CASE ReadValue(q) BY <2>3, <1>1 DEF ReadValue, Goto
  <2>4. CASE RereadGeneration(q) BY <2>4, <1>1 DEF RereadGeneration, Goto
  <2>5. CASE NoLookup(q) BY <2>5, <1>1 DEF NoLookup, Refused, Goto
  <2>6. CASE RecheckBarrier(q) BY <2>6, <1>1 DEF RecheckBarrier, Goto
  <2>7. CASE RecheckGeneration(q) BY <2>7, <1>1 DEF RecheckGeneration, Goto
  <2>8. CASE AnswerHit(q) BY <2>8, <1>1 DEF AnswerHit, Finish, Goto
  <2>9. CASE NotCurrent(q) BY <2>9, <1>1 DEF NotCurrent, Refused, Goto
  <2>10. CASE ReadClock(q) BY <2>10, <1>1 DEF ReadClock, Goto
  <2>11. CASE NoClock(q) BY <2>11, <1>1 DEF NoClock, Refused, Goto
  <2>12. CASE ReadWorkingSet(q) BY <2>12, <1>1 DEF ReadWorkingSet, Goto
  <2>13. CASE FetchWorkingSet(q) BY <2>13, <1>1 DEF FetchWorkingSet, Goto
  <2>14. CASE AdmitGeneration(q) BY <2>14, <1>1 DEF AdmitGeneration, Goto
  <2>15. CASE AdmitBarrier(q) BY <2>15, <1>1 DEF AdmitBarrier, Goto
  <2>16. CASE KeepWorkingSet(q) BY <2>16, <1>1 DEF KeepWorkingSet, Goto
  <2>17. CASE Discard(q) BY <2>17, <1>1 DEF Discard, Refused, Goto
  <2>18. CASE SearchDatabase(q) BY <2>18, <1>1 DEF SearchDatabase, Goto
  <2>19. CASE CheckFill(q) BY <2>19, <1>1 DEF CheckFill, Finish, Goto
  <2>20. CASE PutResult(q) BY <2>20, <1>1 DEF PutResult, Finish, Goto
  <2>21. CASE NoPut(q) BY <2>21, <1>1 DEF NoPut, Refused, Finish, Goto
  <2> QED
    BY <1>1, <2>1, <2>2, <2>3, <2>4, <2>5, <2>6, <2>7, <2>8, <2>9, <2>10,
       <2>11, <2>12, <2>13, <2>14, <2>15, <2>16, <2>17, <2>18, <2>19, <2>20,
       <2>21 DEF Recall
<1>2. ASSUME NEW q \in Readers, q # r, NEW p \in Procs, Begin(q, p) PROVE Untouched(r)
  BY <1>2 DEF Begin, Goto
<1>3. ASSUME NEW p \in Procs, Crash(p) PROVE Untouched(r) \/ Abandoned(r)
  BY <1>3 DEF Crash, Abandoned
<1> HIDE DEF TypeOK
<1>4. ASSUME NEW p \in Procs, Commit(p) \/ CommitRepeated(p) PROVE Untouched(r)
  BY <1>4 DEF Commit, CommitRepeated, reader
<1>5. ASSUME NEW p \in Procs, NEW j \in Jobs,
             Engage(p, j) \/ DropSet(p, j) \/ Repair(p, j) \/ Bump(p, j)
               \/ BumpFails(p, j) \/ Complete(p, j)
      PROVE  Untouched(r)
  BY <1>5 DEF Engage, DropSet, Repair, Bump, BumpFails, Complete, reader
<1>6. CASE LoseRedis
  BY <1>6 DEF LoseRedis, reader
<1> HIDE DEF Untouched
<1> QED
  BY <1>1, <1>2, <1>3, <1>4, <1>5, <1>6 DEF Next


\* No step of a request moves the database, the generation or a flush.
LEMMA RecallReads ==
  ASSUME NEW r \in Readers, Recall(r)
  PROVE  UNCHANGED <<version, pending, generation, flush>>
BY DEF Recall, PassBypass, ReadGeneration, ReadValue, RereadGeneration,
NoLookup, RecheckBarrier, RecheckGeneration, AnswerHit, NotCurrent, ReadClock,
NoClock, ReadWorkingSet, FetchWorkingSet, AdmitGeneration, AdmitBarrier,
KeepWorkingSet, Discard, SearchDatabase, CheckFill, PutResult, NoPut,
       database, redis, process

\* Data under a captured generation is kept, or was just read: from the
\* database, from Redis, or from a working set of the same generation.
LEMMA HoldingChange ==
  ASSUME TypeOK, ValueTagged, Next, NEW r \in Readers, Holding(r)'
  PROVE  /\ tag'[r] = tag[r]
         /\ \/ Holding(r) /\ rows'[r] = rows[r]
            \/ rows'[r] = version
            \/ /\ pc[r] = "value" /\ tag[r] \in Gens
               /\ results[tag[r]] # Absent /\ rows'[r] = results[tag[r]]
            \/ \E p \in Procs : /\ pc[r] = "workingset"
                                /\ workingSet[p].gen = tag[r]
                                /\ rows'[r] = workingSet[p].rows
<1>1. CASE Untouched(r)
  BY <1>1 DEF Untouched, Holding
<1>2. CASE Abandoned(r)
  BY <1>2 DEF Abandoned, Holding
<1>3. ASSUME NEW p \in Procs, Begin(r, p) PROVE FALSE
  BY <1>3 DEF Begin, Goto, Holding, TypeOK
<1>4. CASE Recall(r)
  <2>. USE DEF Holding, TypeOK, Goto
  <2>1. CASE PassBypass(r) BY <2>1 DEF PassBypass, Tested
  <2>2. CASE ReadGeneration(r) BY <2>2 DEF ReadGeneration
  <2>3. CASE ReadValue(r) BY <2>3 DEF ReadValue, ValueTagged
  <2>4. CASE RereadGeneration(r) BY <2>4 DEF RereadGeneration
  <2>5. CASE NoLookup(r) BY <2>5 DEF NoLookup, Refused
  <2>6. CASE RecheckBarrier(r) BY <2>6 DEF RecheckBarrier
  <2>7. CASE RecheckGeneration(r) BY <2>7 DEF RecheckGeneration
  <2>8. CASE AnswerHit(r) BY <2>8 DEF AnswerHit, Finish
  <2>9. CASE NotCurrent(r) BY <2>9 DEF NotCurrent, Refused
  <2>10. CASE ReadClock(r) BY <2>10 DEF ReadClock
  <2>11. CASE NoClock(r) BY <2>11 DEF NoClock, Refused
  <2>12. CASE ReadWorkingSet(r) BY <2>12 DEF ReadWorkingSet
  <2>13. CASE FetchWorkingSet(r) BY <2>13 DEF FetchWorkingSet
  <2>14. CASE AdmitGeneration(r) BY <2>14 DEF AdmitGeneration
  <2>15. CASE AdmitBarrier(r) BY <2>15 DEF AdmitBarrier
  <2>16. CASE KeepWorkingSet(r) BY <2>16 DEF KeepWorkingSet
  <2>17. CASE Discard(r) BY <2>17 DEF Discard, Refused
  <2>18. CASE SearchDatabase(r) BY <2>18 DEF SearchDatabase
  <2>19. CASE CheckFill(r) BY <2>19 DEF CheckFill, Finish
  <2>20. CASE PutResult(r) BY <2>20 DEF PutResult, Finish
  <2>21. CASE NoPut(r) BY <2>21 DEF NoPut, Refused, Finish
  <2> HIDE DEF Holding, TypeOK, Goto
  <2> QED
    BY <1>4, <2>1, <2>2, <2>3, <2>4, <2>5, <2>6, <2>7, <2>8, <2>9, <2>10,
       <2>11, <2>12, <2>13, <2>14, <2>15, <2>16, <2>17, <2>18, <2>19, <2>20,
       <2>21 DEF Recall
<1> QED
  BY <1>1, <1>2, <1>3, <1>4, RequestChange

\* A request that has captured a generation had done so before, or captures
\* the current one now, with the barrier down since its first check.
LEMMA CaptureChange ==
  ASSUME TypeOK, Next, NEW r \in Readers, Captured(r)'
  PROVE  /\ floor'[r] = floor[r]
         /\ \/ Captured(r) /\ tag'[r] = tag[r]
            \/ /\ Trusting(r) /\ tag'[r] = generation /\ ~Holding(r)'
               /\ Recall(r) /\ UNCHANGED <<results, workingSet>>
<1>1. CASE Untouched(r)
  BY <1>1 DEF Untouched, Captured, Trusting
<1>2. CASE Abandoned(r)
  BY <1>2 DEF Abandoned, Captured, Trusting
<1>3. ASSUME NEW p \in Procs, Begin(r, p) PROVE FALSE
  BY <1>3 DEF Begin, Goto, Captured, Trusting, TypeOK
<1>4. CASE Recall(r)
  <2>. USE DEF Captured, Trusting, Holding, TypeOK, Goto
  <2>1. CASE PassBypass(r) BY <2>1, <1>4 DEF PassBypass, Tested, redis, process
  <2>2. CASE ReadGeneration(r) BY <2>2, <1>4 DEF ReadGeneration, redis, process
  <2>3. CASE ReadValue(r) BY <2>3, <1>4 DEF ReadValue, redis, process
  <2>4. CASE RereadGeneration(r) BY <2>4, <1>4 DEF RereadGeneration, redis, process
  <2>5. CASE NoLookup(r) BY <2>5, <1>4 DEF NoLookup, Refused, redis, process
  <2>6. CASE RecheckBarrier(r) BY <2>6, <1>4 DEF RecheckBarrier, redis, process
  <2>7. CASE RecheckGeneration(r) BY <2>7, <1>4 DEF RecheckGeneration, redis, process
  <2>8. CASE AnswerHit(r) BY <2>8, <1>4 DEF AnswerHit, Finish, redis, process
  <2>9. CASE NotCurrent(r) BY <2>9, <1>4 DEF NotCurrent, Refused, redis, process
  <2>10. CASE ReadClock(r) BY <2>10, <1>4 DEF ReadClock, redis, process
  <2>11. CASE NoClock(r) BY <2>11, <1>4 DEF NoClock, Refused, redis, process
  <2>12. CASE ReadWorkingSet(r) BY <2>12, <1>4 DEF ReadWorkingSet, redis, process
  <2>13. CASE FetchWorkingSet(r) BY <2>13, <1>4 DEF FetchWorkingSet, redis, process
  <2>14. CASE AdmitGeneration(r) BY <2>14, <1>4 DEF AdmitGeneration, redis, process
  <2>15. CASE AdmitBarrier(r) BY <2>15, <1>4 DEF AdmitBarrier, redis, process
  <2>16. CASE KeepWorkingSet(r) BY <2>16, <1>4 DEF KeepWorkingSet, redis, process
  <2>17. CASE Discard(r) BY <2>17, <1>4 DEF Discard, Refused, redis, process
  <2>18. CASE SearchDatabase(r) BY <2>18, <1>4 DEF SearchDatabase, redis, process
  <2>19. CASE CheckFill(r) BY <2>19, <1>4 DEF CheckFill, Finish, redis, process
  <2>20. CASE PutResult(r) BY <2>20, <1>4 DEF PutResult, Finish, redis, process
  <2>21. CASE NoPut(r) BY <2>21, <1>4 DEF NoPut, Refused, Finish, redis, process
  <2> HIDE DEF Captured, Trusting, Holding, TypeOK, Goto
  <2> QED
    BY <1>4, <2>1, <2>2, <2>3, <2>4, <2>5, <2>6, <2>7, <2>8, <2>9, <2>10,
       <2>11, <2>12, <2>13, <2>14, <2>15, <2>16, <2>17, <2>18, <2>19, <2>20,
       <2>21 DEF Recall
<1> QED
  BY <1>1, <1>2, <1>3, <1>4, RequestChange

-----------------------------------------------------------------------------
(* The inductive invariant is preserved, part by part.                     *)

\* A job or a flush in progress is that of a committed mutation: only Commit makes
\* one, for the mutation it adds.
LEMMA JobsBehindStep ==
  ASSUME TypeOK, JobsBehind, Next, ~Repeats, ~RedisLoses
  PROVE  JobsBehind'
<1>1. version \in Nat /\ version' \in Nat /\ version <= version'
  BY Monotone
<1>2. \A j \in pending' : j <= version'
  <2>1. \A j \in pending : j \in Nat
    BY ConstantsAssumption DEF TypeOK, Jobs
  <2> QED
    BY <1>1, <2>1, BarrierChange DEF JobsBehind
<1>3. ASSUME NEW q \in Procs, NEW i \in Jobs, flush'[q][i] # "none"
      PROVE  i <= version'
  <2>1. i \in Nat
    BY ConstantsAssumption DEF Jobs
  <2>2. CASE flush[q][i] # "none"
    BY <1>1, <2>1, <2>2 DEF JobsBehind
  <2>3. CASE flush[q][i] = "none"
    <3>. USE DEF TypeOK
    <3>1. ASSUME NEW p \in Procs, Commit(p) PROVE i <= version'
      BY <1>1, <1>3, <2>1, <2>3, <3>1 DEF Commit
    <3>2. ASSUME NEW p \in Procs, Crash(p) PROVE FALSE
      BY <1>3, <2>3, <3>2 DEF Crash
    <3>3. ASSUME NEW p \in Procs, NEW j \in Jobs,
                 Engage(p, j) \/ Bump(p, j) \/ BumpFails(p, j) \/ Complete(p, j)
          PROVE  FALSE
      <4>1. flush[p][j] # "none" /\ \E s \in {"bump", "bumped", "none"} :
               flush' = [flush EXCEPT ![p][j] = s]
        BY <3>3 DEF Engage, Bump, BumpFails, Complete
      <4> QED
        BY <1>3, <2>3, <4>1
    <3>6. ASSUME NEW p \in Procs, NEW j \in Jobs, DropSet(p, j) PROVE FALSE
      BY <1>3, <2>3, <3>6 DEF DropSet
    <3>4. ASSUME NEW p \in Procs, NEW j \in Jobs, Repair(p, j)
          PROVE  i <= version'
      BY <1>3, <2>3, <3>4 DEF Repair, JobsBehind, database
    <3>5. flush' # flush
      BY <1>3, <2>3
    <3> QED
      BY <3>1, <3>2, <3>3, <3>4, <3>5, <3>6, RecallReads
      DEF Next, Begin, CommitRepeated, LoseRedis, process
  <2> QED
    BY <2>2, <2>3
<1> QED
  BY <1>2, <1>3 DEF JobsBehind

\* A request's own steps fill its fields from the shared state.
LEMMA RecallCopies ==
  ASSUME TypeOK, ValueTagged, NEW r \in Readers, Recall(r)
  PROVE  /\ floor'[r] \in {floor[r], mark[r]} /\ mark'[r] \in {mark[r], version, 0}
         /\ tag'[r] \in {tag[r], generation, NoGen}
         /\ \/ rows'[r] \in {rows[r], version, 0}
            \/ \E g \in Gens : results[g] # Absent /\ rows'[r] = results[g]
            \/ \E p \in Procs : rows'[r] = workingSet[p].rows
<1>. USE DEF TypeOK
<1>1. CASE PassBypass(r) BY <1>1 DEF PassBypass, Tested
<1>2. CASE ReadGeneration(r) BY <1>2 DEF ReadGeneration
<1>3. CASE ReadValue(r) BY <1>3 DEF ReadValue, ValueTagged
<1>4. CASE RereadGeneration(r) BY <1>4 DEF RereadGeneration
<1>5. CASE NoLookup(r) BY <1>5 DEF NoLookup, Refused
<1>6. CASE RecheckBarrier(r) BY <1>6 DEF RecheckBarrier
<1>7. CASE RecheckGeneration(r) BY <1>7 DEF RecheckGeneration
<1>8. CASE AnswerHit(r) BY <1>8 DEF AnswerHit, Finish
<1>9. CASE NotCurrent(r) BY <1>9 DEF NotCurrent, Refused
<1>10. CASE ReadClock(r) BY <1>10 DEF ReadClock
<1>11. CASE NoClock(r) BY <1>11 DEF NoClock, Refused
<1>12. CASE ReadWorkingSet(r) BY <1>12 DEF ReadWorkingSet
<1>13. CASE FetchWorkingSet(r) BY <1>13 DEF FetchWorkingSet
<1>14. CASE AdmitGeneration(r) BY <1>14 DEF AdmitGeneration
<1>15. CASE AdmitBarrier(r) BY <1>15 DEF AdmitBarrier
<1>16. CASE KeepWorkingSet(r) BY <1>16 DEF KeepWorkingSet
<1>17. CASE Discard(r) BY <1>17 DEF Discard, Refused
<1>18. CASE SearchDatabase(r) BY <1>18 DEF SearchDatabase
<1>19. CASE CheckFill(r) BY <1>19 DEF CheckFill, Finish
<1>20. CASE PutResult(r) BY <1>20 DEF PutResult, Finish
<1>21. CASE NoPut(r) BY <1>21 DEF NoPut, Refused, Finish
<1> HIDE DEF TypeOK
<1> QED
  BY <1>1, <1>2, <1>3, <1>4, <1>5, <1>6, <1>7, <1>8, <1>9, <1>10, <1>11,
     <1>12, <1>13, <1>14, <1>15, <1>16, <1>17, <1>18, <1>19, <1>20, <1>21 DEF Recall

\* No request holds a version or a generation ahead of the shared one.
LEMMA RequestsBehindStep ==
  ASSUME TypeOK, ValueTagged, RequestsBehind, SetsBehind, ResultsBehind, Next,
         ~RedisLoses
  PROVE  RequestsBehind'
<1> SUFFICES ASSUME NEW r \in Readers
             PROVE  /\ floor'[r] <= version' /\ mark'[r] <= version'
                    /\ rows'[r] <= version' /\ tag'[r] <= generation'
  BY DEF RequestsBehind
<1>1. /\ version \in Nat /\ version' \in Nat /\ version <= version'
      /\ generation \in Nat /\ generation' \in Nat /\ generation <= generation'
  BY Monotone
<1>2. /\ floor[r] \in Nat /\ mark[r] \in Nat /\ rows[r] \in Nat /\ tag[r] \in Int
      /\ floor[r] <= version /\ mark[r] <= version /\ rows[r] <= version
      /\ tag[r] <= generation
  BY ConstantsAssumption DEF TypeOK, RequestsBehind, Versions, Gens, NoGen
<1>3. CASE Untouched(r)
  BY <1>1, <1>2, <1>3 DEF Untouched
<1>4. CASE Abandoned(r)
  BY <1>1, <1>2, <1>4 DEF Abandoned, NoGen
<1>5. ASSUME NEW p \in Procs, Begin(r, p)
      PROVE  /\ floor'[r] <= version' /\ mark'[r] <= version'
             /\ rows'[r] <= version' /\ tag'[r] <= generation'
  BY <1>1, <1>2, <1>5 DEF Begin, TypeOK, database
<1>6. CASE Recall(r)
  <2>1. version' = version /\ generation' = generation
    BY <1>6, RecallReads
  <2>2. floor'[r] <= version' /\ mark'[r] <= version' /\ tag'[r] <= generation'
    BY <1>1, <1>2, <1>6, <2>1, RecallCopies DEF NoGen
  <2>3. rows'[r] <= version'
    BY <1>1, <1>2, <1>6, <2>1, RecallCopies DEF ResultsBehind, SetsBehind
  <2> QED
    BY <2>2, <2>3
<1> QED
  BY <1>3, <1>4, <1>5, <1>6, RequestChange

\* Nor does a working set or a Redis result, which requests fill.
LEMMA SharedBehindStep ==
  ASSUME TypeOK, RequestsBehind, SetsBehind, ResultsBehind, Next, ~RedisLoses
  PROVE  SetsBehind' /\ ResultsBehind'
<1>1. /\ version \in Nat /\ version' \in Nat /\ version <= version'
      /\ generation \in Nat /\ generation' \in Nat /\ generation <= generation'
  BY Monotone
<1>2. \A r \in Readers : /\ rows[r] \in Nat /\ tag[r] \in Int
                         /\ rows[r] <= version /\ tag[r] <= generation
  BY ConstantsAssumption DEF TypeOK, RequestsBehind, Versions, Gens, NoGen
<1>3. ASSUME NEW p \in Procs
      PROVE  workingSet'[p].rows <= version' /\ workingSet'[p].gen <= generation'
  <2>1. /\ workingSet[p].rows \in Nat /\ workingSet[p].rows <= version
        /\ workingSet[p].gen \in Int /\ workingSet[p].gen <= generation
    BY ConstantsAssumption DEF TypeOK, SetsBehind, Versions, Gens, NoGen
  <2>2. CASE workingSet'[p] = workingSet[p]
    BY <1>1, <2>1, <2>2
  <2>3. CASE workingSet'[p] = EmptySet
    BY <1>1, <2>3 DEF EmptySet, NoGen
  <2>4. ASSUME NEW r \in Readers,
               workingSet'[p] = [gen |-> tag[r], rows |-> rows[r]]
        PROVE  /\ workingSet'[p].rows <= version'
               /\ workingSet'[p].gen <= generation'
    BY <1>1, <1>2, <2>4
  <2> QED
    BY <2>2, <2>3, <2>4, SetChange
<1>4. ASSUME NEW g \in Gens, results'[g] # Absent
      PROVE  g <= generation' /\ results'[g] <= version'
  <2>1. /\ g \in Nat
        /\ results[g] # Absent =>
             results[g] \in Nat /\ g <= generation /\ results[g] <= version
    BY ConstantsAssumption DEF TypeOK, ResultsBehind, Versions, Gens, Absent
  <2> QED
    BY <1>1, <1>2, <1>4, <2>1, ResultChange
<1> QED
  BY <1>3, <1>4 DEF SetsBehind, ResultsBehind

\* Only INCR, with its reply, brings a job to where its barrier may be released.
LEMMA BumpedChange ==
  ASSUME TypeOK, Next, NEW q \in Procs, NEW i \in Jobs, flush'[q][i] = "bumped"
  PROVE  flush[q][i] = "bumped" \/ generation' = generation + 1
<1>. USE DEF TypeOK
<1>1. ASSUME NEW p \in Procs, Commit(p) \/ CommitRepeated(p)
      PROVE  flush[q][i] = "bumped"
  <2>1. \E s \in {"committed", "repeated"} :
           flush' = [flush EXCEPT ![p][version + 1] = s]
    BY <1>1 DEF Commit, CommitRepeated
  <2> QED
    BY <2>1
<1>2. ASSUME NEW p \in Procs, Crash(p) PROVE flush[q][i] = "bumped"
  BY <1>2 DEF Crash
<1>3. ASSUME NEW p \in Procs, NEW j \in Jobs,
             Engage(p, j) \/ DropSet(p, j) \/ Repair(p, j) \/ BumpFails(p, j)
               \/ Complete(p, j)
      PROVE  flush[q][i] = "bumped"
  <2>1. \E s \in {"bump", "none"} :
           flush' = [flush EXCEPT ![p][j] = s]
    BY <1>3 DEF Engage, DropSet, Repair, BumpFails, Complete
  <2> QED
    BY <2>1
<1>4. ASSUME NEW p \in Procs, NEW j \in Jobs, Bump(p, j)
      PROVE  generation' = generation + 1
  BY <1>4 DEF Bump
<1> QED
  BY <1>1, <1>2, <1>3, <1>4, RecallReads
  DEF Next, Begin, CommitRepeated, LoseRedis, process

\* Fresh(v) in the next state, of a value v that is already evaluated.
FreshNext(v) == \A j \in 1..version' : Bumped(j)' => j <= v

\* A step that leaves the generation alone releases no barrier that was not
\* about to be released, so data that was fresh stays fresh.
LEMMA FreshKept ==
  ASSUME TypeOK, TypeOK', JobsBehind, Next, ~Repeats, ~RedisLoses,
         generation' = generation, NEW v \in Int, Fresh(v)
  PROVE  FreshNext(v)
<1> SUFFICES ASSUME NEW i \in 1..version', Bumped(i)' PROVE i <= v
  BY DEF FreshNext
<1>1. /\ version \in Nat /\ version' \in Nat /\ generation \in Nat
      /\ i \in Nat /\ i \in Jobs
  BY Monotone, ConstantsAssumption DEF TypeOK, Versions, Jobs
<1>2. \A q \in Procs : flush'[q][i] = "bumped" => flush[q][i] = "bumped"
  BY <1>1, BumpedChange
<1>3. Bumped(i) /\ i <= version
  <2>1. CASE \E q \in Procs : flush'[q][i] = "bumped"
    BY <1>1, <1>2, <2>1 DEF Bumped, JobsBehind
  <2>2. CASE i \notin pending'
    BY <1>1, <2>2, BarrierChange DEF Bumped
  <2> QED
    BY <2>1, <2>2 DEF Bumped
<1> QED
  BY <1>1, <1>3 DEF Fresh

\* No step puts data that predates a released mutation within reach of the current
\* generation: a mutation is released only after the generation has moved on.
LEMMA ReachableStep ==
  ASSUME TypeOK, TypeOK', ValueTagged, JobsBehind, RequestsBehind, SetsBehind,
         ResultsBehind, ReachableIsFresh, Next, ~Repeats, ~RedisLoses
  PROVE  ReachableIsFresh'
<1>1. /\ generation \in Nat /\ generation' \in Nat
      /\ generation \in Gens /\ generation' \in Gens /\ NoGen \notin Nat
      /\ version \in Int /\ Fresh(version)
      /\ \A r \in Readers : rows[r] \in Int
      /\ \A p \in Procs : workingSet[p].rows \in Int
      /\ \A g \in Gens : results[g] \in Int
  BY ConstantsAssumption, Monotone
  DEF TypeOK, Versions, Gens, Absent, NoGen, Fresh
<1>2. CASE generation' = generation
  <2>0. \A v \in Int : Fresh(v) => FreshNext(v)
    BY <1>2, FreshKept
  <2>1. results'[generation] # Absent => FreshNext(results'[generation])
    BY <1>1, <2>0, ResultChange DEF ReachableIsFresh, Holding
  <2>2. ASSUME NEW p \in Procs, workingSet'[p].gen = generation
        PROVE  FreshNext(workingSet'[p].rows)
    <3>1. workingSet'[p] # EmptySet
      BY <1>1, <2>2 DEF EmptySet
    <3>2. CASE workingSet'[p] = workingSet[p]
      BY <1>1, <2>0, <2>2, <3>2 DEF ReachableIsFresh
    <3>3. ASSUME NEW r \in Readers, pc[r] = "keep",
                 workingSet'[p] = [gen |-> tag[r], rows |-> rows[r]]
          PROVE  FreshNext(workingSet'[p].rows)
      BY <1>1, <2>0, <2>2, <3>3 DEF ReachableIsFresh, Holding
    <3> QED
      BY <3>1, <3>2, <3>3, SetChange
  <2>3. ASSUME NEW r \in Readers, Holding(r)', tag'[r] = generation
        PROVE  FreshNext(rows'[r])
    <3>1. tag[r] = generation
      BY <2>3, HoldingChange
    <3>2. Fresh(rows'[r]) /\ rows'[r] \in Int
      BY <1>1, <2>3, <3>1, HoldingChange DEF ReachableIsFresh
    <3> QED
      BY <2>0, <3>2
  <2> QED
    BY <1>2, <2>1, <2>2, <2>3 DEF ReachableIsFresh, FreshNext, Fresh
<1>3. CASE generation' # generation
  <2>1. generation' = generation + 1 /\ UNCHANGED <<results, workingSet, tag>>
    <3>1. ASSUME NEW r \in Readers, Recall(r) PROVE FALSE
      BY <1>3, <3>1, RecallReads
    <3> QED
      BY <1>1, <1>3, <3>1
      DEF Next, Commit, Crash, Engage, Repair, Bump, BumpFails, Complete, Begin,
          CommitRepeated, DropSet, LoseRedis, redis, reader
  <2>2. /\ results'[generation'] = Absent
        /\ \A p \in Procs : workingSet'[p].gen # generation'
        /\ \A r \in Readers : tag'[r] # generation'
    BY <1>1, <2>1 DEF ResultsBehind, SetsBehind, RequestsBehind
  <2> QED
    BY <2>2 DEF ReachableIsFresh
<1> QED
  BY <1>2, <1>3

\* A barrier that came down for the mutations so far does not come back up.
LEMMA BarrierStaysDown ==
  ASSUME TypeOK, Next, ~Repeats, NEW n \in Nat, n <= version, Cleared(n)
  PROVE  \A j \in 1..n : j \notin pending'
<1>1. version \in Nat
  BY ConstantsAssumption DEF TypeOK, Versions
<1> QED
  BY <1>1, BarrierChange DEF Cleared

\* A request trusts shared data, and settles a hit, only after it found no
\* barrier pending.
LEMMA TrustChange ==
  ASSUME TypeOK, Next, NEW r \in Readers
  PROVE  /\ Trusting(r)' =>
               \/ Trusting(r) /\ floor'[r] = floor[r]
               \/ pending = {} /\ pending' = {} /\ floor'[r] = version
         /\ Marked(r)' =>
               \/ /\ Marked(r)
                  /\ mark'[r] = mark[r] /\ floor'[r] = floor[r]
               \/ /\ pending = {} /\ pending' = {}
                  /\ mark'[r] = version /\ floor'[r] = floor[r]
<1>. DEFINE Goal == /\ Trusting(r)' =>
                          \/ Trusting(r) /\ floor'[r] = floor[r]
                          \/ pending = {} /\ pending' = {} /\ floor'[r] = version
                    /\ Marked(r)' =>
                          \/ /\ Marked(r)
                             /\ mark'[r] = mark[r] /\ floor'[r] = floor[r]
                          \/ /\ pending = {} /\ pending' = {}
                             /\ mark'[r] = version /\ floor'[r] = floor[r]
<1> SUFFICES Goal
  OBVIOUS
<1>1. CASE Untouched(r)
  BY <1>1 DEF Untouched, Trusting, Marked
<1>2. CASE Abandoned(r)
  BY <1>2 DEF Abandoned, Trusting, Marked
<1>3. ASSUME NEW p \in Procs, Begin(r, p) PROVE Goal
  BY <1>3 DEF Begin, Goto, Trusting, Marked, TypeOK, database
<1>4. CASE Recall(r)
  <2>. USE DEF Trusting, Marked, TypeOK, Goto
  <2>1. CASE PassBypass(r) BY <2>1 DEF PassBypass, Tested, database
  <2>2. CASE ReadGeneration(r) BY <2>2 DEF ReadGeneration, database
  <2>3. CASE ReadValue(r) BY <2>3 DEF ReadValue, database
  <2>4. CASE RereadGeneration(r) BY <2>4 DEF RereadGeneration, database
  <2>5. CASE NoLookup(r) BY <2>5 DEF NoLookup, Refused, database
  <2>6. CASE RecheckBarrier(r) BY <2>6 DEF RecheckBarrier, database
  <2>7. CASE RecheckGeneration(r) BY <2>7 DEF RecheckGeneration, database
  <2>8. CASE AnswerHit(r) BY <2>8 DEF AnswerHit, Finish, database
  <2>9. CASE NotCurrent(r) BY <2>9 DEF NotCurrent, Refused, database
  <2>10. CASE ReadClock(r) BY <2>10 DEF ReadClock, database
  <2>11. CASE NoClock(r) BY <2>11 DEF NoClock, Refused, database
  <2>12. CASE ReadWorkingSet(r) BY <2>12 DEF ReadWorkingSet, database
  <2>13. CASE FetchWorkingSet(r) BY <2>13 DEF FetchWorkingSet, database
  <2>14. CASE AdmitGeneration(r) BY <2>14 DEF AdmitGeneration, database
  <2>15. CASE AdmitBarrier(r) BY <2>15 DEF AdmitBarrier, database
  <2>16. CASE KeepWorkingSet(r) BY <2>16 DEF KeepWorkingSet, database
  <2>17. CASE Discard(r) BY <2>17 DEF Discard, Refused, database
  <2>18. CASE SearchDatabase(r) BY <2>18 DEF SearchDatabase, database
  <2>19. CASE CheckFill(r) BY <2>19 DEF CheckFill, Finish, database
  <2>20. CASE PutResult(r) BY <2>20 DEF PutResult, Finish, database
  <2>21. CASE NoPut(r) BY <2>21 DEF NoPut, Refused, Finish, database
  <2> HIDE DEF Trusting, Marked, TypeOK, Goto, Goal
  <2> QED
    BY <1>4, <2>1, <2>2, <2>3, <2>4, <2>5, <2>6, <2>7, <2>8, <2>9, <2>10,
       <2>11, <2>12, <2>13, <2>14, <2>15, <2>16, <2>17, <2>18, <2>19, <2>20,
       <2>21 DEF Recall
<1> HIDE DEF Goal
<1> QED
  BY <1>1, <1>2, <1>3, <1>4, RequestChange

\* The mutations a request saw without a barrier keep having none.
LEMMA BarrierHeldStep ==
  ASSUME TypeOK, RequestsBehind, BarrierHeld, Next, ~Repeats
  PROVE  BarrierHeld'
<1> SUFFICES ASSUME NEW r \in Readers
             PROVE  /\ Trusting(r)' => Cleared(floor[r])'
                    /\ Marked(r)' =>
                          Cleared(mark[r])' /\ floor'[r] <= mark'[r]
  BY DEF BarrierHeld
<1>1. /\ floor[r] \in Nat /\ floor[r] <= version
      /\ mark[r] \in Nat /\ mark[r] <= version
  BY ConstantsAssumption DEF TypeOK, RequestsBehind, Versions
<1>2. ASSUME Trusting(r)' PROVE \A j \in 1..floor'[r] : j \notin pending'
  BY <1>1, <1>2, TrustChange, BarrierStaysDown DEF BarrierHeld
<1>3. ASSUME Marked(r)'
      PROVE  /\ \A j \in 1..mark'[r] : j \notin pending'
             /\ floor'[r] <= mark'[r]
  BY <1>1, <1>3, TrustChange, BarrierStaysDown DEF BarrierHeld
<1> QED
  BY <1>2, <1>3 DEF Cleared

\* What carries the current generation reflects every mutation of a barrier
\* that is down.
LEMMA ClearedMeansFresh ==
  ASSUME NEW n \in Nat, NEW v \in Int, version \in Nat, n <= version,
         Cleared(n), Fresh(v), 0 <= v
  PROVE  n <= v
<1>1. CASE n = 0
  BY <1>1
<1>2. CASE n # 0
  BY <1>2 DEF Cleared, Fresh, Bumped
<1> QED
  BY <1>1, <1>2

\* What carries a captured generation stays at least as new as the request demands.
LEMMA CapturedStep ==
  ASSUME TypeOK, TypeOK', ValueTagged, RequestsBehind, ReachableIsFresh,
         CapturedIsFresh, BarrierHeld, Next, ~RedisLoses
  PROVE  CapturedIsFresh'
<1> SUFFICES ASSUME NEW r \in Readers, Captured(r)'
             PROVE  /\ tag'[r] \in Gens
                    /\ results'[tag'[r]] # Absent => results'[tag'[r]] >= floor'[r]
                    /\ \A p \in Procs : workingSet'[p].gen = tag'[r] =>
                                           workingSet'[p].rows >= floor'[r]
                    /\ \A q \in Readers : Holding(q)' /\ tag'[q] = tag'[r] =>
                                           rows'[q] >= floor'[r]
  BY DEF CapturedIsFresh
<1>1. /\ version \in Nat /\ generation \in Gens /\ NoGen \notin Gens
      /\ \A q \in Readers : /\ floor[q] \in Nat /\ rows[q] \in Nat
                            /\ floor[q] <= version
      /\ \A p \in Procs : workingSet[p].rows \in Nat
      /\ \A g \in Gens : results[g] # Absent => results[g] \in Nat
  BY ConstantsAssumption DEF TypeOK, RequestsBehind, Versions, Gens, NoGen
<1>2. CASE Captured(r) /\ tag'[r] = tag[r] /\ floor'[r] = floor[r]
  <2>1. /\ tag[r] \in Gens
        /\ results[tag[r]] # Absent => results[tag[r]] >= floor[r]
        /\ \A p \in Procs : workingSet[p].gen = tag[r] =>
                               workingSet[p].rows >= floor[r]
        /\ \A q \in Readers : Holding(q) /\ tag[q] = tag[r] =>
                               rows[q] >= floor[r]
    BY <1>2 DEF CapturedIsFresh
  <2>2. results'[tag[r]] # Absent => results'[tag[r]] >= floor[r]
    BY <2>1, ResultChange DEF Holding
  <2>3. ASSUME NEW p \in Procs, workingSet'[p].gen = tag[r]
        PROVE  workingSet'[p].rows >= floor[r]
    <3>1. workingSet'[p] # EmptySet
      BY <1>1, <2>1, <2>3 DEF EmptySet
    <3>2. CASE workingSet'[p] = workingSet[p]
      BY <2>1, <2>3, <3>2
    <3>3. ASSUME NEW q \in Readers, pc[q] = "keep",
                 workingSet'[p] = [gen |-> tag[q], rows |-> rows[q]]
          PROVE  workingSet'[p].rows >= floor[r]
      BY <2>1, <2>3, <3>3 DEF Holding
    <3> QED
      BY <3>1, <3>2, <3>3, SetChange
  <2>4. ASSUME NEW q \in Readers, Holding(q)', tag'[q] = tag[r]
        PROVE  rows'[q] >= floor[r]
    BY <1>1, <2>1, <2>4, HoldingChange
  <2> QED
    BY <1>2, <2>1, <2>2, <2>3, <2>4
<1>3. CASE /\ floor'[r] = floor[r] /\ Trusting(r) /\ tag'[r] = generation
           /\ ~Holding(r)' /\ Recall(r) /\ UNCHANGED <<results, workingSet>>
  <2>1. \A v \in Nat : Fresh(v) => v >= floor[r]
    BY <1>1, <1>3, ClearedMeansFresh DEF BarrierHeld
  <2>2. ASSUME NEW q \in Readers, Holding(q)', tag'[q] = generation
        PROVE  rows'[q] >= floor[r]
    BY <1>1, <1>3, <2>1, <2>2, HoldingChange DEF ReachableIsFresh
  <2> QED
    BY <1>1, <1>3, <2>1, <2>2 DEF ReachableIsFresh
<1> QED
  BY <1>2, <1>3, CaptureChange

\* The data a request settles with was read from the database, had a captured
\* generation, or is a hit whose generation was current at the second check.
LEMMA SettleChange ==
  ASSUME TypeOK, Next, NEW r \in Readers, pc'[r] \in {"fill", "put", "write", "done"}
  PROVE  \/ /\ pc[r] \in {"fill", "put", "write", "done"}
            /\ rows'[r] = rows[r] /\ floor'[r] = floor[r]
         \/ rows'[r] = version /\ floor'[r] = floor[r]
         \/ /\ Captured(r) /\ Holding(r)
            /\ rows'[r] = rows[r] /\ floor'[r] = floor[r]
         \/ /\ Captured(r) /\ floor'[r] = floor[r]
            /\ \E p \in Procs : /\ workingSet[p].gen = tag[r]
                               /\ rows'[r] = workingSet[p].rows
         \/ /\ pc[r] = "confirm"
            /\ rows'[r] = rows[r] /\ floor'[r] = mark[r]
<1>1. CASE Untouched(r)
  BY <1>1 DEF Untouched
<1>2. CASE Abandoned(r)
  BY <1>2 DEF Abandoned
<1>3. ASSUME NEW p \in Procs, Begin(r, p) PROVE FALSE
  BY <1>3 DEF Begin, Goto, TypeOK
<1>4. CASE Recall(r)
  <2>. USE DEF Holding, Captured, Trusting, TypeOK, Goto
  <2>1. CASE PassBypass(r) BY <2>1 DEF PassBypass, Tested
  <2>2. CASE ReadGeneration(r) BY <2>2 DEF ReadGeneration
  <2>3. CASE ReadValue(r) BY <2>3 DEF ReadValue
  <2>4. CASE RereadGeneration(r) BY <2>4 DEF RereadGeneration
  <2>5. CASE NoLookup(r) BY <2>5 DEF NoLookup, Refused
  <2>6. CASE RecheckBarrier(r) BY <2>6 DEF RecheckBarrier
  <2>7. CASE RecheckGeneration(r) BY <2>7 DEF RecheckGeneration
  <2>8. CASE AnswerHit(r) BY <2>8 DEF AnswerHit, Finish
  <2>9. CASE NotCurrent(r) BY <2>9 DEF NotCurrent, Refused
  <2>10. CASE ReadClock(r) BY <2>10 DEF ReadClock
  <2>11. CASE NoClock(r) BY <2>11 DEF NoClock, Refused
  <2>12. CASE ReadWorkingSet(r) BY <2>12 DEF ReadWorkingSet
  <2>13. CASE FetchWorkingSet(r) BY <2>13 DEF FetchWorkingSet
  <2>14. CASE AdmitGeneration(r) BY <2>14 DEF AdmitGeneration
  <2>15. CASE AdmitBarrier(r) BY <2>15 DEF AdmitBarrier
  <2>16. CASE KeepWorkingSet(r) BY <2>16 DEF KeepWorkingSet
  <2>17. CASE Discard(r) BY <2>17 DEF Discard, Refused
  <2>18. CASE SearchDatabase(r) BY <2>18 DEF SearchDatabase
  <2>19. CASE CheckFill(r) BY <2>19 DEF CheckFill, Finish
  <2>20. CASE PutResult(r) BY <2>20 DEF PutResult, Finish
  <2>21. CASE NoPut(r) BY <2>21 DEF NoPut, Refused, Finish
  <2> HIDE DEF Holding, Captured, Trusting, TypeOK, Goto
  <2> QED
    BY <1>4, <2>1, <2>2, <2>3, <2>4, <2>5, <2>6, <2>7, <2>8, <2>9, <2>10,
       <2>11, <2>12, <2>13, <2>14, <2>15, <2>16, <2>17, <2>18, <2>19, <2>20,
       <2>21 DEF Recall
<1> QED
  BY <1>1, <1>2, <1>3, <1>4, RequestChange

\* A hit is confirmed when its generation is read again and still current.
LEMMA ConfirmChange ==
  ASSUME TypeOK, Next, NEW r \in Readers, pc'[r] = "confirm"
  PROVE  /\ rows'[r] = rows[r] /\ mark'[r] = mark[r]
         /\ \/ pc[r] = "confirm"
            \/ pc[r] = "current" /\ generation = tag[r]
<1>1. CASE Untouched(r)
  BY <1>1 DEF Untouched
<1>2. CASE Abandoned(r)
  BY <1>2 DEF Abandoned
<1>3. ASSUME NEW p \in Procs, Begin(r, p) PROVE FALSE
  BY <1>3 DEF Begin, Goto, TypeOK
<1>4. CASE Recall(r)
  <2>. USE DEF TypeOK, Goto
  <2>1. CASE PassBypass(r) BY <2>1 DEF PassBypass, Tested
  <2>2. CASE ReadGeneration(r) BY <2>2 DEF ReadGeneration
  <2>3. CASE ReadValue(r) BY <2>3 DEF ReadValue
  <2>4. CASE RereadGeneration(r) BY <2>4 DEF RereadGeneration
  <2>5. CASE NoLookup(r) BY <2>5 DEF NoLookup, Refused
  <2>6. CASE RecheckBarrier(r) BY <2>6 DEF RecheckBarrier
  <2>7. CASE RecheckGeneration(r) BY <2>7 DEF RecheckGeneration
  <2>8. CASE AnswerHit(r) BY <2>8 DEF AnswerHit, Finish
  <2>9. CASE NotCurrent(r) BY <2>9 DEF NotCurrent, Refused
  <2>10. CASE ReadClock(r) BY <2>10 DEF ReadClock
  <2>11. CASE NoClock(r) BY <2>11 DEF NoClock, Refused
  <2>12. CASE ReadWorkingSet(r) BY <2>12 DEF ReadWorkingSet
  <2>13. CASE FetchWorkingSet(r) BY <2>13 DEF FetchWorkingSet
  <2>14. CASE AdmitGeneration(r) BY <2>14 DEF AdmitGeneration
  <2>15. CASE AdmitBarrier(r) BY <2>15 DEF AdmitBarrier
  <2>16. CASE KeepWorkingSet(r) BY <2>16 DEF KeepWorkingSet
  <2>17. CASE Discard(r) BY <2>17 DEF Discard, Refused
  <2>18. CASE SearchDatabase(r) BY <2>18 DEF SearchDatabase
  <2>19. CASE CheckFill(r) BY <2>19 DEF CheckFill, Finish
  <2>20. CASE PutResult(r) BY <2>20 DEF PutResult, Finish
  <2>21. CASE NoPut(r) BY <2>21 DEF NoPut, Refused, Finish
  <2> HIDE DEF TypeOK, Goto
  <2> QED
    BY <1>4, <2>1, <2>2, <2>3, <2>4, <2>5, <2>6, <2>7, <2>8, <2>9, <2>10,
       <2>11, <2>12, <2>13, <2>14, <2>15, <2>16, <2>17, <2>18, <2>19, <2>20,
       <2>21 DEF Recall
<1> QED
  BY <1>1, <1>2, <1>3, <1>4, RequestChange

\* A request settles only on data as new as the one it was admitted under.
LEMMA SettledStep ==
  ASSUME TypeOK, RequestsBehind, ReachableIsFresh, CapturedIsFresh, BarrierHeld,
         SettledIsFresh, Next
  PROVE  SettledIsFresh'
<1> SUFFICES ASSUME NEW r \in Readers
             PROVE  /\ pc'[r] \in {"fill", "put", "write", "done"} =>
                          rows'[r] >= floor'[r]
                    /\ pc'[r] = "confirm" => rows'[r] >= mark'[r]
  BY DEF SettledIsFresh
<1>1. /\ version \in Nat /\ floor[r] \in Nat /\ mark[r] \in Nat
      /\ rows[r] \in Nat /\ floor[r] <= version /\ mark[r] <= version
  BY ConstantsAssumption DEF TypeOK, RequestsBehind, Versions
<1>2. CASE pc'[r] = "confirm"
  <2>1. CASE pc[r] = "current" /\ generation = tag[r]
    <3>1. Fresh(rows[r]) /\ Cleared(mark[r])
      BY <2>1 DEF ReachableIsFresh, BarrierHeld, Holding, Marked
    <3>2. mark[r] <= rows[r]
      BY <1>1, <3>1, ClearedMeansFresh
    <3> QED
      BY <1>1, <1>2, <3>2, ConfirmChange
  <2>2. CASE pc[r] = "confirm"
    BY <1>1, <1>2, <2>2, ConfirmChange DEF SettledIsFresh
  <2> QED
    BY <1>2, <2>1, <2>2, ConfirmChange
<1>3. CASE pc'[r] \in {"fill", "put", "write", "done"}
  BY <1>1, <1>3, SettleChange DEF SettledIsFresh, CapturedIsFresh
<1> QED
  BY <1>2, <1>3

-----------------------------------------------------------------------------
(* The theorems.                                                           *)

\* A step that changes nothing keeps the invariant.
LEMMA StutterStep ==
  ASSUME IInv, UNCHANGED vars
  PROVE  IInv'
BY DEF IInv, TypeOK, JobsBehind, RequestsBehind, SetsBehind, ResultsBehind,
       ReachableIsFresh, CapturedIsFresh, BarrierHeld, SettledIsFresh, Holding,
       Fresh, Bumped, Cleared, Captured, Trusting, Marked, vars

\* The inductive invariant holds of every reachable state, when no mutation
\* repeats the identity of a completed job and Redis does not lose its counter.
THEOREM Invariance ==
  ASSUME ~Repeats, ~RedisLoses
  PROVE  Spec => []IInv
<1>1. Init => IInv
  <2> SUFFICES ASSUME Init PROVE IInv
    OBVIOUS
  <2> USE ConstantsAssumption DEF Init, Versions, Jobs, Gens, NoGen, Absent, EmptySet
  <2>1. TypeOK
    BY DEF TypeOK, FlushSteps, Steps
  <2>2. JobsBehind /\ RequestsBehind /\ SetsBehind /\ ResultsBehind
    BY DEF JobsBehind, RequestsBehind, SetsBehind, ResultsBehind
  <2>3. ReachableIsFresh /\ CapturedIsFresh /\ BarrierHeld /\ SettledIsFresh
    BY DEF ReachableIsFresh, CapturedIsFresh, BarrierHeld, SettledIsFresh,
           Captured, Trusting, Marked, Holding, Fresh
  <2> QED
    BY <2>1, <2>2, <2>3 DEF IInv
<1>2. IInv /\ [Next]_vars => IInv'
  <2> SUFFICES ASSUME IInv, Next PROVE IInv'
    BY StutterStep
  <2>1. ValueTagged
    BY DEF IInv, CapturedIsFresh, ValueTagged, Captured, Trusting
  <2>2. TypeOK'
    BY <2>1, TypeStep DEF IInv
  <2>3. JobsBehind' /\ RequestsBehind' /\ SetsBehind' /\ ResultsBehind'
    BY <2>1, JobsBehindStep, RequestsBehindStep, SharedBehindStep DEF IInv
  <2>4. ReachableIsFresh'
    BY <2>1, <2>2, ReachableStep DEF IInv
  <2>5. CapturedIsFresh' /\ BarrierHeld' /\ SettledIsFresh'
    BY <2>1, <2>2, CapturedStep, BarrierHeldStep, SettledStep DEF IInv
  <2> QED
    BY <2>2, <2>3, <2>4, <2>5 DEF IInv
<1> QED
  BY <1>1, <1>2, PTL DEF Spec

\* Recall never answers with data that predates a mutation committed before the
\* request read the barrier: the promise of cache_invalidation.py.
THEOREM NeverStale ==
  ASSUME ~Repeats, ~RedisLoses
  PROVE  Spec => []NoStaleAnswer
<1>1. IInv => NoStaleAnswer
  BY DEF IInv, SettledIsFresh, NoStaleAnswer
<1> QED
  BY <1>1, Invariance, PTL

\* Once a barrier is released, nothing reachable under the current generation
\* predates its mutation.
THEOREM GenerationGuards ==
  ASSUME ~Repeats, ~RedisLoses
  PROVE  Spec => []ReachableIsFresh
<1>1. IInv => ReachableIsFresh
  BY DEF IInv
<1> QED
  BY <1>1, Invariance, PTL

-----------------------------------------------------------------------------
(* The recall path implements the register.                                *)

\* How a step of a recall shows: the answer is settled by its last one.
LEMMA RecallOutcome ==
  ASSUME TypeOK, NEW r \in Readers, Recall(r)
  PROVE  /\ pc[r] \notin {"idle", "done"} /\ pc'[r] # "idle"
         /\ \A q \in Readers \ {r} : pc'[q] = pc[q] /\ rows'[q] = rows[q]
         /\ \/ floor' = floor
            \/ /\ pc[r] = "confirm" /\ pc'[r] = "done"
               /\ floor' = [floor EXCEPT ![r] = mark[r]]
         /\ pc'[r] = "done" => rows'[r] = rows[r]
<1>. USE DEF TypeOK, Goto
<1>1. CASE PassBypass(r) BY <1>1 DEF PassBypass, Tested
<1>2. CASE ReadGeneration(r) BY <1>2 DEF ReadGeneration
<1>3. CASE ReadValue(r) BY <1>3 DEF ReadValue
<1>4. CASE RereadGeneration(r) BY <1>4 DEF RereadGeneration
<1>5. CASE NoLookup(r) BY <1>5 DEF NoLookup, Refused
<1>6. CASE RecheckBarrier(r) BY <1>6 DEF RecheckBarrier
<1>7. CASE RecheckGeneration(r) BY <1>7 DEF RecheckGeneration
<1>8. CASE AnswerHit(r) BY <1>8 DEF AnswerHit, Finish
<1>9. CASE NotCurrent(r) BY <1>9 DEF NotCurrent, Refused
<1>10. CASE ReadClock(r) BY <1>10 DEF ReadClock
<1>11. CASE NoClock(r) BY <1>11 DEF NoClock, Refused
<1>12. CASE ReadWorkingSet(r) BY <1>12 DEF ReadWorkingSet
<1>13. CASE FetchWorkingSet(r) BY <1>13 DEF FetchWorkingSet
<1>14. CASE AdmitGeneration(r) BY <1>14 DEF AdmitGeneration
<1>15. CASE AdmitBarrier(r) BY <1>15 DEF AdmitBarrier
<1>16. CASE KeepWorkingSet(r) BY <1>16 DEF KeepWorkingSet
<1>17. CASE Discard(r) BY <1>17 DEF Discard, Refused
<1>18. CASE SearchDatabase(r) BY <1>18 DEF SearchDatabase
<1>19. CASE CheckFill(r) BY <1>19 DEF CheckFill, Finish
<1>20. CASE PutResult(r) BY <1>20 DEF PutResult, Finish
<1>21. CASE NoPut(r) BY <1>21 DEF NoPut, Refused, Finish
<1> HIDE DEF TypeOK, Goto
<1> QED
  BY <1>1, <1>2, <1>3, <1>4, <1>5, <1>6, <1>7, <1>8, <1>9, <1>10, <1>11,
     <1>12, <1>13, <1>14, <1>15, <1>16, <1>17, <1>18, <1>19, <1>20, <1>21 DEF Recall

\* Every step of the read path is one of FreshRecall or changes nothing it shows:
\* Commit is Write, Begin is Ask, the step that ends a request is Answer, a crash
\* is Abandon.
LEMMA RegisterStep ==
  ASSUME IInv, IInv', Next, ~Repeats, ~RedisLoses
  PROVE  [Register!Next]_(Register!vars)
<1> DEFINE Status(q) == CASE pc[q] = "idle" -> "idle"
                          [] pc[q] = "done" -> "done"
                          [] OTHER -> "open"
           Reply(q) == IF pc[q] = "done" THEN rows[q] ELSE 0
           status == [q \in Readers |-> Status(q)]
           answer == [q \in Readers |-> Reply(q)]
<1>0. /\ version \in Nat
      /\ \A q \in Readers : /\ floor[q] \in Nat /\ rows[q] \in Nat
                            /\ mark[q] \in Nat /\ rows[q] <= version
                            /\ mark[q] <= version /\ floor[q] <= version
  BY ConstantsAssumption DEF IInv, TypeOK, RequestsBehind, Versions
<1>1. ASSUME NEW p \in Procs, Commit(p) PROVE Register!Write
  BY <1>1 DEF Commit, reader, Register!Write
<1>2. ASSUME NEW r \in Readers, NEW p \in Procs, Begin(r, p) PROVE Register!Ask(r)
  <2>. USE DEF IInv, TypeOK
  <2>1. \A q \in Readers : pc'[q] = IF q # r THEN pc[q] ELSE
                              IF pending = {} THEN "lookup" ELSE "search"
    BY <1>2 DEF Begin, Goto
  <2>2. \A q \in Readers : rows'[q] = IF q # r THEN rows[q] ELSE 0
    BY <1>2 DEF Begin
  <2>3. Status(r) # "open"
    BY <1>2 DEF Begin
  <2>4. status' = [status EXCEPT ![r] = "open"]
    BY <2>1
  <2>5. answer' = [answer EXCEPT ![r] = 0]
    BY <2>1, <2>2
  <2>6. floor' = [floor EXCEPT ![r] = version] /\ version' = version
    BY <1>2 DEF Begin, database
  <2> QED
    BY <2>3, <2>4, <2>5, <2>6 DEF Register!Ask
<1>3. ASSUME NEW r \in Readers, Recall(r), pc'[r] # "done"
      PROVE  UNCHANGED <<version, status, floor, answer>>
  <2>1. /\ \A q \in Readers : Status(q)' = Status(q) /\ Reply(q)' = Reply(q)
        /\ floor' = floor
    BY <1>3, RecallOutcome DEF IInv
  <2> QED
    BY <1>3, <2>1, RecallReads
<1>4. ASSUME NEW r \in Readers, Recall(r), pc'[r] = "done"
      PROVE  Register!Answer(r)
  <2>1. /\ \A q \in Readers \ {r} : pc'[q] = pc[q] /\ rows'[q] = rows[q]
        /\ rows'[r] = rows[r]
    BY <1>4, RecallOutcome DEF IInv
  <2>2. status' = [status EXCEPT ![r] = "done"]
    BY <1>4, <2>1
  <2>3. answer' = [answer EXCEPT ![r] = rows[r]]
    BY <1>4, <2>1
  <2>4. Status(r) = "open" /\ version' = version
    BY <1>4, RecallOutcome, RecallReads DEF IInv
  <2>5. rows[r] \in 0..version /\ rows[r] >= floor'[r]
    BY <1>0, <1>4, <2>1 DEF IInv, SettledIsFresh
  <2>6. PICK oldest \in floor[r]..version : floor' = [floor EXCEPT ![r] = oldest]
    <3>1. CASE floor' = floor
      <4>1. floor' = [floor EXCEPT ![r] = floor[r]] /\ floor[r] \in floor[r]..version
        BY <1>0, <3>1 DEF IInv, TypeOK
      <4> QED
        BY <4>1
    <3>2. CASE pc[r] = "confirm" /\ floor' = [floor EXCEPT ![r] = mark[r]]
      <4>1. mark[r] \in floor[r]..version
        BY <1>0, <3>2 DEF IInv, BarrierHeld, Marked
      <4> QED
        BY <3>2, <4>1
    <3> QED
      BY <1>4, <3>1, <3>2, RecallOutcome DEF IInv
  <2>7. rows[r] >= oldest
    BY <2>5, <2>6 DEF IInv, TypeOK
  <2> QED
    BY <2>2, <2>3, <2>4, <2>5, <2>6, <2>7 DEF Register!Answer
<1>5. ASSUME NEW p \in Procs, Crash(p)
      PROVE  \E R \in SUBSET Readers : Register!Abandon(R)
  <2> DEFINE R == {q \in Readers : home[q] = p /\ pc[q] \notin {"idle", "done"}}
  <2>1. \A q \in Readers : pc'[q] = IF q \in R THEN "idle" ELSE pc[q]
    BY <1>5 DEF Crash
  <2>2. rows' = rows /\ floor' = floor /\ version' = version
    BY <1>5 DEF Crash, database
  <2>3. \A q \in R : Status(q) = "open"
    OBVIOUS
  <2>4. status' = [q \in Readers |-> IF q \in R THEN "idle" ELSE status[q]]
    BY <2>1
  <2>5. answer' = answer
    BY <2>1, <2>2
  <2> QED
    BY <2>2, <2>3, <2>4, <2>5 DEF Register!Abandon
<1>6. CASE UNCHANGED <<version, reader>>
  BY <1>6 DEF reader, Register!vars
<1> HIDE DEF status, answer
<1>7. CASE \E p \in Procs : Commit(p) \/ Crash(p)
  BY <1>1, <1>5, <1>7 DEF Register!Next
<1>8. CASE \E r \in Readers, p \in Procs : Begin(r, p)
  BY <1>2, <1>8 DEF Register!Next
<1>9. CASE \E r \in Readers : Recall(r)
  <2>. USE DEF status, answer
  <2> QED
    BY <1>3, <1>4, <1>9 DEF Register!Next, Register!vars
<1>10. ASSUME NEW p \in Procs, NEW j \in Jobs,
              Engage(p, j) \/ DropSet(p, j) \/ Repair(p, j) \/ Bump(p, j)
                \/ BumpFails(p, j) \/ Complete(p, j)
       PROVE  UNCHANGED <<version, reader>>
  BY <1>10 DEF Engage, DropSet, Repair, Bump, BumpFails, Complete, database
<1> QED
  BY <1>6, <1>7, <1>8, <1>9, <1>10 DEF Next, CommitRepeated, LoseRedis

\* The caches, generations, barriers and crashes of the recall path are, to a
\* client, an atomic register whose answers may lag only as FreshRecall allows.
THEOREM Refinement ==
  ASSUME ~Repeats, ~RedisLoses
  PROVE  Spec => ImplementsRegister
<1>1. Init => Register!Init
  BY DEF Init, Register!Init
<1>2. IInv /\ IInv' /\ [Next]_vars => [Register!Next]_(Register!vars)
  <2>1. ASSUME UNCHANGED vars PROVE UNCHANGED Register!vars
    BY <2>1 DEF vars, Register!vars
  <2> QED
    BY <2>1, RegisterStep
<1> QED
  BY <1>1, <1>2, Invariance, PTL DEF Spec, ImplementsRegister, Register!Spec
=============================================================================
