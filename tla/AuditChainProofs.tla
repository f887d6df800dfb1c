-------------------------- MODULE AuditChainProofs --------------------------
(***************************************************************************)
(* What TLAPS proves of AuditChain for any number of processes and         *)
(* writers, any batch size and any number of rows: the type invariant,     *)
(* that an untouched log verifies, that a deletion shows in a log whose    *)
(* transactions did not overlap, and what the Merkle windows cover.        *)
(***************************************************************************)
EXTENDS AuditChain, TableLemmas, FiniteSetTheorems

-----------------------------------------------------------------------------
(* The parts of the inductive invariant.                                    *)

\* The writers that are about to flush a row, for which there is room.
Adding == {w \in Writers : at[w] \in {"stamped", "anchoring"}}

\* A row links to an earlier one and covers rows there are; a writer has drained what
\* it is about to anchor and nothing else; a row is of one transaction.
RowsInOrder ==
    /\ Len(row) + Cardinality(Adding) <= MaxRows
    /\ \A i \in 1..Len(row) : row[i].prev < i /\ row[i].leaves \in Seq(1..Len(row))
    /\ \A w \in Writers : at[w] = "anchoring" <=> drained[w] # <<>>
    /\ \A v, w \in Writers : v # w => txn[v] \cap txn[w] = {}

Typed == TypeOK /\ RowsInOrder

\* A committed row follows a committed one, a row of an open transaction one that the
\* transaction sees.
Rooted ==
    /\ \A i \in committed : row[i].prev \in committed \cup {Genesis}
    /\ \A w \in Writers : \A i \in txn[w] : row[i].prev \in Visible(w) \cup {Genesis}

\* In what is seen, every row but the last is followed by another.
Linked(rows) ==
    \A i \in rows : (\A j \in rows : j <= i) \/ \E j \in rows : row[j].prev = i

Active(w) == at[w] # "open" \/ txn[w] # {}

\* While transactions do not overlap, times grow with the rows and the log is one chain.
OneChain ==
    serial =>
        /\ \A i, j \in 1..Len(row) : i < j => row[i].time < row[j].time
        /\ \A v, w \in Writers : Active(v) /\ Active(w) => v = w
        /\ \A w \in Adding : \A i \in 1..Len(row) : row[i].time < stamp[w]
        /\ Linked(committed)
        /\ \A w \in Writers : Linked(Visible(w))

\* A row is in one place at most: under an anchor, in a window, or drained.
InOnePlace ==
    \A i \in 1..Len(row) :
        /\ \A a, b \in 1..Len(row) :
              i \in ToSet(row[a].leaves) /\ i \in ToSet(row[b].leaves) => a = b
        /\ \A p, q \in Procs : i \in ToSet(window[p]) /\ i \in ToSet(window[q]) => p = q
        /\ \A v, w \in Writers : i \in ToSet(drained[v]) /\ i \in ToSet(drained[w]) => v = w
        /\ \A a \in 1..Len(row) : i \in ToSet(row[a].leaves) =>
              /\ \A p \in Procs : i \notin ToSet(window[p])
              /\ \A w \in Writers : i \notin ToSet(drained[w])
        /\ \A p \in Procs, w \in Writers : i \notin ToSet(window[p]) \cap ToSet(drained[w])

Inv == Typed /\ Rooted /\ OneChain /\ InOnePlace /\ EventsCovered

\* Every step is a step of one of these kinds.
LEMMA NextCases ==
    ASSUME Next
    PROVE  \/ Tick
           \/ \E w \in Writers : Stamp(w)
           \/ \E w \in Writers : Log(w)
           \/ \E w \in Writers : Flush(w)
           \/ \E w \in Writers : NothingToFlush(w)
           \/ \E w \in Writers : Anchor(w)
           \/ \E w \in Writers : Commit(w)
           \/ \E w \in Writers : Rollback(w)
           \/ \E p \in Procs : Crash(p)
  BY DEF Next

-----------------------------------------------------------------------------
(* Sequences of rows and the rows in them.                                  *)

\* No entries, no elements.
LEMMA ToSetEmpty == ToSet(<<>>) = {}
  BY DEF ToSet

\* The elements of a sequence over S are in S.
LEMMA ToSetTyped ==
    ASSUME NEW S, NEW s \in Seq(S)
    PROVE  ToSet(s) \subseteq S
  BY RowsTyped DEF ToSet

\* Appending an entry adds its element.
LEMMA ToSetAppend ==
    ASSUME NEW S, NEW s \in Seq(S), NEW e \in S
    PROVE  ToSet(Append(s, e)) = ToSet(s) \cup {e}
  <1>1. Len(s) \in Nat /\ DOMAIN s = 1..Len(s)
    BY RowsTyped
  <1>2. /\ DOMAIN Append(s, e) = 1..(Len(s) + 1)
        /\ Append(s, e)[Len(s) + 1] = e
        /\ \A i \in DOMAIN s : Append(s, e)[i] = s[i]
    BY RowInserted
  <1>3. DOMAIN Append(s, e) = (DOMAIN s) \cup {Len(s) + 1}
    BY <1>1, <1>2
  <1>4. QED  BY <1>2, <1>3 DEF ToSet

\* Rows that are named stay named when others are added.
LEMMA SeqGrows ==
    ASSUME NEW m \in Nat, NEW n \in Nat, m <= n, NEW s \in Seq(1..m)
    PROVE  s \in Seq(1..n)
  <1>1. 1..m \subseteq 1..n
    OBVIOUS
  <1>2. QED  BY <1>1, SeqMonotonic

\* The transactions that are adding an event are finitely many.
LEMMA AddingFinite == IsFiniteSet(Adding) /\ Cardinality(Adding) \in Nat
  BY ChainAssumption, FS_Subset, FS_CardinalityType DEF Adding

\* There is room for the row of a writer that is about to flush one.
LEMMA RoomKept ==
    ASSUME Typed, NEW w \in Adding
    PROVE  Len(row) < MaxRows
  <1>1. Cardinality(Adding) # 0
    BY AddingFinite, FS_EmptySet
  <1>2. Len(row) \in Nat
    BY RowsTyped DEF Typed, TypeOK
  <1>3. QED  BY <1>1, <1>2, AddingFinite, ChainAssumption DEF Typed, RowsInOrder

\* The row that is flushed, and what it is linked to.
LEMMA Added ==
    ASSUME Typed, NEW w \in Writers, w \in Adding, NEW leaves \in Seq(1..Len(row)),
           AddRow(w, leaves)
    PROVE  /\ Len(row) \in Nat /\ row' \in Seq(Rows) /\ Len(row') = Len(row) + 1
           /\ 1..Len(row') = (1..Len(row)) \cup {Len(row) + 1}
           /\ \A i \in 1..Len(row) : row'[i] = row[i]
           /\ row'[Len(row) + 1].time = stamp[w]
           /\ row'[Len(row) + 1].leaves = leaves
           /\ row'[Len(row) + 1].prev \in Tips(w)
           /\ row'[Len(row) + 1].prev \in Visible(w) \cup {Genesis}
           /\ row'[Len(row) + 1].prev < Len(row) + 1
           /\ txn' = [txn EXCEPT ![w] = @ \cup {Len(row) + 1}]
  <1> TypeOK
    BY DEF Typed
  <1>1. Len(row) \in Nat /\ DOMAIN row = 1..Len(row) /\ row \in Seq(Rows)
    BY RowsTyped DEF TypeOK
  <1>2. Len(row) < MaxRows
    BY RoomKept
  <1>3. PICK tip \in Tips(w) :
            /\ row' = Append(row, [time |-> stamp[w], prev |-> tip, leaves |-> leaves])
            /\ txn' = [txn EXCEPT ![w] = @ \cup {Len(row) + 1}]
    BY DEF AddRow
  <1>4. Visible(w) \subseteq 1..Len(row)
    BY DEF Visible, TypeOK
  <1>5. tip \in Visible(w) \cup {Genesis}
    BY DEF Tips
  <1>6. tip \in Ids \cup {Genesis} /\ tip < Len(row) + 1
    BY <1>1, <1>2, <1>4, <1>5, ChainAssumption DEF Ids, Genesis
  <1>7. leaves \in Seq(Ids)
    <2>1. 1..Len(row) \subseteq Ids
      BY <1>1, <1>2, ChainAssumption DEF Ids
    <2>2. QED  BY <2>1, SeqMonotonic
  <1> DEFINE new == [time |-> stamp[w], prev |-> tip, leaves |-> leaves]
  <1>8. new \in Rows /\ new.time = stamp[w] /\ new.prev = tip /\ new.leaves = leaves
    BY <1>6, <1>7 DEF Rows, TypeOK
  <1>9. row' = Append(row, new)
    BY <1>3
  <1> HIDE DEF new
  <1>10. /\ row' \in Seq(Rows) /\ Len(row') = Len(row) + 1
         /\ row'[Len(row) + 1] = new
         /\ \A i \in 1..Len(row) : row'[i] = row[i]
    BY <1>1, <1>8, <1>9, RowInserted
  <1>11. 1..(Len(row) + 1) = (1..Len(row)) \cup {Len(row) + 1}
    BY <1>1
  <1>12. QED  BY <1>1, <1>3, <1>5, <1>6, <1>8, <1>10, <1>11

\* A flushed row fits the type, whatever becomes of the windows.
LEMMA TypedAdded ==
    ASSUME Typed, NEW w \in Writers, w \in Adding, NEW leaves \in Seq(1..Len(row)),
           AddRow(w, leaves), NEW next \in {"open", "full"},
           at' = [at EXCEPT ![w] = next], stamp' = [stamp EXCEPT ![w] = 1],
           drained' = [drained EXCEPT ![w] = <<>>],
           UNCHANGED <<now, committed, faults, serial>>,
           window' \in [Procs -> Seq(1..(Len(row) + 1))]
    PROVE  Typed'
  <1> TypeOK /\ RowsInOrder
    BY DEF Typed
  <1>a. /\ Len(row) \in Nat /\ row' \in Seq(Rows) /\ Len(row') = Len(row) + 1
        /\ 1..Len(row') = (1..Len(row)) \cup {Len(row) + 1}
        /\ \A i \in 1..Len(row) : row'[i] = row[i]
        /\ row'[Len(row) + 1].leaves = leaves
        /\ row'[Len(row) + 1].prev < Len(row) + 1
        /\ txn' = [txn EXCEPT ![w] = @ \cup {Len(row) + 1}]
    BY Added
  <1>g. \A s \in Seq(1..Len(row)) : s \in Seq(1..Len(row'))
    BY <1>a, SeqGrows
  <1>1. Adding' = Adding \ {w}
    BY DEF Adding, TypeOK
  <1>2. Len(row') + Cardinality(Adding') <= MaxRows
    <2>1. Cardinality(Adding') = Cardinality(Adding) - 1
      BY <1>1, AddingFinite, FS_RemoveElement
    <2>2. QED  BY <2>1, <1>a, AddingFinite DEF RowsInOrder
  <1>3. Len(row') <= MaxRows
    BY <1>a, RoomKept, ChainAssumption
  <1>4. committed' \in SUBSET (1..Len(row'))
    BY <1>a DEF TypeOK
  <1>5. txn' \in [Writers -> SUBSET ((1..Len(row')) \ committed')]
    <2>1. \A v \in Writers : txn[v] \subseteq (1..Len(row)) \ committed
      BY DEF TypeOK
    <2>2. Len(row) + 1 \notin committed
      BY <1>a DEF TypeOK
    <2>3. QED  BY <2>1, <2>2, <1>a DEF TypeOK
  <1>6. drained' \in [Writers -> Seq(1..Len(row'))]
    <2>1. <<>> \in Seq(1..Len(row'))
      BY EmptySeq
    <2>2. QED  BY <2>1, <1>g DEF TypeOK
  <1>7. stamp' \in [Writers -> Times]
    BY ChainAssumption DEF TypeOK, Times
  <1>8. TypeOK'
    BY <1>a, <1>3, <1>4, <1>5, <1>6, <1>7 DEF TypeOK
  <1>9. \A i \in 1..Len(row') : row'[i].prev < i /\ row'[i].leaves \in Seq(1..Len(row'))
    BY <1>a, <1>g DEF RowsInOrder
  <1>10. \A v \in Writers : at'[v] = "anchoring" <=> drained'[v] # <<>>
    BY DEF RowsInOrder, TypeOK
  <1>11. \A v, u \in Writers : v # u => txn'[v] \cap txn'[u] = {}
    <2>1. \A v \in Writers : Len(row) + 1 \notin txn[v]
      BY <1>a DEF TypeOK
    <2>2. QED  BY <2>1, <1>a DEF RowsInOrder, TypeOK
  <1>12. QED  BY <1>2, <1>8, <1>9, <1>10, <1>11 DEF Typed, RowsInOrder

\* The transactions of some writers are gone, and with them the rows they would add.
LEMMA TypedUndo ==
    ASSUME Typed, NEW W \in SUBSET Writers, Undo(W),
           window' \in [Procs -> Seq(1..Len(row))]
    PROVE  Typed'
  <1> TypeOK /\ RowsInOrder
    BY DEF Typed
  <1>1. Adding' \subseteq Adding
    BY DEF Undo, Adding
  <1>2. Len(row) + Cardinality(Adding') <= MaxRows
    <2>1. Cardinality(Adding') \in Nat /\ Cardinality(Adding') <= Cardinality(Adding)
      BY <1>1, AddingFinite, FS_Subset, FS_CardinalityType
    <2>2. Len(row) \in Nat
      BY RowsTyped DEF TypeOK
    <2>3. QED  BY <2>1, <2>2, AddingFinite, ChainAssumption DEF RowsInOrder
  <1>3. <<>> \in Seq(1..Len(row))
    BY EmptySeq
  <1>4. TypeOK'
    <2>1. drained' \in [Writers -> Seq(1..Len(row))]
      BY <1>3 DEF Undo, TypeOK
    <2>2. stamp' \in [Writers -> Times] /\ faults' \in 0..MaxFaults
      BY ChainAssumption DEF Undo, TypeOK, Times
    <2>3. txn' \in [Writers -> SUBSET ((1..Len(row)) \ committed)]
      BY DEF Undo, TypeOK
    <2>4. at' \in [Writers -> {"open", "stamped", "full", "anchoring"}]
      BY DEF Undo, TypeOK
    <2>5. QED  BY <2>1, <2>2, <2>3, <2>4 DEF Undo, TypeOK
  <1>5. RowsInOrder'
    BY <1>2 DEF Undo, RowsInOrder
  <1>6. QED  BY <1>4, <1>5 DEF Typed

\* A writer takes a time, for a row there is room for.
LEMMA TypedStart ==
    ASSUME Typed, NEW w \in Writers, w \notin Adding, Room, TakeTime(w),
           NEW step \in {"stamped", "anchoring"}, at' = [at EXCEPT ![w] = step],
           UNCHANGED <<now, row, committed, txn, faults>>,
           drained' \in [Writers -> Seq(1..Len(row))],
           window' \in [Procs -> Seq(1..Len(row))],
           \A v \in Writers : at'[v] = "anchoring" <=> drained'[v] # <<>>
    PROVE  Typed'
  <1> TypeOK /\ RowsInOrder
    BY DEF Typed
  <1>1. Adding' = Adding \cup {w}
    BY DEF Adding, TypeOK
  <1>2. Len(row) + Cardinality(Adding') <= MaxRows
    <2>1. Cardinality(Adding') = Cardinality(Adding) + 1
      BY <1>1, AddingFinite, FS_AddElement
    <2>2. Len(row) \in Nat
      BY RowsTyped DEF TypeOK
    <2>3. Len(row) + Cardinality(Adding) < MaxRows
      BY DEF Room, Adding
    <2>4. QED  BY <2>1, <2>2, <2>3, AddingFinite, ChainAssumption
  <1>3. serial' \in BOOLEAN
    BY DEF TakeTime
  <1>4. TypeOK'
    BY <1>3 DEF TypeOK, TakeTime
  <1>5. RowsInOrder'
    BY <1>2 DEF RowsInOrder
  <1>6. QED  BY <1>4, <1>5 DEF Typed

\* Every step keeps the variables typed.
LEMMA TypedStep ==
    ASSUME Typed, [Next]_vars
    PROVE  Typed'
  <1> TypeOK /\ RowsInOrder
    BY DEF Typed
  <1>n. Len(row) \in Nat
    BY RowsTyped DEF TypeOK
  <1>e. <<>> \in Seq(1..Len(row))
    BY EmptySeq
  <1>h. \A w \in Writers : Home[w] \in Procs
    BY ChainAssumption
  <1>1. CASE Tick
    BY <1>1, ChainAssumption DEF Tick, Typed, TypeOK, RowsInOrder, Adding, Times
  <1>2. CASE \E w \in Writers : Stamp(w)
    <2> PICK w \in Writers : Stamp(w)  BY <1>2
    <2>1. w \notin Adding /\ Room /\ TakeTime(w) /\ at' = [at EXCEPT ![w] = "stamped"]
          /\ UNCHANGED <<now, row, committed, txn, drained, window, faults>>
      BY DEF Stamp, Adding
    <2>2. \A v \in Writers : at'[v] = "anchoring" <=> drained'[v] # <<>>
      BY <2>1 DEF Stamp, RowsInOrder, TypeOK
    <2>3. QED  BY <2>1, <2>2, TypedStart DEF TypeOK
  <1>3. CASE \E w \in Writers : Log(w)
    <2> PICK w \in Writers : Log(w)  BY <1>3
    <2>1. w \in Adding /\ drained[w] = <<>>
      BY DEF Log, Adding, RowsInOrder
    <2>2. drained' = [drained EXCEPT ![w] = <<>>]
      BY <2>1 DEF Log, TypeOK
    <2>3. PICK next \in {"open", "full"} : at' = [at EXCEPT ![w] = next]
      BY DEF Log
    <2>4. window' \in [Procs -> Seq(1..(Len(row) + 1))]
      <3>1. \A p \in Procs : window[p] \in Seq(1..(Len(row) + 1))
        BY <1>n, SeqGrows DEF TypeOK
      <3>2. Len(row) + 1 \in 1..(Len(row) + 1)
        BY <1>n
      <3>3. Append(window[Home[w]], Len(row) + 1) \in Seq(1..(Len(row) + 1))
        BY <3>1, <3>2, <1>h, AppendProperties
      <3>4. window' = [window EXCEPT ![Home[w]] = Append(window[Home[w]], Len(row) + 1)]
        BY DEF Log
      <3>5. QED  BY <3>1, <3>3, <3>4 DEF TypeOK
    <2>5. QED  BY <2>1, <2>2, <2>3, <2>4, <1>e, TypedAdded DEF Log
  <1>4. CASE \E w \in Writers : Flush(w)
    <2> PICK w \in Writers : Flush(w)  BY <1>4
    <2>1. w \notin Adding /\ Room /\ TakeTime(w) /\ at' = [at EXCEPT ![w] = "anchoring"]
          /\ UNCHANGED <<now, row, committed, txn, faults>>
      BY DEF Flush, Adding
    <2>2. drained' \in [Writers -> Seq(1..Len(row))]
          /\ window' \in [Procs -> Seq(1..Len(row))]
      BY <1>e, <1>h DEF Flush, TypeOK
    <2>3. \A v \in Writers : at'[v] = "anchoring" <=> drained'[v] # <<>>
      BY DEF Flush, RowsInOrder, TypeOK
    <2>4. QED  BY <2>1, <2>2, <2>3, TypedStart
  <1>5. CASE \E w \in Writers : NothingToFlush(w)
    <2> PICK w \in Writers : NothingToFlush(w)  BY <1>5
    <2>1. Adding' = Adding
      BY DEF NothingToFlush, Adding, TypeOK
    <2>2. QED  BY <2>1 DEF NothingToFlush, Typed, TypeOK, RowsInOrder
  <1>6. CASE \E w \in Writers : Anchor(w)
    <2> PICK w \in Writers : Anchor(w)  BY <1>6
    <2>1. w \in Adding /\ drained[w] \in Seq(1..Len(row))
      BY DEF Anchor, Adding, TypeOK
    <2>2. window' \in [Procs -> Seq(1..(Len(row) + 1))]
      BY <1>n, SeqGrows DEF Anchor, TypeOK
    <2>3. QED  BY <2>1, <2>2, TypedAdded DEF Anchor
  <1>7. CASE \E w \in Writers : Commit(w)
    <2> PICK w \in Writers : Commit(w)  BY <1>7
    <2>1. committed' = committed \cup txn[w] /\ txn' = [txn EXCEPT ![w] = {}]
          /\ UNCHANGED <<now, row, at, stamp, drained, window, faults, serial>>
      BY DEF Commit
    <2>2. committed' \in SUBSET (1..Len(row))
      BY <2>1 DEF TypeOK
    <2>3. \A v \in Writers : txn'[v] \subseteq (1..Len(row)) \ committed'
      BY <2>1 DEF TypeOK, RowsInOrder
    <2>4. TypeOK'
      BY <2>1, <2>2, <2>3 DEF TypeOK
    <2>5. \A v, u \in Writers : v # u => txn'[v] \cap txn'[u] = {}
      BY <2>1 DEF TypeOK, RowsInOrder
    <2>6. QED  BY <2>1, <2>4, <2>5 DEF Typed, RowsInOrder, Adding
  <1>8. CASE \E w \in Writers : Rollback(w)
    <2> PICK w \in Writers : Rollback(w)  BY <1>8
    <2>1. {w} \in SUBSET Writers
      OBVIOUS
    <2>2. QED  BY <2>1, TypedUndo DEF Rollback, TypeOK
  <1>9. CASE \E p \in Procs : Crash(p)
    <2> PICK p \in Procs : Crash(p)  BY <1>9
    <2>1. {w \in Writers : Home[w] = p} \in SUBSET Writers
      OBVIOUS
    <2>2. window' \in [Procs -> Seq(1..Len(row))]
      BY <1>e DEF Crash, TypeOK
    <2>3. QED  BY <2>1, <2>2, TypedUndo DEF Crash
  <1>10. CASE UNCHANGED vars
    BY <1>10 DEF vars, Typed, TypeOK, RowsInOrder, Adding
  <1>11. QED
    BY <1>1, <1>2, <1>3, <1>4, <1>5, <1>6, <1>7, <1>8, <1>9, <1>10, NextCases

-----------------------------------------------------------------------------
(* The chain.                                                               *)

\* What a step does to the chain: nothing; a row is flushed; rows are committed; or
\* transactions are gone.
ChainStep ==
    \/ UNCHANGED <<row, committed, txn>>
    \/ \E w \in Writers : \E leaves \in Seq(1..Len(row)) :
          w \in Adding /\ AddRow(w, leaves) /\ UNCHANGED committed
    \/ \E w \in Writers : Commit(w)
    \/ \E W \in SUBSET Writers : Undo(W)

\* Every step does one of these to the rows.
LEMMA ChainSteps ==
    ASSUME Typed, [Next]_vars
    PROVE  ChainStep
  <1>1. CASE \E w \in Writers : Log(w)
    <2> PICK w \in Writers : Log(w)  BY <1>1
    <2>1. <<>> \in Seq(1..Len(row))
      BY EmptySeq
    <2>2. QED  BY <2>1 DEF Log, Adding, ChainStep
  <1>2. CASE \E w \in Writers : Anchor(w)
    BY <1>2 DEF Anchor, Adding, ChainStep, Typed, TypeOK
  <1>3. CASE \E w \in Writers : Rollback(w)
    <2> PICK w \in Writers : Rollback(w)  BY <1>3
    <2>1. {w} \in SUBSET Writers /\ Undo({w})
      BY DEF Rollback
    <2>2. QED  BY <2>1 DEF ChainStep
  <1>4. CASE \E p \in Procs : Crash(p)
    <2> PICK p \in Procs : Crash(p)  BY <1>4
    <2>1. {w \in Writers : Home[w] = p} \in SUBSET Writers
      OBVIOUS
    <2>2. QED  BY <2>1 DEF Crash, ChainStep
  <1>5. CASE \E w \in Writers : Commit(w)
    BY <1>5 DEF ChainStep
  <1>6. CASE UNCHANGED <<row, committed, txn>>
    BY <1>6 DEF ChainStep
  <1>7. QED
    BY <1>1, <1>2, <1>3, <1>4, <1>5, <1>6, NextCases
       DEF vars, Tick, Stamp, Flush, NothingToFlush

\* A row is linked to one its transaction sees, and what a transaction sees commits
\* with it or was committed before.
LEMMA RootedStep ==
    ASSUME Typed, Rooted, [Next]_vars
    PROVE  Rooted'
  <1> TypeOK /\ RowsInOrder
    BY DEF Typed
  <1>v. \A w \in Writers : txn[w] \subseteq 1..Len(row)
    BY DEF TypeOK
  <1>1. CASE UNCHANGED <<row, committed, txn>>
    BY <1>1 DEF Rooted, Visible
  <1>2. CASE \E w \in Writers : \E leaves \in Seq(1..Len(row)) :
                w \in Adding /\ AddRow(w, leaves) /\ UNCHANGED committed
    <2> PICK w \in Writers, leaves \in Seq(1..Len(row)) :
                w \in Adding /\ AddRow(w, leaves) /\ UNCHANGED committed
      BY <1>2
    <2> DEFINE n == Len(row) + 1
    <2>a. /\ \A i \in 1..Len(row) : row'[i] = row[i]
          /\ row'[n].prev \in Visible(w) \cup {Genesis}
          /\ txn' = [txn EXCEPT ![w] = @ \cup {n}]
      BY Added
    <2>1. \A v \in Writers : Visible(v) \subseteq Visible(v)'
      BY <2>a DEF Visible, TypeOK
    <2>2. \A i \in committed : row'[i].prev \in committed \cup {Genesis}
      BY <2>a DEF Rooted, TypeOK
    <2>3. \A v \in Writers : \A i \in txn[v] : row'[i].prev \in Visible(v)' \cup {Genesis}
      BY <2>a, <2>1, <1>v DEF Rooted
    <2>4. \A v \in Writers : \A i \in txn'[v] : i \in txn[v] \/ (i = n /\ v = w)
      BY <2>a DEF TypeOK
    <2>5. QED  BY <2>a, <2>1, <2>2, <2>3, <2>4 DEF Rooted
  <1>3. CASE \E w \in Writers : Commit(w)
    BY <1>3 DEF Commit, Rooted, Visible, TypeOK
  <1>4. CASE \E W \in SUBSET Writers : Undo(W)
    BY <1>4 DEF Undo, Rooted, Visible, TypeOK
  <1>5. QED  BY <1>1, <1>2, <1>3, <1>4, ChainSteps DEF ChainStep

\* A row that is added to what is seen follows the last one, if times grow.
LEMMA LinkedAdded ==
    ASSUME Typed, NEW w \in Writers, w \in Adding, NEW leaves \in Seq(1..Len(row)),
           AddRow(w, leaves), Linked(Visible(w)),
           \A i, j \in 1..Len(row) : i < j => row[i].time < row[j].time
    PROVE  \A i \in Visible(w) \cup {Len(row) + 1} :
              \/ \A j \in Visible(w) \cup {Len(row) + 1} : j <= i
              \/ \E j \in Visible(w) \cup {Len(row) + 1} : row'[j].prev = i
  <1> DEFINE n == Len(row) + 1
             seen == Visible(w)
  <1> TypeOK
    BY DEF Typed
  <1>a. /\ Len(row) \in Nat
        /\ \A i \in 1..Len(row) : row'[i] = row[i]
        /\ row'[n].prev \in Tips(w)
        /\ txn' = [txn EXCEPT ![w] = @ \cup {n}]
    BY Added
  <1>r. row \in Seq(Rows) /\ \A i \in 1..Len(row) : row[i].time \in Nat
    <2>1. \A i \in 1..Len(row) : row[i] \in Rows
      BY RowsTyped DEF TypeOK
    <2>2. QED  BY <2>1, ChainAssumption DEF Rows, Times, TypeOK
  <1>s. seen \subseteq 1..Len(row)
    BY DEF Visible, TypeOK
  <1>1. \A i \in seen : (\A j \in seen : j <= i) => row'[n].prev = i
    <2> SUFFICES ASSUME NEW i \in seen, \A j \in seen : j <= i
                 PROVE  row'[n].prev = i
      OBVIOUS
    <2>1. row'[n].prev \in seen /\ row[i].time <= row[row'[n].prev].time
      BY <1>a DEF Tips
    <2>2. row'[n].prev <= i
      BY <2>1
    <2>3. ~(row'[n].prev < i)
      BY <2>1, <1>r, <1>s
    <2>4. QED  BY <2>1, <2>2, <2>3, <1>s
  <1>2. \A i \in seen \cup {n} : \/ \A j \in seen \cup {n} : j <= i
                                 \/ \E j \in seen \cup {n} : row'[j].prev = i
    <2> SUFFICES ASSUME NEW i \in seen \cup {n}
                 PROVE  \/ \A j \in seen \cup {n} : j <= i
                        \/ \E j \in seen \cup {n} : row'[j].prev = i
      OBVIOUS
    <2>1. CASE i = n
      BY <2>1, <1>a, <1>s
    <2>2. CASE i \in seen
      BY <2>2, <1>1, <1>a, <1>s DEF Linked
    <2>3. QED  BY <2>1, <2>2
  <1>3. QED  BY <1>2

\* Every step keeps the log one chain for as long as transactions are serial.
LEMMA OneChainStep ==
    ASSUME Typed, OneChain, [Next]_vars
    PROVE  OneChain'
  <1> TypeOK /\ RowsInOrder
    BY DEF Typed
  <1> SUFFICES ASSUME serial'
               PROVE  /\ \A i, j \in 1..Len(row') : i < j => row'[i].time < row'[j].time
                      /\ \A v, w \in Writers : Active(v)' /\ Active(w)' => v = w
                      /\ \A w \in Adding' : \A i \in 1..Len(row') :
                            row'[i].time < stamp'[w]
                      /\ Linked(committed)'
                      /\ \A w \in Writers : Linked(Visible(w))'
    BY DEF OneChain
  <1>s. serial
    BY NextCases DEF vars, Tick, Stamp, Log, Flush, NothingToFlush, Anchor, Commit, Rollback,
                     Crash, TakeTime, Undo
  <1>c. /\ \A i, j \in 1..Len(row) : i < j => row[i].time < row[j].time
        /\ \A v, w \in Writers : Active(v) /\ Active(w) => v = w
        /\ \A w \in Adding : \A i \in 1..Len(row) : row[i].time < stamp[w]
        /\ Linked(committed)
        /\ \A w \in Writers : Linked(Visible(w))
    BY <1>s DEF OneChain
  <1>v. \A w \in Writers : Visible(w) \subseteq 1..Len(row)
    BY DEF Visible, TypeOK
  <1>1. CASE \E w \in Writers : Stamp(w) \/ Flush(w)
    <2> PICK w \in Writers : Stamp(w) \/ Flush(w)  BY <1>1
    <2>1. /\ UNCHANGED <<row, committed, txn>>
          /\ stamp' = [stamp EXCEPT ![w] = now]
          /\ \A i \in 1..Len(row) : row[i].time < now
          /\ \A v \in Writers \ {w} : at[v] = "open" /\ txn[v] = {}
          /\ \A v \in Writers \ {w} : at'[v] = at[v]
      BY DEF Stamp, Flush, TakeTime, TypeOK
    <2>2. \A u, v \in Writers : Active(u)' /\ Active(v)' => u = v
      BY <2>1 DEF Active
    <2>3. \A v \in Adding' : v = w /\ stamp'[v] = now
      BY <2>1 DEF Adding, TypeOK
    <2>4. Linked(committed)' /\ \A v \in Writers : Linked(Visible(v))'
      BY <2>1, <1>c DEF Linked, Visible
    <2>5. QED  BY <2>1, <2>2, <2>3, <2>4, <1>c
  <1>2. CASE \E w \in Writers : \E leaves \in Seq(1..Len(row)) :
                /\ w \in Adding /\ AddRow(w, leaves)
                /\ UNCHANGED committed /\ stamp' = [stamp EXCEPT ![w] = 1]
                /\ \E next \in {"open", "full"} : at' = [at EXCEPT ![w] = next]
    <2> PICK w \in Writers, leaves \in Seq(1..Len(row)) :
                /\ w \in Adding /\ AddRow(w, leaves)
                /\ UNCHANGED committed /\ stamp' = [stamp EXCEPT ![w] = 1]
                /\ \E next \in {"open", "full"} : at' = [at EXCEPT ![w] = next]
      BY <1>2
    <2> DEFINE n == Len(row) + 1
    <2>a. /\ Len(row) \in Nat /\ Len(row') = n /\ 1..Len(row') = (1..Len(row)) \cup {n}
          /\ \A i \in 1..Len(row) : row'[i] = row[i]
          /\ row'[n].time = stamp[w]
          /\ txn' = [txn EXCEPT ![w] = @ \cup {n}]
      BY Added
    <2>1. \A i, j \in 1..Len(row') : i < j => row'[i].time < row'[j].time
      BY <2>a, <1>c
    <2>2. Active(w) /\ \A v \in Writers \ {w} : ~Active(v) /\ at'[v] = at[v] /\ txn'[v] = txn[v]
      BY <2>a, <1>c DEF Active, Adding, TypeOK
    <2>3. \A u, v \in Writers : Active(u)' /\ Active(v)' => u = v
      BY <2>2 DEF Active
    <2>4. Adding' = {}
      <3>1. at'[w] \in {"open", "full"}
        BY DEF TypeOK
      <3>2. QED  BY <3>1, <2>2 DEF Adding, Active
    <2>5. Linked(committed)'
      BY <2>a, <1>c DEF Linked, TypeOK
    <2>6. \A v \in Writers \ {w} : Visible(v)' = committed'
      BY <2>2 DEF Visible, Active
    <2>7. Linked(Visible(w))'
      <3>1. Visible(w)' = Visible(w) \cup {n}
        BY <2>a DEF Visible, TypeOK
      <3>2. \A i \in Visible(w) \cup {n} :
               \/ \A j \in Visible(w) \cup {n} : j <= i
               \/ \E j \in Visible(w) \cup {n} : row'[j].prev = i
        BY <1>c, LinkedAdded
      <3>3. QED  BY <3>1, <3>2 DEF Linked
    <2>8. \A v \in Writers : Linked(Visible(v))'
      BY <2>5, <2>6, <2>7 DEF Linked
    <2>9. QED  BY <2>1, <2>3, <2>4, <2>5, <2>8
  <1>3. CASE \E w \in Writers : Commit(w)
    <2> PICK w \in Writers : Commit(w)  BY <1>3
    <2>1. /\ UNCHANGED <<row, at, stamp>> /\ txn[w] # {}
          /\ committed' = Visible(w) /\ txn' = [txn EXCEPT ![w] = {}]
      BY DEF Commit, Visible
    <2>2. \A v \in Writers : txn'[v] = {}
      BY <2>1, <1>c DEF Active, TypeOK
    <2>3. \A v \in Writers : Active(v)' => Active(v)
      BY <2>1, <2>2 DEF Active
    <2>4. Linked(committed)'
      BY <2>1, <1>c DEF Linked
    <2>5. \A v \in Writers : Visible(v)' = committed'
      BY <2>2 DEF Visible
    <2>6. \A v \in Writers : Linked(Visible(v))'
      BY <2>4, <2>5 DEF Linked
    <2>7. QED  BY <2>1, <2>3, <2>4, <2>6, <1>c DEF Adding
  <1>4. CASE \E W \in SUBSET Writers : Undo(W)
    <2> PICK W \in SUBSET Writers : Undo(W)  BY <1>4
    <2>1. UNCHANGED <<row, committed>>
      BY DEF Undo
    <2>2. \A v \in Writers : Active(v)' => Active(v)
      BY DEF Active, Undo
    <2>3. \A v \in Adding' : v \in Adding /\ stamp'[v] = stamp[v]
      BY DEF Adding, Undo
    <2>4. Linked(committed)' /\ \A v \in Writers : Visible(v)' \in {committed, Visible(v)}
      BY <2>1, <1>c DEF Linked, Visible, Undo
    <2>5. \A v \in Writers : Linked(Visible(v))'
      BY <2>1, <2>4, <1>c DEF Linked
    <2>6. QED  BY <2>1, <2>2, <2>3, <2>4, <2>5, <1>c
  <1>5. CASE Tick \/ UNCHANGED vars
    <2>1. UNCHANGED <<row, committed, txn, at, stamp>>
      BY <1>5 DEF Tick, vars
    <2>2. Linked(committed)' /\ \A v \in Writers : Linked(Visible(v))'
      BY <2>1, <1>c DEF Linked, Visible
    <2>3. \A v \in Writers : Active(v)' => Active(v)
      BY <2>1 DEF Active
    <2>4. Adding' = Adding
      BY <2>1 DEF Adding
    <2>5. QED  BY <2>1, <2>2, <2>3, <2>4, <1>c
  <1>6. CASE \E w \in Writers : NothingToFlush(w)
    <2> PICK w \in Writers : NothingToFlush(w)  BY <1>6
    <2>1. UNCHANGED <<row, committed, txn, stamp>> /\ at' = [at EXCEPT ![w] = "open"]
      BY DEF NothingToFlush
    <2>2. \A v \in Writers : Active(v)' => Active(v)
      BY <2>1 DEF Active, TypeOK
    <2>3. Adding' \subseteq Adding
      BY <2>1 DEF Adding, TypeOK
    <2>4. Linked(committed)' /\ \A v \in Writers : Linked(Visible(v))'
      BY <2>1, <1>c DEF Linked, Visible
    <2>5. QED  BY <2>1, <2>2, <2>3, <2>4, <1>c
  <1>7. CASE \E w \in Writers : Log(w)
    <2> PICK w \in Writers : Log(w)  BY <1>7
    <2>1. <<>> \in Seq(1..Len(row))
      BY EmptySeq
    <2>2. QED  BY <2>1, <1>2 DEF Log, Adding
  <1>8. CASE \E w \in Writers : Anchor(w)
    BY <1>8, <1>2 DEF Anchor, Adding, TypeOK
  <1>9. CASE \E w \in Writers : Rollback(w)
    <2> PICK w \in Writers : Rollback(w)  BY <1>9
    <2>1. {w} \in SUBSET Writers /\ Undo({w})
      BY DEF Rollback
    <2>2. QED  BY <2>1, <1>4
  <1>10. CASE \E p \in Procs : Crash(p)
    <2> PICK p \in Procs : Crash(p)  BY <1>10
    <2>1. {w \in Writers : Home[w] = p} \in SUBSET Writers
      OBVIOUS
    <2>2. QED  BY <2>1, <1>4 DEF Crash
  <1>11. QED
    BY <1>1, <1>3, <1>5, <1>6, <1>7, <1>8, <1>9, <1>10, NextCases

-----------------------------------------------------------------------------
(* The windows.                                                             *)

\* A fresh row is nowhere yet.
LEMMA NowhereYet ==
    ASSUME Typed
    PROVE  /\ \A a \in 1..Len(row) : Len(row) + 1 \notin ToSet(row[a].leaves)
           /\ \A p \in Procs : Len(row) + 1 \notin ToSet(window[p])
           /\ \A w \in Writers : Len(row) + 1 \notin ToSet(drained[w])
  <1>1. Len(row) \in Nat
    BY RowsTyped DEF Typed, TypeOK
  <1>2. Len(row) + 1 \notin 1..Len(row)
    BY <1>1
  <1>3. /\ \A a \in 1..Len(row) : ToSet(row[a].leaves) \subseteq 1..Len(row)
        /\ \A p \in Procs : ToSet(window[p]) \subseteq 1..Len(row)
        /\ \A w \in Writers : ToSet(drained[w]) \subseteq 1..Len(row)
    BY ToSetTyped DEF Typed, TypeOK, RowsInOrder
  <1>4. QED  BY <1>2, <1>3

\* Every step keeps an event in one place: an anchor, a window or a drained batch.
LEMMA InOnePlaceStep ==
    ASSUME Typed, InOnePlace, [Next]_vars
    PROVE  InOnePlace'
  <1> TypeOK /\ RowsInOrder
    BY DEF Typed
  <1>e. ToSet(<<>>) = {}
    BY ToSetEmpty
  <1>h. \A w \in Writers : Home[w] \in Procs
    BY ChainAssumption
  <1>1. CASE \E w \in Writers : Log(w)
    <2> PICK w \in Writers : Log(w)  BY <1>1
    <2> DEFINE n == Len(row) + 1
               p == Home[w]
    <2>0. w \in Adding /\ <<>> \in Seq(1..Len(row)) /\ AddRow(w, <<>>)
      BY EmptySeq DEF Log, Adding
    <2>a. /\ Len(row) \in Nat /\ Len(row') = n /\ 1..Len(row') = (1..Len(row)) \cup {n}
          /\ \A i \in 1..Len(row) : row'[i] = row[i]
          /\ row'[n].leaves = <<>>
      BY <2>0, Added
    <2>1. window[p] \in Seq(1..n) /\ n \in 1..n
      BY <2>a, <1>h, SeqGrows DEF TypeOK
    <2>2. /\ ToSet(window'[p]) = ToSet(window[p]) \cup {n}
          /\ \A q \in Procs : q # p => window'[q] = window[q]
      <3>1. window' = [window EXCEPT ![p] = Append(window[p], n)]
        BY DEF Log
      <3>2. ToSet(Append(window[p], n)) = ToSet(window[p]) \cup {n}
        BY <2>1, ToSetAppend
      <3>3. window'[p] = Append(window[p], n)
        BY <3>1, <1>h DEF TypeOK
      <3>4. \A q \in Procs : q # p => window'[q] = window[q]
        BY <3>1 DEF TypeOK
      <3>5. QED  BY <3>2, <3>3, <3>4
    <2>3. drained' = drained
      BY DEF Log
    <2>4. \A i \in 1..Len(row) : \A q \in Procs :
             i \in ToSet(window'[q]) => i \in ToSet(window[q])
      <3>1. \A i \in 1..Len(row) : i # n
        BY <2>a
      <3> HIDE DEF n, p
      <3>2. QED  BY <3>1, <2>2
    <2>5. \A i \in 1..Len(row), a \in 1..Len(row') :
             i \in ToSet(row'[a].leaves) => a \in 1..Len(row) /\ i \in ToSet(row[a].leaves)
      BY <2>a, <1>e
    <2>6. \A a \in 1..Len(row') : n \notin ToSet(row'[a].leaves)
      BY <2>a, <1>e, NowhereYet
    <2>7. \A v \in Writers : n \notin ToSet(drained'[v])
      BY <2>3, NowhereYet
    <2>8. \A q \in Procs : n \in ToSet(window'[q]) => q = p
      BY <2>2, NowhereYet
    <2> HIDE DEF n
    <2>9. \A i \in 1..Len(row') : i \in 1..Len(row) \/ i = n
      BY <2>a
    <2>10. QED  BY <2>3, <2>4, <2>5, <2>6, <2>7, <2>8, <2>9 DEF InOnePlace
  <1>2. CASE \E w \in Writers : Anchor(w)
    <2> PICK w \in Writers : Anchor(w)  BY <1>2
    <2> DEFINE n == Len(row) + 1
    <2>0. w \in Adding /\ drained[w] \in Seq(1..Len(row)) /\ AddRow(w, drained[w])
      BY DEF Anchor, Adding, TypeOK
    <2>a. /\ Len(row) \in Nat /\ Len(row') = n /\ 1..Len(row') = (1..Len(row)) \cup {n}
          /\ \A i \in 1..Len(row) : row'[i] = row[i]
          /\ row'[n].leaves = drained[w]
      BY <2>0, Added
    <2>1. window' = window /\ drained' = [drained EXCEPT ![w] = <<>>]
      BY DEF Anchor
    <2>2. /\ ToSet(drained'[w]) = {}
          /\ \A v \in Writers : v # w => drained'[v] = drained[v]
      BY <2>1, <1>e DEF TypeOK
    <2>3. \A a \in 1..Len(row') : n \notin ToSet(row'[a].leaves)
      BY <2>a, NowhereYet
    <2>4. /\ \A p \in Procs : n \notin ToSet(window'[p])
          /\ \A v \in Writers : n \notin ToSet(drained'[v])
      BY <2>1, <2>2, NowhereYet
    <2>5. \A i, a : a \in 1..Len(row') /\ i \in ToSet(row'[a].leaves) =>
             \/ a \in 1..Len(row) /\ i \in ToSet(row[a].leaves)
             \/ a = n /\ i \in ToSet(drained[w])
      BY <2>a
    <2>6. \A i : \A v \in Writers :
             i \in ToSet(drained'[v]) => v # w /\ i \in ToSet(drained[v])
      BY <2>2
    <2> HIDE DEF n
    <2>7. \A i \in 1..Len(row') : i \in 1..Len(row) \/ i = n
      BY <2>a
    <2> SUFFICES ASSUME NEW i \in 1..Len(row)
                 PROVE  /\ \A a, b \in 1..Len(row') :
                              i \in ToSet(row'[a].leaves) /\ i \in ToSet(row'[b].leaves)
                                 => a = b
                        /\ \A p, q \in Procs :
                              i \in ToSet(window'[p]) /\ i \in ToSet(window'[q]) => p = q
                        /\ \A v, u \in Writers :
                              i \in ToSet(drained'[v]) /\ i \in ToSet(drained'[u]) => v = u
                        /\ \A a \in 1..Len(row') : i \in ToSet(row'[a].leaves) =>
                              /\ \A p \in Procs : i \notin ToSet(window'[p])
                              /\ \A v \in Writers : i \notin ToSet(drained'[v])
                        /\ \A p \in Procs, v \in Writers :
                              i \notin ToSet(window'[p]) \cap ToSet(drained'[v])
      BY <2>3, <2>4, <2>7 DEF InOnePlace
    <2>8. \A a, b \in 1..Len(row') :
             i \in ToSet(row'[a].leaves) /\ i \in ToSet(row'[b].leaves) => a = b
      BY <2>5 DEF InOnePlace
    <2>9. \A a \in 1..Len(row') : i \in ToSet(row'[a].leaves) =>
             /\ \A p \in Procs : i \notin ToSet(window'[p])
             /\ \A v \in Writers : i \notin ToSet(drained'[v])
      BY <2>1, <2>5, <2>6 DEF InOnePlace
    <2>10. QED  BY <2>1, <2>6, <2>8, <2>9 DEF InOnePlace
  <1>3. CASE \E w \in Writers : Flush(w)
    <2> PICK w \in Writers : Flush(w)  BY <1>3
    <2> DEFINE p == Home[w]
    <2>1. /\ drained' = [drained EXCEPT ![w] = window[p]] /\ row' = row
          /\ window' = [window EXCEPT ![p] = <<>>] /\ drained[w] = <<>>
      BY DEF Flush, RowsInOrder
    <2>2. \A i : \A q \in Procs :
             i \in ToSet(window'[q]) => q # p /\ i \in ToSet(window[q])
      BY <2>1, <1>e DEF TypeOK
    <2>3. \A i : \A v \in Writers : i \in ToSet(drained'[v]) =>
             \/ v = w /\ i \in ToSet(window[p])
             \/ v # w /\ i \in ToSet(drained[v])
      BY <2>1 DEF TypeOK
    <2>4. p \in Procs
      BY <1>h
    <2> HIDE DEF p
    <2>5. QED  BY <2>1, <2>2, <2>3, <2>4 DEF InOnePlace
  <1>4. CASE \E W \in SUBSET Writers : Undo(W) /\ \A p \in Procs : window'[p] \in {<<>>, window[p]}
    <2> PICK W \in SUBSET Writers :
            Undo(W) /\ \A p \in Procs : window'[p] \in {<<>>, window[p]}
      BY <1>4
    <2>1. row' = row /\ \A w \in Writers : drained'[w] \in {<<>>, drained[w]}
      BY DEF Undo
    <2>2. \A i : \A w \in Writers : i \in ToSet(drained'[w]) => i \in ToSet(drained[w])
      BY <2>1, <1>e
    <2>3. \A i : \A p \in Procs : i \in ToSet(window'[p]) => i \in ToSet(window[p])
      BY <1>e
    <2>4. QED  BY <2>1, <2>2, <2>3 DEF InOnePlace
  <1>5. CASE \E w \in Writers : Rollback(w)
    <2> PICK w \in Writers : Rollback(w)  BY <1>5
    <2>1. {w} \in SUBSET Writers /\ Undo({w}) /\ window' = window
      BY DEF Rollback
    <2>2. QED  BY <2>1, <1>4
  <1>6. CASE \E p \in Procs : Crash(p)
    <2> PICK p \in Procs : Crash(p)  BY <1>6
    <2>1. {w \in Writers : Home[w] = p} \in SUBSET Writers
      OBVIOUS
    <2>2. QED  BY <2>1, <1>4 DEF Crash, TypeOK
  <1>7. CASE UNCHANGED <<row, window, drained>>
    BY <1>7 DEF InOnePlace
  <1>8. QED
    BY <1>1, <1>2, <1>3, <1>5, <1>6, <1>7, NextCases
       DEF vars, Tick, Stamp, NothingToFlush, Commit

\* While nothing fails, what a process drains from its window it puts under an anchor.
LEMMA EventsCoveredStep ==
    ASSUME Typed, EventsCovered, [Next]_vars
    PROVE  EventsCovered'
  <1> TypeOK /\ RowsInOrder
    BY DEF Typed
  <1> DEFINE Covered(i) == \/ row[i].leaves # <<>>
                           \/ \E a \in 1..Len(row) : i \in ToSet(row[a].leaves)
                           \/ \E p \in Procs : i \in ToSet(window[p])
                           \/ \E w \in Writers : i \in ToSet(drained[w])
  <1> SUFFICES ASSUME faults' = 0, NEW i \in 1..Len(row')
               PROVE  Covered(i)'
    BY DEF EventsCovered
  <1>f. \A W : ~Undo(W)
    BY ChainAssumption DEF Undo, TypeOK
  <1>g. faults = 0
    BY <1>f, NextCases DEF vars, Tick, Stamp, Log, Flush, NothingToFlush, Anchor, Commit,
                          Rollback, Crash
  <1>c. \A j \in 1..Len(row) : Covered(j)
    BY <1>g DEF EventsCovered
  <1>h. \A w \in Writers : Home[w] \in Procs
    BY ChainAssumption
  <1>1. CASE \E w \in Writers : Log(w)
    <2> PICK w \in Writers : Log(w)  BY <1>1
    <2> DEFINE n == Len(row) + 1
               p == Home[w]
    <2>0. w \in Adding /\ <<>> \in Seq(1..Len(row)) /\ AddRow(w, <<>>)
      BY EmptySeq DEF Log, Adding
    <2>a. /\ Len(row) \in Nat /\ 1..Len(row') = (1..Len(row)) \cup {n}
          /\ \A j \in 1..Len(row) : row'[j] = row[j]
      BY <2>0, Added
    <2>1. window[p] \in Seq(1..n) /\ n \in 1..n
      BY <2>a, <1>h, SeqGrows DEF TypeOK
    <2>2. ToSet(Append(window[p], n)) = ToSet(window[p]) \cup {n}
      BY <2>1, ToSetAppend
    <2>3. /\ window'[p] = Append(window[p], n)
          /\ \A q \in Procs : q # p => window'[q] = window[q]
      BY <1>h DEF Log, TypeOK
    <2>4. \A q \in Procs : ToSet(window[q]) \subseteq ToSet(window'[q])
      BY <2>2, <2>3
    <2>5. n \in ToSet(window'[p])
      BY <2>2, <2>3
    <2>6. drained' = drained /\ p \in Procs
      BY <1>h DEF Log
    <2>7. CASE i = n
      BY <2>5, <2>6, <2>7
    <2>8. CASE i \in 1..Len(row)
      BY <2>a, <2>4, <2>6, <2>8, <1>c
    <2>9. QED  BY <2>a, <2>7, <2>8
  <1>2. CASE \E w \in Writers : Anchor(w)
    <2> PICK w \in Writers : Anchor(w)  BY <1>2
    <2> DEFINE n == Len(row) + 1
    <2>0. w \in Adding /\ drained[w] \in Seq(1..Len(row)) /\ AddRow(w, drained[w])
      BY DEF Anchor, Adding, TypeOK
    <2>a. /\ 1..Len(row') = (1..Len(row)) \cup {n} /\ n \in 1..Len(row')
          /\ \A j \in 1..Len(row) : row'[j] = row[j]
          /\ row'[n].leaves = drained[w]
      BY <2>0, Added
    <2>1. window' = window /\ \A v \in Writers : v # w => drained'[v] = drained[v]
      BY DEF Anchor, TypeOK
    <2>2. drained[w] # <<>>
      BY DEF Anchor, RowsInOrder
    <2>3. CASE i = n
      BY <2>a, <2>2, <2>3
    <2>4. CASE i \in 1..Len(row)
      <3>1. CASE i \in ToSet(drained[w])
        BY <2>a, <3>1
      <3>2. CASE i \notin ToSet(drained[w])
        BY <2>a, <2>1, <2>4, <3>2, <1>c
      <3>3. QED  BY <3>1, <3>2
    <2>5. QED  BY <2>a, <2>3, <2>4
  <1>3. CASE \E w \in Writers : Flush(w)
    <2> PICK w \in Writers : Flush(w)  BY <1>3
    <2> DEFINE p == Home[w]
    <2>1. /\ row' = row /\ drained[w] = <<>>
          /\ drained'[w] = window[p] /\ \A v \in Writers : v # w => drained'[v] = drained[v]
          /\ \A q \in Procs : q # p => window'[q] = window[q]
      BY DEF Flush, RowsInOrder, TypeOK
    <2>2. Covered(i)
      BY <2>1, <1>c
    <2>3. CASE \E q \in Procs : i \in ToSet(window[q])
      BY <2>1, <2>3
    <2>4. CASE \E v \in Writers : i \in ToSet(drained[v])
      BY <2>1, <2>4, ToSetEmpty
    <2>5. QED  BY <2>1, <2>2, <2>3, <2>4
  <1>4. CASE UNCHANGED <<row, window, drained>>
    BY <1>4, <1>c
  <1>5. QED
    BY <1>1, <1>2, <1>3, <1>4, <1>f, NextCases
       DEF vars, Tick, Stamp, NothingToFlush, Commit, Rollback, Crash

-----------------------------------------------------------------------------
(* The theorems.                                                            *)

\* The empty log satisfies the invariant.
LEMMA InvInit == Init => Inv
  <1> SUFFICES ASSUME Init PROVE Inv
    OBVIOUS
  <1>1. row = <<>> /\ committed = {} /\ Len(row) = 0 /\ 1..Len(row) = {}
    BY EmptySeq DEF Init
  <1>2. Adding = {} /\ Cardinality(Adding) = 0
    BY FS_EmptySet DEF Adding, Init
  <1>3. Typed
    <2>1. \A S : <<>> \in Seq(S)
      BY EmptySeq
    <2>2. TypeOK
      BY <1>1, <2>1, ChainAssumption DEF Init, TypeOK, Times
    <2>3. RowsInOrder
      BY <1>1, <1>2, ChainAssumption DEF Init, RowsInOrder
    <2>4. QED  BY <2>2, <2>3 DEF Typed
  <1>4. Rooted
    BY <1>1 DEF Init, Rooted
  <1>5. OneChain
    <2>1. \A w \in Writers : ~Active(w) /\ Visible(w) = {}
      BY DEF Init, Active, Visible
    <2>2. QED  BY <1>1, <1>2, <2>1 DEF OneChain, Linked
  <1>6. InOnePlace /\ EventsCovered
    BY <1>1 DEF InOnePlace, EventsCovered
  <1>7. QED  BY <1>3, <1>4, <1>5, <1>6 DEF Inv

\* The invariant holds in every reachable state.
LEMMA Invariance == Spec => []Inv
  <1>1. ASSUME Inv, [Next]_vars PROVE Inv'
    BY <1>1, TypedStep, RootedStep, OneChainStep, InOnePlaceStep, EventsCoveredStep DEF Inv
  <1>2. QED  BY <1>1, InvInit, PTL DEF Spec

\* Every state of the log is of its type.
THEOREM TypeCorrect == Spec => []TypeOK
  <1>1. Inv => TypeOK
    BY DEF Inv, Typed
  <1>2. QED  BY <1>1, Invariance, PTL

\* verify_chain over all the committed rows of a log nobody touched reports nothing,
\* however many transactions overlapped, failed or took one time (chain_log).
THEOREM LogVerifies == Spec => []Verifies
  <1>1. ASSUME Inv PROVE Verifies
    <2> TypeOK /\ Rooted
      BY <1>1 DEF Inv, Typed
    <2>1. Len(row) \in Nat /\ committed \subseteq 1..Len(row) /\ Len(row) <= MaxRows
      BY RowsTyped DEF TypeOK
    <2>2. IsFiniteSet(committed) /\ Cardinality(committed) \in Nat
          /\ Cardinality(committed) <= MaxRows
      <3>1. IsFiniteSet(1..Len(row)) /\ Cardinality(1..Len(row)) = Len(row)
        BY <2>1, FS_Interval
      <3>2. IsFiniteSet(committed) /\ Cardinality(committed) <= Cardinality(1..Len(row))
        BY <2>1, <3>1, FS_Subset
      <3>3. Cardinality(committed) \in Nat
        BY <3>2, FS_CardinalityType
      <3>4. QED  BY <2>1, <3>1, <3>2, <3>3, ChainAssumption
    <2> SUFFICES ASSUME NEW S \in Oldest(committed, MaxRows) PROVE Orphans(S) = {}
      BY DEF Verifies
    <2>3. S \subseteq committed /\ Cardinality(S) = Cardinality(committed)
      BY <2>2, ChainAssumption DEF Oldest
    <2>4. S = committed
      BY <2>2, <2>3, FS_Subset
    <2>5. QED  BY <2>4 DEF Orphans, Rooted
  <1>2. QED  BY <1>1, Invariance, PTL

\* Of a log whose transactions did not overlap, a committed row that was deleted is
\* missed by the row that followed it (verify_chain).
THEOREM DeletionsShow == Spec => []DeletionShows
  <1>1. ASSUME Inv PROVE DeletionShows
    <2> TypeOK /\ RowsInOrder /\ OneChain
      BY <1>1 DEF Inv, Typed
    <2> SUFFICES ASSUME serial, NEW i \in committed, NEW k \in committed, k > i
                 PROVE  Orphans(committed \ {i}) # {}
      BY DEF DeletionShows
    <2>1. committed \subseteq 1..Len(row) /\ Len(row) \in Nat
      BY RowsTyped DEF TypeOK
    <2>2. PICK j \in committed : row[j].prev = i
      BY <2>1 DEF OneChain, Linked
    <2>3. j # i /\ i # Genesis
      BY <2>1, <2>2 DEF RowsInOrder, Genesis
    <2>4. j \in Orphans(committed \ {i})
      BY <2>2, <2>3 DEF Orphans
    <2>5. QED  BY <2>4
  <1>2. QED  BY <1>1, Invariance, PTL

\* No event is anchored twice, or anchored and still waiting, whatever failed between
\* the draining of a window and the commit of its anchor (flush_window).
THEOREM AnchoredAtMostOnce == Spec => []AnchoredOnce
  <1>1. ASSUME Inv PROVE AnchoredOnce
    <2> InOnePlace
      BY <1>1 DEF Inv
    <2> DEFINE covers(i) == {a \in 1..Len(row) : i \in ToSet(row[a].leaves)}
               waits(i) == {p \in Procs : i \in ToSet(window[p])}
               drains(i) == {w \in Writers : i \in ToSet(drained[w])}
    <2> SUFFICES ASSUME NEW i \in 1..Len(row)
                 PROVE  Cardinality(covers(i)) + Cardinality(waits(i))
                           + Cardinality(drains(i)) <= 1
      BY DEF AnchoredOnce
    <2>1. \A S : (\A x, y \in S : x = y) =>
                    \/ Cardinality(S) = 0
                    \/ Cardinality(S) = 1 /\ S # {}
      <3> SUFFICES ASSUME NEW S, \A x, y \in S : x = y, S # {}
                   PROVE  Cardinality(S) = 1
        BY FS_EmptySet
      <3>1. PICK x : x \in S
        OBVIOUS
      <3>2. S = {x}
        BY <3>1
      <3>3. QED  BY <3>2, FS_Singleton
    <2>2. /\ \A x, y \in covers(i) : x = y
          /\ \A x, y \in waits(i) : x = y
          /\ \A x, y \in drains(i) : x = y
      BY DEF InOnePlace
    <2>3. /\ covers(i) = {} \/ waits(i) = {}
          /\ covers(i) = {} \/ drains(i) = {}
          /\ waits(i) = {} \/ drains(i) = {}
      BY DEF InOnePlace
    <2>4. Cardinality({}) = 0
      BY FS_EmptySet
    <2> HIDE DEF covers, waits, drains
    <2>5. /\ Cardinality(covers(i)) = 0 \/ (Cardinality(covers(i)) = 1 /\ covers(i) # {})
          /\ Cardinality(waits(i)) = 0 \/ (Cardinality(waits(i)) = 1 /\ waits(i) # {})
          /\ Cardinality(drains(i)) = 0 \/ (Cardinality(drains(i)) = 1 /\ drains(i) # {})
      BY <2>1, <2>2
    <2>6. QED  BY <2>3, <2>4, <2>5
  <1>2. QED  BY <1>1, Invariance, PTL

\* While nothing fails every event is anchored, about to be, or waiting in a window.
THEOREM NothingUncovered == Spec => []EventsCovered
  <1>1. Inv => EventsCovered
    BY DEF Inv
  <1>2. QED  BY <1>1, Invariance, PTL
=============================================================================
