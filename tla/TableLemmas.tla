----------------------------- MODULE TableLemmas -----------------------------
(***************************************************************************)
(* Lemmas about a table kept as the sequence of its rows, in the order in  *)
(* which they were written: what an insert and an update leave of it.      *)
(***************************************************************************)
EXTENDS Integers, Sequences, SequenceTheorems, TLAPS

\* A table has its rows at 1..Len(s).
LEMMA RowsTyped ==
    ASSUME NEW S, NEW s \in Seq(S)
    PROVE  /\ Len(s) \in Nat /\ DOMAIN s = 1..Len(s)
           /\ s \in [1..Len(s) -> S]
           /\ \A i \in DOMAIN s : s[i] \in S
  BY LenProperties, ElementOfSeq

\* An insert adds the row last and leaves the others as they were.
LEMMA RowInserted ==
    ASSUME NEW S, NEW s \in Seq(S), NEW row \in S
    PROVE  /\ Append(s, row) \in Seq(S)
           /\ Len(Append(s, row)) = Len(s) + 1
           /\ DOMAIN Append(s, row) = 1..(Len(s) + 1)
           /\ Append(s, row)[Len(s) + 1] = row
           /\ \A i \in DOMAIN s : Append(s, row)[i] = s[i]
  <1>1. Len(s) \in Nat /\ DOMAIN s = 1..Len(s)
    BY LenProperties
  <1>2. Append(s, row) \in Seq(S) /\ Len(Append(s, row)) = Len(s) + 1
    BY AppendProperties
  <1>3. \A i \in 1..Len(s) : Append(s, row)[i] = s[i]
    BY AppendProperties
  <1>4. Append(s, row)[Len(s) + 1] = row
    BY AppendProperties
  <1>5. DOMAIN Append(s, row) = 1..(Len(s) + 1)
    BY <1>2, LenProperties
  <1>6. QED  BY <1>1, <1>2, <1>3, <1>4, <1>5

\* An update of the rows leaves a table of as many.
LEMMA RowsUpdated ==
    ASSUME NEW S, NEW n \in Nat, NEW s \in [1..n -> S]
    PROVE  s \in Seq(S) /\ Len(s) = n /\ DOMAIN s = 1..n
  <1>1. s \in Seq(S)
    BY SeqDef
  <1>2. DOMAIN s = 1..Len(s) /\ Len(s) \in Nat
    BY <1>1, LenProperties
  <1>3. QED  BY <1>1, <1>2

\* So does the update of one row.
LEMMA RowUpdated ==
    ASSUME NEW S, NEW s \in Seq(S), NEW i \in DOMAIN s, NEW row \in S
    PROVE  /\ [s EXCEPT ![i] = row] \in Seq(S)
           /\ Len([s EXCEPT ![i] = row]) = Len(s)
           /\ DOMAIN [s EXCEPT ![i] = row] = DOMAIN s
           /\ \A j \in DOMAIN s : [s EXCEPT ![i] = row][j] = IF j = i THEN row ELSE s[j]
  <1>1. i \in 1..Len(s)
    BY LenProperties
  <1>2. QED  BY <1>1, ExceptSeq, LenProperties
=============================================================================
