----------------------------- MODULE AuditChain -----------------------------
(***************************************************************************)
(* The audit log of one namespace in the hosted server                     *)
(* (agentmem/src/lians): the hash chain that chain_log extends inside the  *)
(* transaction of every operation (audit_chain.py), its verification, and  *)
(* the Merkle windows of the processes (merkle_audit.py).                  *)
(*                                                                         *)
(* A hash covers the row and the hash before it, so two rows have one hash *)
(* only if they are one row: a row stands for its hash.  Transactions read *)
(* committed rows and their own.  A row's time is taken before the tip is  *)
(* looked up, and the clock may stand still between two rows.              *)
(***************************************************************************)
EXTENDS Integers, Sequences, FiniteSets, SequencesExt

CONSTANTS
    Procs,      \* processes of the server
    Writers,    \* transactions that may be open at once
    Home,       \* writer -> its process
    BatchSize,  \* settings.merkle_batch_size
    Limit,      \* verify_chain: the most rows it reads
    MaxRows,    \* bound: rows ever written
    MaxTime,    \* bound: the clock
    MaxFaults   \* bound: transactions rolled back and processes that die

ASSUME ChainAssumption ==
    /\ IsFiniteSet(Writers) /\ Home \in [Writers -> Procs]
    /\ BatchSize \in Nat \ {0} /\ Limit \in Nat
    /\ MaxRows \in Nat /\ MaxTime \in Nat \ {0} /\ MaxFaults \in Nat

VARIABLES
    now,        \* the clock
    row,        \* event_log: the rows, in the order they were flushed
    committed,  \* those of committed transactions
    txn,        \* writer -> those of its open transaction
    at,         \* writer -> what it is doing
    stamp,      \* writer -> created_at of the row it is adding
    drained,    \* writer -> the leaves of the anchor it is adding
    window,     \* process -> its MerkleWindow: rows not anchored yet
    faults,     \* how many faults there have been
    serial      \* ghost: no two transactions overlapped, no two times are equal

vars == <<now, row, committed, txn, at, stamp, drained, window, faults, serial>>

Ids     == 1..MaxRows
Genesis == 0
Times   == 1..MaxTime

\* An event, or a merkle_anchor with the leaves it covers.
Rows == [time : Times, prev : Ids \cup {Genesis}, leaves : Seq(Ids)]

TypeOK ==
    /\ now \in Times
    /\ row \in Seq(Rows) /\ Len(row) <= MaxRows
    /\ committed \in SUBSET (1..Len(row))
    /\ txn \in [Writers -> SUBSET ((1..Len(row)) \ committed)]
    /\ at \in [Writers -> {"open", "stamped", "full", "anchoring"}]
    /\ stamp \in [Writers -> Times]
    /\ drained \in [Writers -> Seq(1..Len(row))]
    /\ window \in [Procs -> Seq(1..Len(row))]
    /\ faults \in 0..MaxFaults
    /\ serial \in BOOLEAN

Init ==
    /\ now = 1
    /\ row = <<>>
    /\ committed = {}
    /\ txn = [w \in Writers |-> {}]
    /\ at = [w \in Writers |-> "open"]
    /\ stamp = [w \in Writers |-> 1]
    /\ drained = [w \in Writers |-> <<>>]
    /\ window = [p \in Procs |-> <<>>]
    /\ faults = 0
    /\ serial = TRUE

Tick ==
    /\ now < MaxTime
    /\ now' = now + 1
    /\ UNCHANGED <<row, committed, txn, at, stamp, drained, window, faults, serial>>

-----------------------------------------------------------------------------
(* chain_log.                                                              *)

\* Mutants of Visible: rows that are not committed are read; its own are not.
VisibleDirty(w) == 1..Len(row)
VisibleCommitted(w) == committed

\* What a transaction reads: READ COMMITTED, and its own writes.
Visible(w) == committed \cup txn[w]

\* get_chain_tip: the latest created_at; of several, any, for ids are random.
Tips(w) ==
    LET rows == Visible(w) IN
    IF rows = {} THEN {Genesis}
    ELSE {i \in rows : \A j \in rows : row[j].time <= row[i].time}

\* Mutant of AddRow: the anchor does not carry the events it covers.
AddRowBare(w, leaves) ==
    \E tip \in Tips(w) :
        /\ row' = Append(row, [time |-> stamp[w], prev |-> tip, leaves |-> <<>>])
        /\ txn' = [txn EXCEPT ![w] = @ \cup {Len(row) + 1}]

\* The row is linked to a tip and flushed.
AddRow(w, leaves) ==
    \E tip \in Tips(w) :
        /\ row' = Append(row, [time |-> stamp[w], prev |-> tip, leaves |-> leaves])
        /\ txn' = [txn EXCEPT ![w] = @ \cup {Len(row) + 1}]

\* datetime.now()
TakeTime(w) ==
    /\ stamp' = [stamp EXCEPT ![w] = now]
    /\ serial' = (/\ serial
                  /\ \A i \in 1..Len(row) : row[i].time < now
                  /\ \A v \in Writers \ {w} : at[v] = "open" /\ txn[v] = {})

\* Within the bound, rows being added included.
Room == Len(row) + Cardinality({w \in Writers : at[w] \in {"stamped", "anchoring"}})
           < MaxRows

\* An operation logs an event; its time is taken first ...
Stamp(w) ==
    /\ at[w] = "open" /\ Room
    /\ at' = [at EXCEPT ![w] = "stamped"]
    /\ TakeTime(w)
    /\ UNCHANGED <<now, row, committed, txn, drained, window, faults>>

\* ... then the tip is read, the row flushed, and its hash put in the window of
\* the process, though the transaction may still be rolled back.
Log(w) ==
    LET p == Home[w] IN
    /\ at[w] = "stamped"
    /\ AddRow(w, <<>>)
    /\ window' = [window EXCEPT ![p] = Append(@, Len(row) + 1)]
    /\ at' = [at EXCEPT ![w] =
                 IF Len(window[p]) + 1 >= BatchSize THEN "full" ELSE "open"]
    /\ stamp' = [stamp EXCEPT ![w] = 1]
    /\ UNCHANGED <<now, committed, drained, faults, serial>>

\* The lock of flush_window, one in each process.
Locked(p) == \E w \in Writers : Home[w] = p /\ at[w] = "anchoring"

\* Mutant of Flush: the window is emptied when the anchor is written, not before.
FlushKeeps(w) ==
    LET p == Home[w] IN
    /\ at[w] = "full" /\ window[p] # <<>> /\ Room
    /\ at' = [at EXCEPT ![w] = "anchoring"]
    /\ drained' = [drained EXCEPT ![w] = window[p]]
    /\ TakeTime(w)
    /\ UNCHANGED <<now, row, committed, txn, window, faults>>

\* flush_window, under the lock of the process: the window is drained ...
Flush(w) ==
    LET p == Home[w] IN
    /\ at[w] = "full" /\ ~Locked(p) /\ window[p] # <<>> /\ Room
    /\ at' = [at EXCEPT ![w] = "anchoring"]
    /\ drained' = [drained EXCEPT ![w] = window[p]]
    /\ window' = [window EXCEPT ![p] = <<>>]
    /\ TakeTime(w)
    /\ UNCHANGED <<now, row, committed, txn, faults>>

\* ... unless another transaction has just done it ...
NothingToFlush(w) ==
    /\ at[w] = "full" /\ ~Locked(Home[w]) /\ window[Home[w]] = <<>>
    /\ at' = [at EXCEPT ![w] = "open"]
    /\ UNCHANGED <<now, row, committed, txn, stamp, drained, window, faults, serial>>

\* ... and the anchor is logged in the transaction that filled it.
Anchor(w) ==
    /\ at[w] = "anchoring"
    /\ AddRow(w, drained[w])
    /\ at' = [at EXCEPT ![w] = "open"]
    /\ drained' = [drained EXCEPT ![w] = <<>>]
    /\ stamp' = [stamp EXCEPT ![w] = 1]
    /\ UNCHANGED <<now, committed, window, faults, serial>>

Commit(w) ==
    /\ at[w] = "open" /\ txn[w] # {}
    /\ committed' = committed \cup txn[w]
    /\ txn' = [txn EXCEPT ![w] = {}]
    /\ UNCHANGED <<now, row, at, stamp, drained, window, faults, serial>>

-----------------------------------------------------------------------------
(* Faults.                                                                 *)

\* The transactions of W are gone.
Undo(W) ==
    /\ faults < MaxFaults
    /\ faults' = faults + 1
    /\ txn' = [w \in Writers |-> IF w \in W THEN {} ELSE txn[w]]
    /\ at' = [w \in Writers |-> IF w \in W THEN "open" ELSE at[w]]
    /\ stamp' = [w \in Writers |-> IF w \in W THEN 1 ELSE stamp[w]]
    /\ drained' = [w \in Writers |-> IF w \in W THEN <<>> ELSE drained[w]]
    /\ UNCHANGED <<now, row, committed, serial>>

\* A request fails: what it put in the window, or drained from it, is not undone.
Rollback(w) ==
    /\ at[w] # "open" \/ txn[w] # {}
    /\ Undo({w})
    /\ UNCHANGED window

\* A process dies and starts again.
Crash(p) ==
    /\ Undo({w \in Writers : Home[w] = p})
    /\ window' = [window EXCEPT ![p] = <<>>]

Next ==
    \/ Tick
    \/ \E w \in Writers :
          Stamp(w) \/ Log(w) \/ Flush(w) \/ NothingToFlush(w) \/ Anchor(w)
            \/ Commit(w) \/ Rollback(w)
    \/ \E p \in Procs : Crash(p)

Spec == Init /\ [][Next]_vars

-----------------------------------------------------------------------------
(* Verification.                                                           *)

\* What verify_chain may read of a log: the oldest rows, up to the limit.
Oldest(rows, limit) ==
    {S \in SUBSET rows :
        /\ Cardinality(S) = IF Cardinality(rows) < limit THEN Cardinality(rows)
                            ELSE limit
        /\ \A i \in S, j \in rows \ S : row[i].time <= row[j].time}

\* The rows it reports as orphaned_parent.
Orphans(S) == {i \in S : row[i].prev \notin S \cup {Genesis}}

\* verify_merkle_batch looks for the rows whose payload names the anchor: that is
\* the anchor's own row, for the events it covers never learn of it.
Found(a) == <<a>>

BatchStatus(a) == IF Found(a) = row[a].leaves THEN "ok" ELSE "tampered"

-----------------------------------------------------------------------------
(* Correctness.                                                            *)

\* A log nobody touched verifies, however its transactions overlapped, failed or
\* took their times: every committed row follows a committed row or the genesis, and
\* verify_chain over all of them reports nothing.
Verifies == \A S \in Oldest(committed, MaxRows) : Orphans(S) = {}

\* So it does when verify_chain stops at its limit, if no two rows have one time: what
\* it reads never needs a row that it does not read.
VerifiesWithinLimit ==
    (\A i, j \in committed : row[i].time = row[j].time => i = j) =>
        \A S \in Oldest(committed, Limit) : Orphans(S) = {}

\* A deleted row shows, unless nothing has been logged since: when transactions do
\* not overlap, whatever else they do, verify_chain finds the row that followed it.
DeletionShows ==
    serial => \A i \in committed :
                  (\E j \in committed : j > i) => Orphans(committed \ {i}) # {}

\* The same without that condition, for which "a row was deleted" is documented.
DeletionAlwaysShows ==
    \A i \in committed :
        (\E j \in committed : j > i) => Orphans(committed \ {i}) # {}

\* No event is covered by two anchors, or covered and still waiting in a window,
\* however many transactions of a process fill the window at once.
AnchoredOnce ==
    LET covers(i) ==
            {a \in 1..Len(row) : i \in ToSet(row[a].leaves)}
        waits(i) == {p \in Procs : i \in ToSet(window[p])}
        drains(i) == {w \in Writers : i \in ToSet(drained[w])}
    IN  \A i \in 1..Len(row) :
            Cardinality(covers(i)) + Cardinality(waits(i)) + Cardinality(drains(i)) <= 1

\* As long as nothing failed, every event is anchored, about to be, or waiting.
EventsCovered ==
    faults = 0 =>
        \A i \in 1..Len(row) :
            \/ row[i].leaves # <<>>
            \/ \E a \in 1..Len(row) : i \in ToSet(row[a].leaves)
            \/ \E p \in Procs : i \in ToSet(window[p])
            \/ \E w \in Writers : i \in ToSet(drained[w])

\* A committed anchor covers committed events only: what it attests happened.
AnchorsCommitted ==
    \A a \in committed : ToSet(row[a].leaves) \subseteq committed

\* A batch nobody touched verifies.
BatchVerifies ==
    \A a \in committed : row[a].leaves # <<>> => BatchStatus(a) = "ok"
=============================================================================
