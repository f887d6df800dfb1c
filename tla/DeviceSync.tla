----------------------------- MODULE DeviceSync -----------------------------
(***************************************************************************)
(* Encrypted synchronisation of one profile between the devices of a user: *)
(* the client (packages/lians-easy: cloud_service.py, sync.py, and the     *)
(* merge of portability.py), the server (agentmem: api/routes_sync.py) and *)
(* the local stores.                                                       *)
(*                                                                         *)
(* The server keeps a chain of revisions, each the whole profile of the    *)
(* device that wrote it, sealed under the key of an epoch.  Removing a     *)
(* device begins an epoch: the key is wrapped for those that remain, the   *)
(* revisions sealed under the old one are deleted, the chain starts again. *)
(*                                                                         *)
(* Covered: operations of several devices interleaved call by call, lost   *)
(* requests and replies, a crash at any point, enrolment (also abandoned), *)
(* removal.  The file lock of sync does not keep local programs out, and   *)
(* no transaction is open while either reads: a merge reads and writes in  *)
(* two steps, and so do correct and forget, one program for each store.    *)
(* Not covered: deleting the workspace, recovery from a backup, time       *)
(* limits (an enrolment may end at any time), pausing, activity, receipts, *)
(* dependencies, races of local programs with each other (LocalStore).     *)
(***************************************************************************)
EXTENDS Integers, Sequences, FiniteSets

CONSTANTS
    Device,      \* the computers of one account
    Root,        \* the one that started cloud memory
    Second,      \* one that has joined it when the behaviour begins, or None
    Memory,      \* versions of memories that may be written
    Corrects,    \* version -> the version it corrects, or None
    None,        \* no version, no device, no state, no grant
    MaxEpoch,    \* bound: removals, plus one
    MaxRevision, \* bound: revisions in an epoch
    MaxBusy      \* bound: operations and local changes in progress at once

ASSUME SyncAssumption ==
    /\ Root \in Device /\ Second \in (Device \ {Root}) \cup {None}
    /\ None \notin Device \cup Memory
    /\ Corrects \in [Memory -> Memory \cup {None}]
    /\ MaxEpoch \in Nat \ {0} /\ MaxRevision \in Nat /\ MaxBusy \in Nat

VARIABLES
    \* the server
    epoch,       \* sync_workspaces.epoch
    log,         \* sync_revisions of this epoch; head_revision is its length
    row,         \* sync_devices: device -> "absent", "active", "revoked"
    grant,       \* sync_devices.grant: who let the device in, and to whom
    rotations,   \* sync_key_rotations: the i-th begins epoch i + 1
    enrolment,   \* sync_enrollments: device -> "none", "waiting", "approved"
    \* the devices
    store,       \* device -> its local memories
    saved,       \* device -> sync-state.json, or None
    op,          \* device -> the operation that holds its file lock
    client,      \* device -> the change a local program is making
    raced        \* history: the devices whose last merge overlapped a local change

server == <<epoch, log, row, grant, rotations, enrolment>>
local  == <<store, client, raced>>
vars   == <<epoch, log, row, grant, rotations, enrolment, store, saved, op, client, raced>>

-----------------------------------------------------------------------------
(* Memories.                                                               *)

\* The first version of the lineage of a memory.
Origin[m \in Memory] == IF Corrects[m] = None THEN m ELSE Origin[Corrects[m]]

\* No version corrects itself, by whatever detour: what Origin says of each is true.
ASSUME LineageAssumption ==
    Origin = [m \in Memory |-> IF Corrects[m] = None THEN m ELSE Origin[Corrects[m]]]

Lineage(m, S) == {x \in S : Origin[x] = Origin[m]}

\* The versions there are, those forgotten, and the corrections that the version they
\* correct names as its successor (superseded_by_id).
Profiles == [known : SUBSET Memory, forgotten : SUBSET Memory, named : SUBSET Memory]
Nothing  == [known |-> {}, forgotten |-> {}, named |-> {}]

\* Every version of profile p is in profile q, every tombstone too.
Within(p, q) == p.known \subseteq q.known /\ p.forgotten \subseteq q.forgotten

Corrections(p) == {m \in p.known : Corrects[m] # None}

\* _validate_combined_lineage, _validate_payload: a correction is named by the version it
\* corrects, and a version names one: "divergent edits still fail in merge".
Mergeable(p) ==
    /\ p.named = Corrections(p)
    /\ \A m, n \in p.named : Corrects[m] = Corrects[n] => m = n

\* Mutant of Merge: a tombstone covers the version it was put on alone.
MergeRecords(p, q) ==
    [known |-> p.known \cup q.known, forgotten |-> p.forgotten \cup q.forgotten,
     named |-> p.named \cup q.named]

\* merge_profile_payload with sync: identities are added, a tombstone always wins
\* and covers every version of its lineage.
Merge(p, q) ==
    LET known == p.known \cup q.known
    IN  [known     |-> known,
         forgotten |-> UNION {Lineage(m, known) : m \in p.forgotten \cup q.forgotten},
         named     |-> p.named \cup q.named]

\* What a walk of forget reaches from m: the version that one corrects, the one that
\* it names.
Walked(S, p) ==
    /\ \A x \in S : Corrects[x] \in p.known => Corrects[x] \in S
    /\ \A x \in p.named : Corrects[x] \in S => x \in S

Walk(m, p) == {x \in p.known : \A S \in SUBSET p.known : m \in S /\ Walked(S, p) => x \in S}

-----------------------------------------------------------------------------
(* What a device keeps and what it is doing.                               *)

Epochs == 1..MaxEpoch

\* SyncState; holding the key of an epoch is being at that epoch.
States == [epoch : Epochs, trusted : SUBSET Device, revoked : SUBSET Device,
           head : 0..MaxRevision]

\* active_devices
Active(state) == state.trusted \ state.revoked

Grants    == [epoch : Epochs, approver : Device, registry : SUBSET Device]
Rotations == [revoked : Device, initiator : Device, active : SUBSET Device]
Revisions == [epoch : Epochs, number : 1..MaxRevision + 1, by : Device,
              body : Profiles]

\* An operation: where it is, whether it is one that publishes (what another one is
\* shows when its pull is done), whether it has retried, the epoch it was told of,
\* the page it fetched, the profile its merge has read, the revision it prepared.
Operations ==
    [at : {"idle", "rotations", "grants", "merge", "write", "push", "again"},
     publishes : BOOLEAN, retried : BOOLEAN, upto : Epochs,
     page : Seq(Revisions), seen : Profiles, draft : Revisions \cup {None}]

\* A local change: what it is and the versions it is about to write.
Changes == [at : {"rest", "correct", "forget"}, versions : SUBSET Memory]

ASSUME NoneAssumption == None \notin States \cup Grants \cup Revisions

Idle == [at |-> "idle", publishes |-> FALSE, retried |-> FALSE, upto |-> 1,
         page |-> <<>>, seen |-> Nothing, draft |-> None]

AtRest == [at |-> "rest", versions |-> {}]

TypeOK ==
    /\ epoch \in Epochs
    /\ log \in Seq(Revisions) /\ \A i \in 1..Len(log) : log[i].number = i
    /\ row \in [Device -> {"absent", "active", "revoked"}]
    /\ grant \in [Device -> Grants \cup {None}]
    /\ rotations \in Seq(Rotations)
    /\ enrolment \in [Device -> {"none", "waiting", "approved"}]
    /\ store \in [Device -> Profiles]
    /\ saved \in [Device -> States \cup {None}]
    /\ op \in [Device -> Operations]
    /\ client \in [Device -> Changes]
    /\ raced \subseteq Device

\* The root device has created the workspace and let the second one in.
Init ==
    LET first == {Root, Second} \ {None} IN
    /\ epoch = 1
    /\ log = <<>>
    /\ row = [d \in Device |-> IF d \in first THEN "active" ELSE "absent"]
    /\ grant = [d \in Device |->
                  IF d \in first \ {Root}
                  THEN [epoch |-> 1, approver |-> Root, registry |-> first]
                  ELSE None]
    /\ rotations = <<>>
    /\ enrolment = [d \in Device |-> "none"]
    /\ store = [d \in Device |-> Nothing]
    /\ saved = [d \in Device |->
                  IF d \in first
                  THEN [epoch |-> 1, trusted |-> first, revoked |-> {}, head |-> 0]
                  ELSE None]
    /\ op = [d \in Device |-> Idle]
    /\ client = [d \in Device |-> AtRest]
    /\ raced = {}

Registered == {d \in Device : row[d] = "active"}

At(d, step) == op[d].at = step
Fail(d)     == op' = [op EXCEPT ![d] = Idle]

MoreMayBegin ==
    Cardinality({x \in Device : ~At(x, "idle")})
      + Cardinality({x \in Device : client[x] # AtRest}) < MaxBusy
Begins(d)       == At(d, "idle") /\ MoreMayBegin
BeginsChange(d) == client[d] = AtRest /\ MoreMayBegin

-----------------------------------------------------------------------------
(* The user changes memories, whether the device is connected or not.      *)

\* A change is written, in one transaction.
Change(d, profile) ==
    /\ store' = [store EXCEPT ![d] = profile]
    /\ client' = [client EXCEPT ![d] = AtRest]
    /\ UNCHANGED <<server, saved, op, raced>>

\* A local program has read the store and goes on without a transaction.
Reads(d, change) ==
    /\ BeginsChange(d)
    /\ client' = [client EXCEPT ![d] = change]
    /\ UNCHANGED <<server, store, saved, op, raced>>

New(m) == \A x \in Device : m \notin store[x].known \cup client[x].versions

\* remember has no lineage to read: one step.
Remember(d, m) ==
    /\ New(m) /\ Corrects[m] = None /\ client[d] = AtRest
    /\ Change(d, [store[d] EXCEPT !.known = @ \cup {m}])

\* correct: the version it corrects is neither forgotten nor corrected already when it
\* is read.
BeginCorrect(d, m) ==
    /\ New(m) /\ Corrects[m] \in store[d].known \ store[d].forgotten
    /\ ~\E n \in store[d].named : Corrects[n] = Corrects[m]
    /\ Reads(d, [at |-> "correct", versions |-> {m}])

\* Written whatever has become of the version: it names the new one.
FinishCorrect(d) ==
    /\ client[d].at = "correct"
    /\ \E m \in client[d].versions :
          Change(d, [store[d] EXCEPT !.known = @ \cup {m},
                                     !.named = {n \in @ : Corrects[n] # Corrects[m]} \cup {m}])

\* forget reads the lineage row by row; a merge that commits meanwhile adds versions after
\* the last, whose row is read before it or after it: they are seen all or none.  To forget
\* again what is forgotten is left out.
BeginForget(d, m) ==
    /\ m \in store[d].known /\ ~(Walk(m, store[d]) \subseteq store[d].forgotten)
    /\ Reads(d, [at |-> "forget", versions |-> Walk(m, store[d])])

FinishForget(d) ==
    /\ client[d].at = "forget"
    /\ Change(d, [store[d] EXCEPT !.forgotten = @ \cup client[d].versions])

\* The local program fails or dies before it writes.
GiveUp(d) ==
    /\ client[d] # AtRest
    /\ client' = [client EXCEPT ![d] = AtRest]
    /\ UNCHANGED <<server, store, saved, op, raced>>

-----------------------------------------------------------------------------
(* Enrolment.                                                              *)

\* start_device_enrollment
Request(d) ==
    /\ saved[d] = None /\ enrolment[d] = "none"
    /\ enrolment' = [enrolment EXCEPT ![d] = "waiting"]
    /\ UNCHANGED <<epoch, log, row, grant, rotations, local, saved, op>>

\* The request expires or is cancelled, approved or not.
EndEnrolment(d) ==
    /\ enrolment[d] # "none"
    /\ enrolment' = [enrolment EXCEPT ![d] = "none"]
    /\ UNCHANGED <<epoch, log, row, grant, rotations, local, saved, op>>

\* approve_enrollment: the registry an approver hands on is its own.
GrantFor(a, d) == [epoch    |-> saved[a].epoch, approver |-> a,
                   registry |-> Active(saved[a]) \cup {d}]

\* Mutant of Registers: a device that was registered once may come again.
RegistersAgain(a, d) ==
    /\ saved[a].epoch = epoch
    /\ row[a] = "active" /\ row[d] # "active"
    /\ GrantFor(a, d).registry = Registered \cup {d}

\* _add_device: the grant is of this epoch, its approver is active, the registry
\* in it is the server's own and the device is not registered yet.
Registers(a, d) ==
    /\ saved[a].epoch = epoch
    /\ row[a] = "active" /\ row[d] = "absent"
    /\ GrantFor(a, d).registry = Registered \cup {d}

\* approve_device_request: registered with the server, then trusted and saved
\* here, unless the reply is lost or the process dies in between.
Approve(a, d) ==
    /\ At(a, "idle") /\ saved[a] # None
    /\ enrolment[d] = "waiting" /\ Registers(a, d)
    /\ row' = [row EXCEPT ![d] = "active"]
    /\ grant' = [grant EXCEPT ![d] = GrantFor(a, d)]
    /\ enrolment' = [enrolment EXCEPT ![d] = "approved"]
    /\ \/ saved' = [saved EXCEPT ![a].trusted = @ \cup {d}]
       \/ UNCHANGED saved
    /\ UNCHANGED <<epoch, log, rotations, local, op>>

\* accept_enrollment saves the state the grant gives; what follows in
\* device_enrollment_status is a sync.  The request is of no more use.
Accept(d) ==
    /\ Begins(d) /\ saved[d] = None /\ enrolment[d] = "approved"
    /\ saved' = [saved EXCEPT ![d] = [epoch   |-> grant[d].epoch,
                                      trusted |-> grant[d].registry,
                                      revoked |-> {}, head |-> 0]]
    /\ enrolment' = [enrolment EXCEPT ![d] = "none"]
    /\ op' = [op EXCEPT ![d] = [Idle EXCEPT !.at = "again", !.publishes = TRUE]]
    /\ UNCHANGED <<epoch, log, row, grant, rotations, local>>

-----------------------------------------------------------------------------
(* _pull: rotations, then grants, then revisions, saved one by one.        *)

\* pull_now, sync_now and remove_device load the state and pull.
Start(d) ==
    /\ Begins(d) /\ saved[d] # None
    /\ op' = [op EXCEPT ![d] = [Idle EXCEPT !.at = "rotations", !.upto = epoch]]
    /\ UNCHANGED <<server, local, saved>>

\* The pull after an enrolment, or the one a refused push repeats.
PullAgain(d) ==
    /\ At(d, "again")
    /\ op' = [op EXCEPT ![d].at = "rotations", ![d].upto = epoch]
    /\ UNCHANGED <<server, local, saved>>

\* _validated_rotation: the devices it names are the ones known here.
Follows(state, r) ==
    /\ {r.revoked, r.initiator} \subseteq Active(state)
    /\ r.active = Active(state) \ {r.revoked}

\* Mutant of Rotated: the cursor of the old chain is kept.
RotatedAtHead(state, d) ==
    [state EXCEPT !.epoch = state.epoch + 1, !.revoked = state.revoked \cup {d}]

\* apply_key_rotation: the next key, without d, at the start of its chain.
Rotated(state, d) ==
    [state EXCEPT !.epoch = state.epoch + 1, !.head = 0,
                  !.revoked = state.revoked \cup {d}]

\* Rotations are applied one by one, by the devices that have a wrap of the next key.
ApplyRotation(d) ==
    LET r == rotations[saved[d].epoch] IN
    /\ At(d, "rotations") /\ saved[d].epoch < op[d].upto
    /\ IF Follows(saved[d], r) /\ d \in r.active
       THEN /\ saved' = [saved EXCEPT ![d] = Rotated(@, r.revoked)]
            /\ UNCHANGED op
       ELSE /\ Fail(d)
            /\ UNCHANGED saved
    /\ UNCHANGED <<server, local>>

\* device_grants lists those of active devices.
Granted == {grant[d] : d \in Registered} \ {None}

\* _apply_grants: a grant is applied once its approver is trusted, and all must
\* be; what is trusted in the end.
Reach(trusted) ==
    {x \in Device : \A T \in SUBSET Device :
        /\ trusted \subseteq T
        /\ \A g \in Granted : g.approver \in T => g.registry \subseteq T
        => x \in T}

ApplyGrants(d) ==
    LET trusted == Reach(saved[d].trusted) IN
    /\ At(d, "rotations") /\ saved[d].epoch = op[d].upto
    /\ IF \A g \in Granted : g.epoch <= saved[d].epoch /\ g.approver \in trusted
       THEN /\ saved' = [saved EXCEPT ![d].trusted = trusted]
            /\ op' = [op EXCEPT ![d].at = "grants", ![d].upto = 1]
       ELSE /\ Fail(d)
            /\ UNCHANGED saved
    /\ UNCHANGED <<server, local>>

\* revisions_after, of whatever epoch the server is at by now.
Fetch(d) ==
    /\ At(d, "grants")
    /\ op' = [op EXCEPT ![d].at = "merge",
                        ![d].page = SubSeq(log, saved[d].head + 1, Len(log))]
    /\ UNCHANGED <<server, local, saved>>

\* apply_revision: of this epoch, the next one, and from a trusted device.
Applies(state, r) ==
    /\ r.epoch = state.epoch /\ r.number = state.head + 1 /\ r.by \in state.trusted

\* merge_profile_payload reads all rows, and each incoming one again, without a
\* transaction.  One instant stands for these reads: a change that falls among them is
\* seen, or not, or breaks the lineage, which is refused.
ReadProfile(d) ==
    LET r == Head(op[d].page) IN
    /\ At(d, "merge") /\ op[d].page # <<>>
    /\ IF Applies(saved[d], r) /\ Mergeable(Merge(store[d], r.body))
       THEN op' = [op EXCEPT ![d].at = "write", ![d].seen = store[d]]
       ELSE Fail(d)
    /\ UNCHANGED <<server, local, saved>>

\* The rows a merge writes: those that were missing and those that it changes, be it in
\* what is not modelled (a pause, a time).
Written(seen, merged, body) ==
    LET missing == merged.known \ seen.known
        changed == {x \in seen.known : \/ x \in merged.forgotten \ seen.forgotten
                                       \/ \E n \in merged.named \ seen.named : Corrects[n] = x}
        others  == seen.known \cap (body.known \cup merged.forgotten)
    IN  {missing \cup changed \cup rows : rows \in SUBSET others}

\* INSERT and UPDATE of whole rows: tombstone, content and pointers as computed from
\* what was read, whatever has been committed since.
Overwrite(p, merged, rows) ==
    [known     |-> p.known \cup rows,
     forgotten |-> (p.forgotten \ rows) \cup (merged.forgotten \cap rows),
     named     |-> {n \in p.named : Corrects[n] \notin rows}
                     \cup {n \in merged.named : Corrects[n] \in rows}]

\* The store changed since the merge read it, or a local program has read it and is
\* about to write.
Overlapped(d) == store[d] # op[d].seen \/ client[d] # AtRest

MergeWrites(d) ==
    LET r      == Head(op[d].page)
        merged == Merge(op[d].seen, r.body)
    IN
    /\ \E rows \in Written(op[d].seen, merged, r.body) :
          store' = [store EXCEPT ![d] = Overwrite(@, merged, rows)]
    /\ raced' = IF Overlapped(d) THEN raced \cup {d} ELSE raced \ {d}
    /\ UNCHANGED client

CursorMoves(d) ==
    /\ saved' = [saved EXCEPT ![d].head = Head(op[d].page).number]
    /\ UNCHANGED <<epoch, log, row, grant, rotations, enrolment>>

NextRevision(d) == op' = [op EXCEPT ![d].at = "merge", ![d].page = Tail(@),
                                    ![d].seen = Nothing]

\* Mutant of MergeRevision: the head is saved before the merge.
SaveBeforeMerge(d) ==
    /\ At(d, "write")
    /\ CursorMoves(d)
    /\ \/ MergeWrites(d) /\ NextRevision(d)
       \/ Fail(d) /\ UNCHANGED local

\* The rows are written in one transaction; the cursor is saved after it, if the process
\* lives that long.
MergeRevision(d) ==
    /\ At(d, "write")
    /\ MergeWrites(d)
    /\ \/ CursorMoves(d) /\ NextRevision(d)
       \/ Fail(d) /\ UNCHANGED <<server, saved>>

Pulled(d) == At(d, "merge") /\ op[d].page = <<>>

\* pull_now is done.
PullDone(d) ==
    /\ Pulled(d) /\ ~op[d].publishes
    /\ Fail(d)
    /\ UNCHANGED <<server, local, saved>>

-----------------------------------------------------------------------------
(* Publishing.                                                             *)

\* prepare_revision: the profile as it is now, if its lineage is sound (_validate_payload;
\* otherwise an error ends the operation), on top of the saved head.
Prepare(d) ==
    /\ Pulled(d) /\ Mergeable(store[d])
    /\ op' = [op EXCEPT ![d].at = "push", ![d].publishes = TRUE,
                        ![d].draft = [epoch  |-> saved[d].epoch,
                                      number |-> saved[d].head + 1,
                                      by     |-> d, body |-> store[d]]]
    /\ UNCHANGED <<server, local, saved>>

\* Mutant of Extends: the server does not compare the revision with its head.
ExtendsAny(r) == Len(log) < MaxRevision

\* push_revision: the number, and with it the hash of the revision before, must be
\* the next of the chain.
Extends(r) == r.number = Len(log) + 1 /\ Len(log) < MaxRevision

\* Mutant of Writable: neither the status of the device nor the epoch is compared.
WritableByAll(d) == row[d] # "absent"

\* push_revision: the writer is active and sealed under the key of this epoch.
Writable(d) == row[d] = "active" /\ op[d].draft.epoch = epoch

\* Stored, and acknowledged and saved here unless the reply is lost.
Push(d) ==
    /\ At(d, "push") /\ Writable(d) /\ Extends(op[d].draft)
    /\ log' = Append(log, op[d].draft)
    /\ \/ saved' = [saved EXCEPT ![d].head = op[d].draft.number]
       \/ UNCHANGED saved
    /\ Fail(d)
    /\ UNCHANGED <<epoch, row, grant, rotations, enrolment, local>>

\* Refused because the head moved: pulled and tried once more.
PushStale(d) ==
    /\ At(d, "push") /\ Writable(d) /\ op[d].draft.number # Len(log) + 1
    /\ op' = [op EXCEPT ![d] = IF op[d].retried THEN Idle
                               ELSE [op[d] EXCEPT !.at = "again", !.retried = TRUE,
                                                  !.draft = None]]
    /\ UNCHANGED <<server, local, saved>>

\* An operation is over: refused, a lost message, an error, or its process died.
Abort(d) ==
    /\ ~At(d, "idle")
    /\ Fail(d)
    /\ UNCHANGED <<server, local, saved>>

-----------------------------------------------------------------------------
(* Removal.                                                                *)

\* Mutant of Rotates: the head the initiator has seen is not compared.
RotatesUnseen(d, t) ==
    /\ saved[d].epoch = epoch /\ epoch < MaxEpoch
    /\ {d, t} \subseteq Registered
    /\ Active(saved[d]) = Registered

\* _key_rotation: of this epoch, on top of the head, and of exactly the devices
\* that are active.
Rotates(d, t) ==
    /\ saved[d].epoch = epoch /\ epoch < MaxEpoch
    /\ saved[d].head = Len(log)
    /\ {d, t} \subseteq Registered
    /\ Active(saved[d]) = Registered

\* prepare_key_rotation wraps the next key for these.
Remaining(d, t) == Active(saved[d]) \ {t}

\* remove_device_and_rotate_key, and apply_key_rotation by the initiator, which
\* goes on to publish its profile under the new key; unless the reply is lost.
Remove(d, t) ==
    /\ Pulled(d) /\ ~op[d].publishes
    /\ t \in Active(saved[d]) \ {d} /\ Rotates(d, t)
    /\ epoch' = epoch + 1
    /\ log' = <<>>
    /\ row' = [row EXCEPT ![t] = "revoked"]
    /\ rotations' = Append(rotations, [revoked |-> t, initiator |-> d,
                                       active  |-> Remaining(d, t)])
    /\ \/ /\ saved' = [saved EXCEPT ![d] = Rotated(@, t)]
          /\ op' = [op EXCEPT ![d] = [Idle EXCEPT !.at = "merge", !.publishes = TRUE]]
       \/ Fail(d) /\ UNCHANGED saved
    /\ UNCHANGED <<grant, enrolment, local>>

Next ==
    \/ \E d \in Device, m \in Memory : Remember(d, m) \/ BeginCorrect(d, m) \/ BeginForget(d, m)
    \/ \E d \in Device : FinishCorrect(d) \/ FinishForget(d) \/ GiveUp(d)
    \/ \E d \in Device : Request(d) \/ EndEnrolment(d) \/ Accept(d)
    \/ \E a, d \in Device : Approve(a, d) \/ Remove(a, d)
    \/ \E d \in Device :
          \/ Start(d) \/ PullAgain(d) \/ ApplyRotation(d) \/ ApplyGrants(d) \/ Fetch(d)
          \/ ReadProfile(d) \/ MergeRevision(d) \/ PullDone(d)
    \/ \E d \in Device :
          Prepare(d) \/ Push(d) \/ PushStale(d) \/ Abort(d)

Spec == Init /\ [][Next]_vars

-----------------------------------------------------------------------------
(* Correctness.                                                            *)

\* A device that claims to be at a revision of this epoch holds all that the chain
\* up to there holds, whatever was lost on the way: the merge is committed before
\* the cursor is saved, and a push is acknowledged only for what was in it.
HeadCovered ==
    \A d \in Device :
        saved[d] # None /\ saved[d].epoch = epoch =>
            /\ saved[d].head <= Len(log)
            /\ \A i \in 1..saved[d].head : Within(log[i].body, store[d])

\* Nothing published in an epoch is lost from a later revision of it, not even by
\* two devices that publish at once: push_revision takes only what extends the head,
\* and whoever is at the head has merged it.
LogGrows ==
    \A i, j \in 1..Len(log) : i <= j => Within(log[i].body, log[j].body)

\* A removal deletes the revisions of the server only when a device that remains
\* holds them: the rotation names the head it was prepared on.
RemovalLosesNothing ==
    [][epoch' # epoch =>
          \E d \in Device : /\ row'[d] = "active"
                            /\ \A i \in 1..Len(log) : Within(log[i].body, store[d])]_vars

\* A device never holds a key of an epoch that began with its removal or came later.
RemovedStayBehind ==
    \A d \in Device, i \in 1..Len(rotations) :
        rotations[i].revoked = d /\ saved[d] # None => saved[d].epoch <= i

\* The chain holds nothing written by a device that is removed.
WritersActive == \A i \in 1..Len(log) : row[log[i].by] = "active"

\* A forgotten memory is forgotten in all its versions, also in a correction that another
\* device wrote offline, or a local program while the tombstone arrived, on every device
\* whose last merge did not overlap a local change: a lineage that such a race leaves half
\* forgotten, the next merge that is left alone mends.
ForgottenLineage ==
    \A d \in Device \ raced : \A m \in Corrections(store[d]) :
        m \in store[d].forgotten <=> Corrects[m] \in store[d].forgotten

\* No store is left with two corrections of one version, or with one that the version it
\* corrects does not name, on the same condition.
NoDivergence == \A d \in Device \ raced : Mergeable(store[d])

\* Three that sync breaks, races included.  A tombstone in a store is never undone: "a
\* permanent forget tombstone always wins" (docs/cloud-sync-protocol.md:101).
TombstonesKept == [][\A d \in Device : store[d].forgotten \subseteq store'[d].forgotten]_vars

\* A tombstone always covers its lineage (_propagate_forgotten_lineages, forget).
LineageAlways ==
    \A d \in Device : \A m \in Corrections(store[d]) :
        m \in store[d].forgotten <=> Corrects[m] \in store[d].forgotten

\* A store always has one correction of each version (_validate_combined_lineage, correct).
AlwaysMergeable == \A d \in Device : Mergeable(store[d])

\* A store that has lost the last can never be merged into, nor published, again:
\* _validate_combined_lineage refuses it from then on.
DivergenceStays == [][\A d \in Device : ~Mergeable(store[d]) => ~Mergeable(store'[d])]_vars

\* Whoever remains can follow: every rotation ahead of a device that it does not
\* remove is one the device will accept, once it comes back.
SurvivorsFollow ==
    \A d \in Device :
        saved[d] # None /\ row[d] = "active" /\ saved[d].epoch < epoch =>
            Follows(saved[d], rotations[saved[d].epoch])

-----------------------------------------------------------------------------
(* Refinement: seen from outside, the devices share one profile.           *)

\* What a revision or a store carries: that a version is known, that it is forgotten.
Facts(p)   == ({"known"} \X p.known) \cup ({"forgotten"} \X p.forgotten)
Tombstones == {"forgotten"} \X Memory

RemovedDevices == [i \in 1..Len(rotations) |-> rotations[i].revoked]
Chain          == [i \in 1..Len(log) |-> Facts(log[i].body)]
Holdings       == [d \in Device |-> Facts(store[d])]
Merging        == {d \in Device : At(d, "write")}
Looks          == [d \in Device |-> IF d \in Merging THEN Facts(op[d].seen) ELSE {}]
Places         == [d \in Device |-> IF saved[d] = None THEN [epoch |-> 0, head |-> 0]
                                    ELSE [epoch |-> saved[d].epoch, head |-> saved[d].head]]

Shared == INSTANCE SharedProfile WITH
    Fact <- {"known", "forgotten"} \X Memory, Fading <- Tombstones,
    removed <- RemovedDevices, chain <- Chain, holds <- Holdings, merging <- Merging,
    seen <- Looks, place <- Places

\* Lost replies, retries, races of publishers, crashes and abandoned enrolments do not
\* show: every step is one of SharedProfile, or none.
SharesProfile == Shared!Spec
=============================================================================
