--------------------------- MODULE CapabilitySync ---------------------------
(***************************************************************************)
(* Synchronisation of a Project's capabilities with the manifest of one of *)
(* its integrations, and the other handlers that write the same rows.  All *)
(* of them run in PostgreSQL at READ COMMITTED: a handler's statements     *)
(* each see what is committed when they start, and wait for row locks.     *)
(*                                                                         *)
(* A sync handler opens a transaction, reads the integration and the       *)
(* project, calls the remote while the transaction is open, and then, in   *)
(* that transaction, DELETEs the rows of the integration, INSERTs one row  *)
(* per capability and UPDATEs the integration's sync_status.  A failing    *)
(* call only writes sync_status = 'failed' and commits.                    *)
(*                                                                         *)
(* Row locks: a DELETE holds the capability rows it deleted; an INSERT     *)
(* holds FOR KEY SHARE on the integration it references; the UPDATE of     *)
(* sync_status holds FOR NO KEY UPDATE on it; deleting the integration     *)
(* holds FOR UPDATE on it and then cascades to its capability rows.        *)
(*                                                                         *)
(* The requests modelled are those row-level security lets write to the    *)
(* project.  A capability row is identified by the integration and run it  *)
(* came from and the manifest entry it was created for (a later rename     *)
(* keeps the row).  Operators named ...Broken are variants of the one that *)
(* follows them, used to check that the properties notice such a mistake.  *)
(***************************************************************************)
EXTENDS Naturals, FiniteSets

CONSTANTS
  Integrations,  \* integrations the project may ever have (uuids)
  Runs,          \* identities of sync transactions, each used once
  Names,         \* capability names a manifest may advertise
  Syncs,         \* concurrent sync requests
  Drops,         \* concurrent delete-integration requests
  Manual         \* integration and run of a capability created by hand

ASSUME ManualAssumption == Manual \notin Integrations /\ Manual \notin Runs

VARIABLES
  state,      \* [Integrations]: "absent", "gone" or sync_status, committed
  caps,       \* committed capability rows
  off,        \* those of them switched to status 'inactive'
  used,       \* runs that have begun
  replaces,   \* [Runs]: the runs whose rows were there when the run began
  manifest,   \* [Runs]: names the remote advertised to the run
  published,  \* runs committed with sync_status 'success'
  removed,    \* rows deleted one by one by a user
  pc,         \* [Syncs]: where the sync handler is
  target,     \* [Syncs]: the integration it synchronises
  run,        \* [Syncs]: its transaction
  snap,       \* [Syncs]: rows the DELETE saw when it started
  dels,       \* [Syncs]: rows it has deleted and still locks
  ins,        \* [Syncs]: rows it has inserted
  marked,     \* [Syncs]: has it updated (and locked) the integration row
  dpc,        \* [Drops]: where the delete-integration handler is
  dtarget     \* [Drops]: the integration it deletes

dbVars == <<state, caps, off, published, removed>>
runVars == <<used, replaces, manifest>>
syncVars == <<pc, target, run, snap, dels, ins, marked>>
dropVars == <<dpc, dtarget>>
vars == <<dbVars, runVars, syncVars, dropVars>>

-----------------------------------------------------------------------------
Row == [integ : Integrations \union {Manual}, run : Runs \union {Manual},
        name : Names]

SyncedRow(i, n, x) == [integ |-> i, run |-> n, name |-> x]
ManualRow(x) == [integ |-> Manual, run |-> Manual, name |-> x]

Live(i) == state[i] \notin {"absent", "gone"}

RowsOfIntegration(i) == { r \in caps : r.integ = i }

(* Locks, read off the handlers' positions.                                *)
RowLocked(r) == \E s \in Syncs : r \in dels[s]
KeyShared(i) == \E s \in Syncs : target[s] = i /\ ins[s] # {}
Updated(i) == \E s \in Syncs : target[s] = i /\ marked[s]
BeingDropped(i) == \E d \in Drops : dpc[d] = "cascading" /\ dtarget[d] = i

TypeOK ==
  /\ state \in [Integrations -> {"absent", "idle", "success", "failed", "gone"}]
  /\ caps \in SUBSET Row
  /\ off \in SUBSET Row
  /\ used \in SUBSET Runs
  /\ replaces \in [Runs -> SUBSET (Runs \union {Manual})]
  /\ manifest \in [Runs -> SUBSET Names]
  /\ published \in SUBSET Runs
  /\ removed \in SUBSET Row
  /\ pc \in [Syncs -> {"idle", "fetching", "deleting", "clearing",
                       "inserting", "committing", "failing", "closing"}]
  /\ target \in [Syncs -> Integrations \union {Manual}]
  /\ run \in [Syncs -> Runs \union {Manual}]
  /\ snap \in [Syncs -> SUBSET Row]
  /\ dels \in [Syncs -> SUBSET Row]
  /\ ins \in [Syncs -> SUBSET Row]
  /\ marked \in [Syncs -> BOOLEAN]
  /\ dpc \in [Drops -> {"idle", "locking", "cascading"}]
  /\ dtarget \in [Drops -> Integrations \union {Manual}]

Init ==
  /\ state = [i \in Integrations |-> "absent"]
  /\ caps = {}
  /\ off = {}
  /\ used = {}
  /\ replaces = [n \in Runs |-> {}]
  /\ manifest = [n \in Runs |-> {}]
  /\ published = {}
  /\ removed = {}
  /\ pc = [s \in Syncs |-> "idle"]
  /\ target = [s \in Syncs |-> Manual]
  /\ run = [s \in Syncs |-> Manual]
  /\ snap = [s \in Syncs |-> {}]
  /\ dels = [s \in Syncs |-> {}]
  /\ ins = [s \in Syncs |-> {}]
  /\ marked = [s \in Syncs |-> FALSE]
  /\ dpc = [d \in Drops |-> "idle"]
  /\ dtarget = [d \in Drops |-> Manual]

-----------------------------------------------------------------------------
(* The sync handler.                                                       *)

(* The transaction ends: its locks go and the handler has answered.        *)
EndTx(s) ==
  /\ pc' = [pc EXCEPT ![s] = "idle"]
  /\ target' = [target EXCEPT ![s] = Manual]
  /\ run' = [run EXCEPT ![s] = Manual]
  /\ snap' = [snap EXCEPT ![s] = {}]
  /\ dels' = [dels EXCEPT ![s] = {}]
  /\ ins' = [ins EXCEPT ![s] = {}]
  /\ marked' = [marked EXCEPT ![s] = FALSE]

(* BEGIN, then SELECT the integration (404 when it is not there, which     *)
(* changes nothing) and the project.                                       *)
BeginSync(s, i, n) ==
  /\ pc[s] = "idle"
  /\ Live(i)
  /\ n \notin used
  /\ used' = used \union {n}
  /\ replaces' =
       [replaces EXCEPT ![n] = { r.run : r \in RowsOfIntegration(i) }]
  /\ pc' = [pc EXCEPT ![s] = "fetching"]
  /\ target' = [target EXCEPT ![s] = i]
  /\ run' = [run EXCEPT ![s] = n]
  /\ UNCHANGED <<dbVars, manifest, snap, dels, ins, marked, dropVars>>

(* The remote answers with a manifest, which it need not do: this step is  *)
(* not fair.  Blank names are already dropped; an MCP server may advertise *)
(* no tool at all, and that is a success.                                  *)
FetchManifest(s, names) ==
  /\ pc[s] = "fetching"
  /\ manifest' = [manifest EXCEPT ![run[s]] = names]
  /\ pc' = [pc EXCEPT ![s] = "deleting"]
  /\ UNCHANGED <<dbVars, used, replaces, target, run, snap, dels, ins,
                 marked, dropVars>>

(* The remote answers with an error or an unusable document, or the        *)
(* client's 20 s timeout ends the wait for a remote that never answers.    *)
FetchFailsBroken(s) ==  \* calls the remote again, and again
  /\ pc[s] = "fetching"
  /\ UNCHANGED vars

FetchFails(s) ==
  /\ pc[s] = "fetching"
  /\ pc' = [pc EXCEPT ![s] = "failing"]
  /\ UNCHANGED <<dbVars, runVars, target, run, snap, dels, ins, marked,
                 dropVars>>

(* DELETE ... WHERE integration_id = $2: the rows it will visit.           *)
RowsToReplaceBroken(s) ==  \* with the query that deletes by project
  caps

RowsToReplaceStale(s) ==  \* replaces only names advertised again
  { r \in RowsOfIntegration(target[s]) : r.name \in manifest[run[s]] }

RowsToReplace(s) == RowsOfIntegration(target[s])

StartDelete(s) ==
  /\ pc[s] = "deleting"
  /\ snap' = [snap EXCEPT ![s] = RowsToReplace(s)]
  /\ pc' = [pc EXCEPT ![s] = "clearing"]
  /\ UNCHANGED <<dbVars, runVars, target, run, dels, ins, marked,
                 dropVars>>

(* The DELETE has waited for every visited row another transaction had     *)
(* locked, and takes those that are still there.  Rows committed since it  *)
(* started are not visited.                                                *)
FinishDelete(s) ==
  /\ pc[s] = "clearing"
  /\ \A r \in snap[s] : ~RowLocked(r)
  /\ dels' = [dels EXCEPT ![s] = snap[s] \intersect caps]
  /\ pc' = [pc EXCEPT ![s] = "inserting"]
  /\ UNCHANGED <<dbVars, runVars, target, run, snap, ins, marked,
                 dropVars>>

NamesLeft(s) == manifest[run[s]] \ { r.name : r \in ins[s] }

(* One INSERT.  The foreign key needs the integration to be there and not  *)
(* locked by a DELETE of it.                                               *)
InsertCapabilityBroken(s, x) ==  \* without the foreign key
  /\ pc[s] = "inserting"
  /\ x \in NamesLeft(s)
  /\ ins' = [ins EXCEPT ![s] = @ \union {SyncedRow(target[s], run[s], x)}]
  /\ UNCHANGED <<dbVars, runVars, pc, target, run, snap, dels,
                 marked, dropVars>>

InsertCapability(s, x) ==
  /\ pc[s] = "inserting"
  /\ x \in NamesLeft(s)
  /\ Live(target[s])
  /\ ~BeingDropped(target[s])
  /\ ins' = [ins EXCEPT ![s] = @ \union {SyncedRow(target[s], run[s], x)}]
  /\ UNCHANGED <<dbVars, runVars, pc, target, run, snap, dels,
                 marked, dropVars>>

(* UPDATE project_integrations SET sync_status, after the inserts or after *)
(* a failed call; it touches no row when the integration is gone.          *)
MarkSyncResultBroken(s) ==  \* a failed insert is skipped, not returned
  /\ ~BeingDropped(target[s])
  /\ ~Updated(target[s])
  /\ \/ /\ pc[s] = "inserting"
        /\ pc' = [pc EXCEPT ![s] = "committing"]
     \/ /\ pc[s] = "failing"
        /\ pc' = [pc EXCEPT ![s] = "closing"]
  /\ marked' = [marked EXCEPT ![s] = Live(target[s])]
  /\ UNCHANGED <<dbVars, runVars, target, run, snap, dels, ins,
                 dropVars>>

MarkSyncResult(s) ==
  /\ ~BeingDropped(target[s])
  /\ ~Updated(target[s])
  /\ \/ /\ pc[s] = "inserting"
        /\ NamesLeft(s) = {}
        /\ pc' = [pc EXCEPT ![s] = "committing"]
     \/ /\ pc[s] = "failing"
        /\ pc' = [pc EXCEPT ![s] = "closing"]
  /\ marked' = [marked EXCEPT ![s] = Live(target[s])]
  /\ UNCHANGED <<dbVars, runVars, target, run, snap, dels, ins,
                 dropVars>>

(* COMMIT after the inserts: everything the transaction did appears.       *)
CommitSync(s) ==
  /\ pc[s] = "committing"
  /\ caps' = (caps \ dels[s]) \union ins[s]
  /\ off' = off \ dels[s]
  /\ IF marked[s]
     THEN /\ state' = [state EXCEPT ![target[s]] = "success"]
          /\ published' = published \union {run[s]}
     ELSE UNCHANGED <<state, published>>
  /\ EndTx(s)
  /\ UNCHANGED <<removed, runVars, dropVars>>

(* COMMIT of a failure: only sync_status = 'failed' appears.               *)
CommitFailureBroken(s) ==  \* a status the column does not admit
  /\ pc[s] = "closing"
  /\ state' = IF marked[s] THEN [state EXCEPT ![target[s]] = "error"]
                           ELSE state
  /\ EndTx(s)
  /\ UNCHANGED <<caps, off, published, removed, runVars, dropVars>>

CommitFailure(s) ==
  /\ pc[s] = "closing"
  /\ state' = IF marked[s] THEN [state EXCEPT ![target[s]] = "failed"]
                           ELSE state
  /\ EndTx(s)
  /\ UNCHANGED <<caps, off, published, removed, runVars, dropVars>>

(* A statement fails or the client goes away: the deferred ROLLBACK.       *)
RollbackSync(s) ==
  /\ pc[s] # "idle"
  /\ EndTx(s)
  /\ UNCHANGED <<dbVars, runVars, dropVars>>

(* The INSERT finds its integration deleted: the foreign key rejects it    *)
(* and the handler rolls back.                                             *)
InsertRejected(s) ==
  /\ pc[s] = "inserting"
  /\ NamesLeft(s) # {}
  /\ ~Live(target[s])
  /\ RollbackSync(s)

-----------------------------------------------------------------------------
(* The delete-integration handler: one autocommitted DELETE, which locks   *)
(* the integration's row first and cascades to its capability rows.        *)

StartDrop(d, i) ==
  /\ dpc[d] = "idle"
  /\ Live(i)
  /\ dpc' = [dpc EXCEPT ![d] = "locking"]
  /\ dtarget' = [dtarget EXCEPT ![d] = i]
  /\ UNCHANGED <<dbVars, runVars, syncVars>>

EndDrop(d) ==
  /\ dpc' = [dpc EXCEPT ![d] = "idle"]
  /\ dtarget' = [dtarget EXCEPT ![d] = Manual]

(* The row lock is granted, or the row has gone meanwhile and the DELETE   *)
(* matches nothing: the handler answers 200 either way.                    *)
LockIntegration(d) ==
  /\ dpc[d] = "locking"
  /\ ~KeyShared(dtarget[d])
  /\ ~Updated(dtarget[d])
  /\ ~BeingDropped(dtarget[d])
  /\ IF Live(dtarget[d])
     THEN /\ dpc' = [dpc EXCEPT ![d] = "cascading"]
          /\ UNCHANGED dtarget
     ELSE EndDrop(d)
  /\ UNCHANGED <<dbVars, runVars, syncVars>>

(* The cascade has waited for every capability row a sync had locked.      *)
CascadeAndCommit(d) ==
  /\ dpc[d] = "cascading"
  /\ \A r \in RowsOfIntegration(dtarget[d]) : ~RowLocked(r)
  /\ caps' = caps \ RowsOfIntegration(dtarget[d])
  /\ off' = off \ RowsOfIntegration(dtarget[d])
  /\ state' = [state EXCEPT ![dtarget[d]] = "gone"]
  /\ EndDrop(d)
  /\ UNCHANGED <<published, removed, runVars, syncVars>>

RollbackDrop(d) ==
  /\ dpc[d] # "idle"
  /\ EndDrop(d)
  /\ UNCHANGED <<dbVars, runVars, syncVars>>

-----------------------------------------------------------------------------
(* A sync that has deleted rows and now needs the integration's row waits  *)
(* for the drop that locked it, which waits for those rows.  PostgreSQL's  *)
(* deadlock detector fails the statement of one of the two.                *)
Deadlocked(s, d) ==
  /\ dpc[d] = "cascading"
  /\ pc[s] = "inserting"
  /\ dtarget[d] = target[s]
  /\ dels[s] # {}

ResolveDeadlock(s, d) ==
  /\ Deadlocked(s, d)
  /\ RollbackSync(s) \/ RollbackDrop(d)

-----------------------------------------------------------------------------
(* Single autocommitted statements of the other handlers.                  *)

CreateIntegration(i) ==
  /\ state[i] = "absent"
  /\ state' = [state EXCEPT ![i] = "idle"]
  /\ UNCHANGED <<caps, off, published, removed, runVars, syncVars,
                 dropVars>>

CreateCapability(x) ==
  /\ caps' = caps \union {ManualRow(x)}
  /\ UNCHANGED <<state, off, published, removed, runVars, syncVars,
                 dropVars>>

(* Any capability of the project can be edited, synchronised ones too.     *)
UpdateCapability(r) ==
  /\ r \in caps
  /\ ~RowLocked(r)
  /\ off' \in {off \union {r}, off \ {r}}
  /\ UNCHANGED <<state, caps, published, removed, runVars,
                 syncVars, dropVars>>

DeleteCapability(r) ==
  /\ r \in caps
  /\ ~RowLocked(r)
  /\ caps' = caps \ {r}
  /\ off' = off \ {r}
  /\ removed' = removed \union {r}
  /\ UNCHANGED <<state, published, runVars, syncVars, dropVars>>

-----------------------------------------------------------------------------
SyncStep(s) ==
  \/ \E i \in Integrations, n \in Runs : BeginSync(s, i, n)
  \/ \E names \in SUBSET Names : FetchManifest(s, names)
  \/ FetchFails(s)
  \/ StartDelete(s)
  \/ FinishDelete(s)
  \/ \E x \in Names : InsertCapability(s, x)
  \/ MarkSyncResult(s)
  \/ CommitSync(s)
  \/ CommitFailure(s)
  \/ InsertRejected(s)
  \/ RollbackSync(s)

DropStep(d) ==
  \/ \E i \in Integrations : StartDrop(d, i)
  \/ LockIntegration(d)
  \/ CascadeAndCommit(d)
  \/ RollbackDrop(d)

OtherStep ==
  \/ \E i \in Integrations : CreateIntegration(i)
  \/ \E x \in Names : CreateCapability(x)
  \/ \E r \in caps : UpdateCapability(r) \/ DeleteCapability(r)

Next ==
  \/ \E s \in Syncs : SyncStep(s)
  \/ \E d \in Drops : DropStep(d)
  \/ \E s \in Syncs, d \in Drops : ResolveDeadlock(s, d)
  \/ OtherStep

Spec == Init /\ [][Next]_vars

(***************************************************************************)
(* Fairness.  A handler's goroutine keeps running; the client's timeout    *)
(* fires; PostgreSQL grants a lock to those who queue for it, so a request *)
(* whose lock is free again and again gets it (strong fairness), and its   *)
(* deadlock detector runs.  Nothing is assumed of the remote, the user or  *)
(* of disconnections.                                                      *)
(***************************************************************************)
Fairness ==
  /\ \A s \in Syncs :
       /\ WF_vars(FetchFails(s))
       /\ WF_vars(StartDelete(s))
       /\ SF_vars(FinishDelete(s))
       /\ SF_vars(\E x \in Names : InsertCapability(s, x))
       /\ SF_vars(MarkSyncResult(s))
       /\ WF_vars(CommitSync(s))
       /\ WF_vars(CommitFailure(s))
       /\ WF_vars(InsertRejected(s))
  /\ \A d \in Drops :
       /\ SF_vars(LockIntegration(d))
       /\ SF_vars(CascadeAndCommit(d))
  /\ \A s \in Syncs, d \in Drops : WF_vars(ResolveDeadlock(s, d))

FairSpec == Spec /\ Fairness

-----------------------------------------------------------------------------
(* Every manifest a reader sees is a whole one: the rows of a run are all  *)
(* the names its remote advertised, minus those a user deleted one by one. *)
WholeManifests ==
  \A n \in Runs :
    LET rows == { r \in caps : r.run = n }
    IN  rows # {} =>
          /\ n \in published
          /\ { r.name : r \in rows \union { q \in removed : q.run = n } }
               = manifest[n]

(* No capability row outlives the integration it came from, whatever the   *)
(* order in which a sync and a delete of the integration proceed.          *)
NoOrphans ==
  \A r \in caps : r.integ # Manual => Live(r.integ)

(* A sync refreshes: of the capabilities its integration had when it began *)
(* none is left once it has succeeded, whatever happened to them and to    *)
(* other syncs meanwhile.                                                  *)
Refreshed ==
  \A n \in published : \A r \in caps : r.run \notin replaces[n]

(* An integration has the capabilities of one manifest.                    *)
OneManifest ==
  \A i \in Integrations :
    Cardinality({ r.run : r \in RowsOfIntegration(i) }) <= 1

(* Readers see a capability list that only changes the way the catalogue   *)
(* promises: whole manifests of one integration, published once, at once.  *)
Catalog == INSTANCE CapabilityCatalog WITH rows <- caps

CatalogSpec == Catalog!Spec

(* Every request is answered: a sync and a delete of an integration that   *)
(* wait for each other, or a remote that hangs, do not hold it forever.    *)
EveryRequestAnswered ==
  /\ \A s \in Syncs : pc[s] # "idle" ~> pc[s] = "idle"
  /\ \A d \in Drops : dpc[d] # "idle" ~> dpc[d] = "idle"
=============================================================================
