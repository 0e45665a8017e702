------------------------ MODULE CapabilitySync_proofs ------------------------
(***************************************************************************)
(* Proofs, for any number of integrations, runs, names and concurrent      *)
(* requests, of the safety properties of CapabilitySync that do not need   *)
(* syncs to take turns; then of ProjectRecords, and of ProjectTools.       *)
(***************************************************************************)
EXTENDS ProjectRows, Integers, Sequences, WellFoundedInduction, TLAPS

-----------------------------------------------------------------------------
(* The inductive invariant.                                                *)

(* What a handler can have done, given where it is.                        *)
Phases ==
  \A s \in Syncs :
    /\ pc[s] # "idle" =>
         /\ target[s] \in Integrations
         /\ run[s] \in used
         /\ state[target[s]] # "absent"
    /\ pc[s] \notin {"clearing", "inserting", "committing"} => snap[s] = {}
    /\ pc[s] \notin {"inserting", "committing"} => dels[s] = {} /\ ins[s] = {}
    /\ pc[s] \notin {"committing", "closing"} => ~marked[s]

(* The rows a sync has inserted are those of its manifest, and as long as  *)
(* it holds a lock on its integration nobody deletes that integration.     *)
Inserts ==
  \A s \in Syncs :
    /\ \A r \in ins[s] :
         r.integ = target[s] /\ r.run = run[s] /\ r.name \in manifest[run[s]]
    /\ ins[s] # {} \/ marked[s] => Live(target[s]) /\ ~BeingDropped(target[s])
    /\ pc[s] = "committing" =>
         manifest[run[s]] = { r.name : r \in ins[s] }
    /\ pc[s] \in {"committing", "closing"} /\ ~marked[s] =>
         ins[s] = {} /\ state[target[s]] = "gone"

(* One drop at a time has an integration locked, and it still exists.      *)
Dropping ==
  /\ \A d \in Drops :
       /\ dpc[d] # "idle" => dtarget[d] \in Integrations
       /\ dpc[d] = "cascading" => Live(dtarget[d])
  /\ \A d, e \in Drops :
       dpc[d] = "cascading" /\ dpc[e] = "cascading" /\ dtarget[d] = dtarget[e]
         => d = e

(* A run is carried out by one handler, commits once, for one integration. *)
RunsOnce ==
  /\ published \subseteq used
  /\ \A s \in Syncs : pc[s] # "idle" => run[s] \notin published
  /\ \A s, t \in Syncs :
       s # t /\ pc[s] # "idle" /\ pc[t] # "idle" => run[s] # run[t]
  /\ \A r \in caps \union removed :
       IF r.integ = Manual THEN r.run = Manual ELSE r.run \in published
  /\ \A q, r \in caps : q.run = r.run => q.integ = r.integ

(* Whatever part of a committed manifest is in S, all of it is.            *)
Whole(S) == \A q, r \in caps : q.run = r.run /\ q \in S => r \in S

(* The rows a sync deletes are there, are its own, and come in manifests.  *)
Deletes ==
  \A s \in Syncs :
    /\ dels[s] \subseteq caps \intersect snap[s]
    /\ \A r \in snap[s] : r.integ = target[s] /\ r.run \in published
    /\ \A t \in Syncs : t # s => dels[s] \intersect dels[t] = {}
    /\ Whole(dels[s])
    /\ pc[s] = "clearing" => Whole(snap[s])

Inner ==
  /\ off \subseteq caps
  /\ Phases
  /\ Inserts
  /\ Dropping
  /\ NoOrphans
  /\ RunsOnce
  /\ Deletes
  /\ WholeManifests

Inv == TypeOK /\ Inner

-----------------------------------------------------------------------------
(* Types.                                                                  *)

USE DEF dbVars, runVars, syncVars, dropVars, vars

(* The empty database is well typed.                                        *)
LEMMA InitType == Init => TypeOK
  BY DEF Init, TypeOK

(* Ending a transaction, COMMIT or ROLLBACK, keeps the sync variables well  *)
(* typed.                                                                   *)
LEMMA EndTxType ==
  ASSUME TypeOK, NEW s \in Syncs, EndTx(s)
  PROVE  /\ pc' \in [Syncs -> {"idle", "fetching", "deleting", "clearing",
                               "inserting", "committing", "failing", "closing"}]
         /\ target' \in [Syncs -> Integrations \union {Manual}]
         /\ run' \in [Syncs -> Runs \union {Manual}]
         /\ snap' \in [Syncs -> SUBSET Row]
         /\ dels' \in [Syncs -> SUBSET Row]
         /\ ins' \in [Syncs -> SUBSET Row]
         /\ marked' \in [Syncs -> BOOLEAN]
  BY DEF EndTx, TypeOK

(* Every step of a handler or of the server keeps the types.                *)
LEMMA NextType == TypeOK /\ Phases /\ [Next]_vars => TypeOK'
<1> SUFFICES ASSUME TypeOK, Phases, [Next]_vars PROVE TypeOK'
  OBVIOUS
<1>1. ASSUME NEW s \in Syncs, SyncStep(s) PROVE TypeOK'
  <2>1. ASSUME NEW i \in Integrations, NEW n \in Runs, BeginSync(s, i, n)
        PROVE TypeOK'
    <3>1. { r.run : r \in RowsOfIntegration(i) } \subseteq Runs \union {Manual}
      BY DEF RowsOfIntegration, Row, TypeOK
    <3>2. QED
      BY <2>1, <3>1 DEF BeginSync, TypeOK
  <2>2. ASSUME NEW names \in SUBSET Names, FetchManifest(s, names)
        PROVE TypeOK'
    BY <2>2 DEF FetchManifest, TypeOK
  <2>3. CASE FetchFails(s)
    BY <2>3 DEF FetchFails, TypeOK
  <2>4. CASE StartDelete(s)
    BY <2>4 DEF StartDelete, RowsToReplace, RowsOfIntegration, TypeOK
  <2>5. CASE FinishDelete(s)
    BY <2>5 DEF FinishDelete, TypeOK
  <2>6. ASSUME NEW x \in Names, InsertCapability(s, x)
        PROVE TypeOK'
    <3>1. target[s] \in Integrations /\ run[s] \in Runs
      BY <2>6 DEF InsertCapability, TypeOK, Phases
    <3>2. SyncedRow(target[s], run[s], x) \in Row
      BY <3>1 DEF SyncedRow, Row
    <3>3. QED
      BY <2>6, <3>2 DEF InsertCapability, TypeOK
  <2>7. CASE MarkSyncResult(s)
    <3>1. Live(target[s]) \in BOOLEAN
      BY DEF Live
    <3>2. QED
      BY <2>7, <3>1 DEF MarkSyncResult, TypeOK
  <2>8. CASE CommitSync(s)
    <3>1. run[s] \in Runs /\ target[s] \in Integrations
      BY <2>8 DEF CommitSync, TypeOK, Phases
    <3>2. /\ state' \in [Integrations ->
                        {"absent", "idle", "success", "failed", "gone"}]
          /\ published' \in SUBSET Runs
      BY <2>8, <3>1 DEF CommitSync, TypeOK
    <3>3. QED
      BY <2>8, <3>2, EndTxType DEF CommitSync, TypeOK
  <2>9. CASE CommitFailure(s)
    BY <2>9, EndTxType DEF CommitFailure, TypeOK
  <2>10. CASE InsertRejected(s) \/ RollbackSync(s)
    BY <2>10, EndTxType DEF InsertRejected, RollbackSync, TypeOK
  <2>11. QED
    BY <1>1, <2>1, <2>2, <2>3, <2>4, <2>5, <2>6, <2>7, <2>8, <2>9, <2>10
       DEF SyncStep
<1>2. ASSUME NEW d \in Drops, DropStep(d) PROVE TypeOK'
  BY <1>2 DEF DropStep, StartDrop, LockIntegration, EndDrop,
              CascadeAndCommit, RollbackDrop, RowsOfIntegration, TypeOK
<1>3. ASSUME NEW s \in Syncs, NEW d \in Drops, ResolveDeadlock(s, d)
      PROVE TypeOK'
  BY <1>3, EndTxType
     DEF ResolveDeadlock, RollbackSync, RollbackDrop, EndDrop, TypeOK
<1>4. CASE OtherStep
  <2>1. \A x \in Names : ManualRow(x) \in Row
    BY DEF ManualRow, Row
  <2>2. QED
    BY <1>4, <2>1 DEF OtherStep, CreateIntegration, CreateCapability,
                      UpdateCapability, DeleteCapability, TypeOK
<1>5. CASE UNCHANGED vars
  BY <1>5 DEF TypeOK
<1>6. QED
  BY <1>1, <1>2, <1>3, <1>4, <1>5 DEF Next

-----------------------------------------------------------------------------
(* The inductive step, one action at a time.                               *)

(* The empty database satisfies the inductive invariant.                    *)
LEMMA InitInner == Init => Inner
  BY DEF Init, Inner, Phases, Inserts, Dropping, NoOrphans, RunsOnce, Deletes,
         WholeManifests, Whole

(* A statement of the sync handler preserves the inductive invariant.       *)
LEMMA SyncInner ==
  ASSUME Inv, TypeOK', NEW s \in Syncs, SyncStep(s)
  PROVE  Inner'
<1>1. ASSUME NEW i \in Integrations, NEW n \in Runs, BeginSync(s, i, n)
      PROVE  Inner'
  BY <1>1, ManualAssumption
     DEF BeginSync,
         Inv, Inner, TypeOK, Phases, Inserts, Dropping, NoOrphans, RunsOnce,
         Deletes, WholeManifests, Whole, Live, BeingDropped
<1>2. ASSUME NEW names \in SUBSET Names, FetchManifest(s, names)
      PROVE  Inner'
  BY <1>2, ManualAssumption
     DEF FetchManifest,
         Inv, Inner, TypeOK, Phases, Inserts, Dropping, NoOrphans, RunsOnce,
         Deletes, WholeManifests, Whole, Live, BeingDropped
<1>3. CASE FetchFails(s)
  BY <1>3, ManualAssumption
     DEF FetchFails,
         Inv, Inner, TypeOK, Phases, Inserts, Dropping, NoOrphans, RunsOnce,
         Deletes, WholeManifests, Whole, Live, BeingDropped
<1>4. CASE StartDelete(s)
  BY <1>4, ManualAssumption
     DEF StartDelete, RowsToReplace, RowsOfIntegration,
         Inv, Inner, TypeOK, Phases, Inserts, Dropping, NoOrphans, RunsOnce,
         Deletes, WholeManifests, Whole, Live, BeingDropped
<1>5. CASE FinishDelete(s)
  BY <1>5, ManualAssumption
     DEF FinishDelete, RowLocked,
         Inv, Inner, TypeOK, Phases, Inserts, Dropping, NoOrphans, RunsOnce,
         Deletes, WholeManifests, Whole, Live, BeingDropped
<1>6. ASSUME NEW x \in Names, InsertCapability(s, x)
      PROVE  Inner'
  BY <1>6, ManualAssumption
     DEF InsertCapability, SyncedRow, NamesLeft,
         Inv, Inner, TypeOK, Phases, Inserts, Dropping, NoOrphans, RunsOnce,
         Deletes, WholeManifests, Whole, Live, BeingDropped
<1>7. CASE MarkSyncResult(s)
  <2>1. pc[s] = "inserting" => manifest[run[s]] = { r.name : r \in ins[s] }
    <3>1. pc[s] = "inserting" => NamesLeft(s) = {}
      BY <1>7 DEF MarkSyncResult
    <3>2. { r.name : r \in ins[s] } \subseteq manifest[run[s]]
      BY DEF Inv, Inner, Inserts
    <3>3. QED
      BY <3>1, <3>2 DEF NamesLeft
  <2>2. Inserts'
    <3> SUFFICES ASSUME NEW t \in Syncs PROVE Inserts!(t)'
      BY DEF Inserts
    <3>1. CASE t = s
      <4>1. ~Live(target[s]) => ins[s] = {} /\ state[target[s]] = "gone"
        BY <1>7 DEF MarkSyncResult, Inv, Inner, Inserts, Phases, Live
      <4>2. marked'[s] <=> Live(target[s])
        BY <1>7 DEF MarkSyncResult, Inv, TypeOK
      <4>3. pc'[s] = "committing" => pc[s] = "inserting"
        BY <1>7 DEF MarkSyncResult, Inv, TypeOK
      <4>4. /\ ~BeingDropped(target[s])
            /\ UNCHANGED <<ins, target, run, manifest, state, dpc, dtarget>>
        BY <1>7 DEF MarkSyncResult
      <4>5. Live(target[s])' = Live(target[s])
            /\ BeingDropped(target[s])' = BeingDropped(target[s])
        BY <4>4 DEF Live, BeingDropped
      <4>6. QED
        BY <2>1, <3>1, <4>1, <4>2, <4>3, <4>4, <4>5 DEF Inv, Inner, Inserts
    <3>2. CASE t # s
      BY <1>7, <3>2
         DEF MarkSyncResult, Inv, Inner, TypeOK, Inserts, Live, BeingDropped
    <3>3. QED
      BY <3>1, <3>2
  <2>3. Phases' /\ Dropping' /\ NoOrphans' /\ RunsOnce'
    BY <1>7
       DEF MarkSyncResult, Inv, Inner, TypeOK, Phases, Dropping, NoOrphans,
           RunsOnce, Live
  <2>4. (off \subseteq caps)' /\ Deletes' /\ WholeManifests'
    BY <1>7
       DEF MarkSyncResult, Inv, Inner, TypeOK, Deletes, Whole, WholeManifests
  <2>5. QED
    BY <2>2, <2>3, <2>4 DEF Inner
<1>8. CASE CommitSync(s)
  <2>1. ins[s] # {} => marked[s]
    BY <1>8 DEF CommitSync, Inv, Inner, Inserts
  <2>2. (off \subseteq caps)'
    BY <1>8, <2>1, ManualAssumption
       DEF CommitSync, EndTx,
           Inv, Inner, TypeOK, Phases, Inserts, Dropping, NoOrphans, RunsOnce,
           Deletes, WholeManifests, Whole, Live, BeingDropped
  <2>3. Phases'
    BY <1>8, <2>1, ManualAssumption
       DEF CommitSync, EndTx,
           Inv, Inner, TypeOK, Phases, Inserts, Dropping, NoOrphans, RunsOnce,
           Deletes, WholeManifests, Whole, Live, BeingDropped
  <2>4. Inserts'
    BY <1>8, <2>1, ManualAssumption
       DEF CommitSync, EndTx,
           Inv, Inner, TypeOK, Phases, Inserts, Dropping, NoOrphans, RunsOnce,
           Deletes, WholeManifests, Whole, Live, BeingDropped
  <2>5. NoOrphans'
    <3>1. \A i \in Integrations : Live(i) => Live(i)'
      BY <1>8 DEF CommitSync, Inv, TypeOK, Live
    <3>2. \A r \in ins[s] : Live(r.integ)
      BY DEF Inv, Inner, Inserts
    <3>3. caps' \subseteq caps \union ins[s]
      BY <1>8 DEF CommitSync
    <3>4. \A r \in caps \union ins[s] : r.integ \in Integrations \union {Manual}
      BY DEF Inv, TypeOK, Row
    <3>5. QED
      BY <3>1, <3>2, <3>3, <3>4 DEF Inv, Inner, NoOrphans
  <2>6. RunsOnce'
    BY <1>8, <2>1, ManualAssumption
       DEF CommitSync, EndTx,
           Inv, Inner, TypeOK, Phases, Inserts, Dropping, NoOrphans, RunsOnce,
           Deletes, WholeManifests, Whole, Live, BeingDropped
  <2>7. Deletes'
    BY <1>8, <2>1, ManualAssumption
       DEF CommitSync, EndTx,
           Inv, Inner, TypeOK, Phases, Inserts, Dropping, NoOrphans, RunsOnce,
           Deletes, WholeManifests, Whole, Live, BeingDropped
  <2>8. WholeManifests'
    <3> SUFFICES ASSUME NEW n \in Runs PROVE WholeManifests!(n)'
      BY DEF WholeManifests
    <3>1. CASE n = run[s]
      <4>1. \A r \in caps \union removed : r.run # n
        BY <1>8, <3>1, ManualAssumption
           DEF CommitSync, Inv, Inner, RunsOnce
      <4>2. \A r \in ins[s] : r.run = n
        BY <3>1 DEF Inv, Inner, Inserts
      <4>3. ins[s] # {} => n \in published'
        BY <1>8, <2>1, <3>1 DEF CommitSync
      <4>4. { r.name : r \in ins[s] } = manifest'[n]
        BY <1>8, <3>1 DEF CommitSync, Inv, Inner, Inserts
      <4>5. { r \in caps' : r.run = n } = ins[s]
        BY <1>8, <4>1, <4>2 DEF CommitSync, Inv, Inner, Deletes
      <4>6. { q \in removed' : q.run = n } = {}
        BY <1>8, <4>1 DEF CommitSync
      <4>7. QED
        BY <4>3, <4>4, <4>5, <4>6
    <3>2. CASE n # run[s]
      <4>1. \A r \in ins[s] : r.run # n
        BY <3>2 DEF Inv, Inner, Inserts
      <4>2. { r \in caps' : r.run = n } \in {{}, { r \in caps : r.run = n }}
        BY <1>8, <4>1 DEF CommitSync, Inv, Inner, Deletes, Whole
      <4>3. published \subseteq published' /\ UNCHANGED <<removed, manifest>>
        BY <1>8 DEF CommitSync
      <4>4. QED
        BY <4>2, <4>3 DEF Inv, Inner, WholeManifests
    <3>3. QED
      BY <3>1, <3>2
  <2>9. Dropping'
    BY <1>8 DEF CommitSync, Inv, Inner, TypeOK, Dropping, Live
  <2>10. QED
    BY <2>2, <2>3, <2>4, <2>5, <2>6, <2>7, <2>8, <2>9 DEF Inner
<1>9. CASE CommitFailure(s)
  BY <1>9, ManualAssumption
     DEF CommitFailure, EndTx,
         Inv, Inner, TypeOK, Phases, Inserts, Dropping, NoOrphans, RunsOnce,
         Deletes, WholeManifests, Whole, Live, BeingDropped
<1>10. CASE InsertRejected(s) \/ RollbackSync(s)
  <2>1. RollbackSync(s)
    BY <1>10 DEF InsertRejected
  <2>2. QED
    BY <2>1, ManualAssumption
       DEF RollbackSync, EndTx,
           Inv, Inner, TypeOK, Phases, Inserts, Dropping, NoOrphans, RunsOnce,
           Deletes, WholeManifests, Whole, Live, BeingDropped
<1>11. QED
  BY <1>1, <1>2, <1>3, <1>4, <1>5, <1>6, <1>7, <1>8, <1>9, <1>10 DEF SyncStep

(* A statement of the handler that deletes an integration preserves the     *)
(* inductive invariant: the cascade leaves no row that a sync still counts  *)
(* on.                                                                      *)
LEMMA DropInner ==
  ASSUME Inv, TypeOK', NEW d \in Drops, DropStep(d)
  PROVE  Inner'
<1>1. ASSUME NEW i \in Integrations, StartDrop(d, i)
      PROVE  Inner'
  BY <1>1
     DEF StartDrop,
         Inv, Inner, TypeOK, Phases, Inserts, Dropping, NoOrphans, RunsOnce,
         Deletes, WholeManifests, Whole, Live, BeingDropped
<1>2. CASE LockIntegration(d)
  BY <1>2, ManualAssumption
     DEF LockIntegration, EndDrop, KeyShared, Updated,
         Inv, Inner, TypeOK, Phases, Inserts, Dropping, NoOrphans, RunsOnce,
         Deletes, WholeManifests, Whole, Live, BeingDropped
<1>3. CASE CascadeAndCommit(d)
  BY <1>3, ManualAssumption
     DEF CascadeAndCommit, EndDrop, RowsOfIntegration, RowLocked,
         Inv, Inner, TypeOK, Phases, Inserts, Dropping, NoOrphans, RunsOnce,
         Deletes, WholeManifests, Whole, Live, BeingDropped
<1>4. CASE RollbackDrop(d)
  BY <1>4
     DEF RollbackDrop, EndDrop,
         Inv, Inner, TypeOK, Phases, Inserts, Dropping, NoOrphans, RunsOnce,
         Deletes, WholeManifests, Whole, Live, BeingDropped
<1>5. QED
  BY <1>1, <1>2, <1>3, <1>4 DEF DropStep

(* Registering an integration and editing rows by hand preserve the         *)
(* inductive invariant.                                                     *)
LEMMA OtherInner ==
  ASSUME Inv, TypeOK', OtherStep
  PROVE  Inner'
<1>1. ASSUME NEW i \in Integrations, CreateIntegration(i)
      PROVE  Inner'
  BY <1>1, ManualAssumption
     DEF CreateIntegration,
         Inv, Inner, TypeOK, Phases, Inserts, Dropping, NoOrphans, RunsOnce,
         Deletes, WholeManifests, Whole, Live, BeingDropped
<1>2. ASSUME NEW x \in Names, CreateCapability(x)
      PROVE  Inner'
  BY <1>2, ManualAssumption
     DEF CreateCapability, ManualRow,
         Inv, Inner, TypeOK, Phases, Inserts, Dropping, NoOrphans, RunsOnce,
         Deletes, WholeManifests, Whole, Live, BeingDropped
<1>3. ASSUME NEW r \in caps, UpdateCapability(r)
      PROVE  Inner'
  BY <1>3, ManualAssumption
     DEF UpdateCapability,
         Inv, Inner, TypeOK, Phases, Inserts, Dropping, NoOrphans, RunsOnce,
         Deletes, WholeManifests, Whole, Live, BeingDropped
<1>4. ASSUME NEW r \in caps, DeleteCapability(r)
      PROVE  Inner'
  <2>1. (off \subseteq caps)' /\ Phases' /\ Inserts' /\ Dropping' /\ NoOrphans'
    BY <1>4
       DEF DeleteCapability, Inv, Inner, Phases, Inserts, Dropping, NoOrphans,
           Live, BeingDropped
  <2>2. RunsOnce'
    BY <1>4 DEF DeleteCapability, Inv, Inner, RunsOnce
  <2>3. Deletes'
    BY <1>4 DEF DeleteCapability, RowLocked, Inv, Inner, Deletes, Whole
  <2>4. WholeManifests'
    BY <1>4 DEF DeleteCapability, Inv, Inner, WholeManifests
  <2>5. QED
    BY <2>1, <2>2, <2>3, <2>4 DEF Inner
<1>5. QED
  BY <1>1, <1>2, <1>3, <1>4 DEF OtherStep

(* The inductive invariant holds in every reachable state, for any number   *)
(* of integrations, handlers and names.                                     *)
THEOREM Invariance == Spec => []Inv
<1>1. Init => Inv
  BY InitType, InitInner DEF Inv
<1>2. Inv /\ [Next]_vars => Inv'
  <2> SUFFICES ASSUME Inv, [Next]_vars PROVE Inv'
    OBVIOUS
  <2>1. TypeOK'
    BY NextType DEF Inv, Inner
  <2>2. ASSUME NEW s \in Syncs, NEW d \in Drops, ResolveDeadlock(s, d)
        PROVE  Inner'
    BY <2>1, <2>2, SyncInner, DropInner DEF ResolveDeadlock, SyncStep, DropStep
  <2>3. CASE UNCHANGED vars
    BY <2>1, <2>3 DEF Inv, Inner, TypeOK, Phases, Inserts, Dropping, NoOrphans, RunsOnce,
                Deletes, WholeManifests, Whole, Live, BeingDropped
  <2>4. QED
    BY <2>1, <2>2, <2>3, SyncInner, DropInner, OtherInner DEF Next, Inv
<1>3. QED
  BY <1>1, <1>2, PTL DEF Spec

(* Every variable keeps its type, whatever the handlers' interleaving.     *)
THEOREM TypeCorrect == Spec => []TypeOK
  BY Invariance, PTL DEF Inv

(* A sync racing the deletion of its integration, in whatever order their  *)
(* statements and locks fall, leaves no row of a deleted integration.      *)
THEOREM NoOrphansHolds == Spec => []NoOrphans
  BY Invariance, PTL DEF Inv, Inner

(* However syncs, deletions and edits interleave, and wherever one fails,  *)
(* no reader sees a part of a manifest.                                    *)
THEOREM WholeManifestsHolds == Spec => []WholeManifests
  BY Invariance, PTL DEF Inv, Inner

-----------------------------------------------------------------------------
(* A sync refreshes.                                                       *)

(* The rows that were there when a run began are of the runs committed by  *)
(* then; while the run's handler is at work they are rows of its target,   *)
(* and once it has started its DELETE they are among those it deletes.     *)
Refreshing ==
  /\ \A n \in Runs : replaces[n] \subseteq published
  /\ \A s \in Syncs : \A r \in caps :
       pc[s] # "idle" /\ r.run \in replaces[run[s]] =>
         /\ r.integ = target[s]
         /\ pc[s] = "clearing" => r \in snap[s]
         /\ pc[s] \in {"inserting", "committing"} => r \in dels[s]
  /\ Refreshed

(* A statement of the sync handler keeps the rows to be replaced in sight.  *)
LEMMA SyncRefreshing ==
  ASSUME Inv, Refreshing, NEW s \in Syncs, SyncStep(s)
  PROVE  Refreshing'
<1>1. ASSUME NEW i \in Integrations, NEW n \in Runs, BeginSync(s, i, n)
      PROVE  Refreshing'
  <2>1. n \notin published /\ \A t \in Syncs : pc[t] # "idle" => run[t] # n
    BY <1>1 DEF BeginSync, Inv, Inner, Phases, RunsOnce
  <2>2. { r.run : r \in RowsOfIntegration(i) } \subseteq published
    BY <1>1, ManualAssumption DEF RowsOfIntegration, Inv, Inner, RunsOnce
  <2>3. \A r \in caps : r.run \in { q.run : q \in RowsOfIntegration(i) } =>
                         r.integ = i
    BY DEF RowsOfIntegration, Inv, Inner, RunsOnce
  <2>4. \A m \in Runs \ {n} : replaces'[m] = replaces[m]
    BY <1>1 DEF BeginSync, Inv, TypeOK
  <2>5. replaces'[n] = { r.run : r \in RowsOfIntegration(i) }
    BY <1>1 DEF BeginSync, Inv, TypeOK
  <2>6. /\ UNCHANGED <<caps, published, snap, dels>>
        /\ pc'[s] = "fetching" /\ target'[s] = i /\ run'[s] = n
        /\ \A t \in Syncs \ {s} : /\ pc'[t] = pc[t]
                                   /\ target'[t] = target[t]
                                   /\ run'[t] = run[t]
    BY <1>1 DEF BeginSync, Inv, TypeOK
  <2>7. \A t \in Syncs : pc[t] # "idle" => run[t] \in Runs
    BY DEF Inv, TypeOK, Inner, Phases
  <2>8. \A m \in Runs : replaces'[m] \subseteq published'
    BY <2>2, <2>4, <2>5, <2>6 DEF Refreshing
  <2>9. Refreshed'
    BY <2>1, <2>4, <2>6 DEF Refreshing, Refreshed, Inv, TypeOK
  <2>10. ASSUME NEW t \in Syncs, NEW r \in caps',
                (pc[t] # "idle" /\ r.run \in replaces[run[t]])'
         PROVE  /\ r.integ = target'[t]
                /\ pc'[t] = "clearing" => r \in snap'[t]
                /\ pc'[t] \in {"inserting", "committing"} => r \in dels'[t]
    <3>1. CASE t = s
      BY <2>3, <2>5, <2>6, <2>10, <3>1
    <3>2. CASE t # s
      BY <2>1, <2>4, <2>6, <2>7, <2>10, <3>2 DEF Refreshing
    <3>3. QED
      BY <3>1, <3>2
  <2>11. QED
    BY <2>8, <2>9, <2>10 DEF Refreshing
<1>2. ASSUME NEW names \in SUBSET Names, FetchManifest(s, names)
      PROVE  Refreshing'
  BY <1>2 DEF FetchManifest, Inv, TypeOK, Refreshing, Refreshed
<1>3. CASE FetchFails(s)
  BY <1>3 DEF FetchFails, Inv, TypeOK, Refreshing, Refreshed
<1>4. CASE StartDelete(s)
  BY <1>4 DEF StartDelete, RowsToReplace, RowsOfIntegration, Inv, TypeOK,
              Refreshing, Refreshed
<1>5. CASE FinishDelete(s)
  BY <1>5 DEF FinishDelete, Inv, TypeOK, Refreshing, Refreshed
<1>6. ASSUME NEW x \in Names, InsertCapability(s, x)
      PROVE  Refreshing'
  BY <1>6 DEF InsertCapability, Refreshing, Refreshed
<1>7. CASE MarkSyncResult(s)
  BY <1>7 DEF MarkSyncResult, Inv, TypeOK, Refreshing, Refreshed
<1>8. CASE CommitSync(s)
  <2>1. /\ run[s] \in Runs \ published
        /\ \A r \in ins[s] : r.run = run[s]
    BY <1>8 DEF CommitSync, Inv, Inner, TypeOK, Phases, Inserts, RunsOnce
  <2>2. \A n \in Runs : \A r \in caps' :
          r.run \in replaces[n] => r \in caps \ dels[s]
    BY <1>8, <2>1 DEF CommitSync, Refreshing
  <2>3. \A r \in caps' : r.run \notin replaces[run[s]]
    BY <1>8, <2>1, <2>2 DEF CommitSync, Refreshing
  <2>4. /\ published \subseteq published'
        /\ published' \subseteq published \union {run[s]}
    BY <1>8 DEF CommitSync
  <2>5. Refreshed'
    BY <1>8, <2>2, <2>3, <2>4
       DEF CommitSync, Refreshing, Refreshed, Inv, TypeOK
  <2>6. \A t \in Syncs, r \in caps' :
          (pc[t] # "idle" /\ r.run \in replaces[run[t]])' =>
            /\ r.integ = target'[t]
            /\ pc'[t] = "clearing" => r \in snap'[t]
            /\ pc'[t] \in {"inserting", "committing"} => r \in dels'[t]
    BY <1>8, <2>2 DEF CommitSync, EndTx, Refreshing, Inv, Inner, TypeOK, Phases
  <2>7. QED
    BY <1>8, <2>4, <2>5, <2>6 DEF CommitSync, Refreshing
<1>9. CASE CommitFailure(s)
  BY <1>9 DEF CommitFailure, EndTx, Inv, TypeOK, Refreshing, Refreshed
<1>10. CASE InsertRejected(s) \/ RollbackSync(s)
  BY <1>10 DEF InsertRejected, RollbackSync, EndTx, Inv, TypeOK, Refreshing,
               Refreshed
<1>11. QED
  BY <1>1, <1>2, <1>3, <1>4, <1>5, <1>6, <1>7, <1>8, <1>9, <1>10 DEF SyncStep

(* A deletion of an integration only takes rows away.                       *)
LEMMA DropRefreshing ==
  ASSUME Inv, Refreshing, NEW d \in Drops, DropStep(d)
  PROVE  Refreshing'
  BY DEF DropStep, StartDrop, LockIntegration, CascadeAndCommit, RollbackDrop,
         EndDrop, Refreshing, Refreshed

(* Neither edits by hand nor new integrations put a replaced row back.      *)
LEMMA OtherRefreshing ==
  ASSUME Inv, Refreshing, OtherStep
  PROVE  Refreshing'
<1>1. \A x \in Names, n \in Runs : ManualRow(x).run \notin replaces[n]
  BY ManualAssumption DEF ManualRow, Refreshing, Inv, TypeOK
<1>2. \A s \in Syncs : pc[s] # "idle" => run[s] \in Runs
  BY DEF Inv, Inner, TypeOK, Phases
<1>3. QED
  BY <1>1, <1>2
     DEF OtherStep, CreateIntegration, CreateCapability, UpdateCapability,
         DeleteCapability, Refreshing, Refreshed, Inv, TypeOK

(* A sync that succeeded has replaced every capability its integration had *)
(* when it began, whatever other syncs, deletions and edits did meanwhile. *)
THEOREM RefreshedHolds == Spec => []Refreshed
<1>1. Init => Refreshing
  BY DEF Init, Refreshing, Refreshed
<1>2. Inv /\ Refreshing /\ [Next]_vars => Refreshing'
  <2> SUFFICES ASSUME Inv, Refreshing, [Next]_vars PROVE Refreshing'
    OBVIOUS
  <2>1. ASSUME NEW s \in Syncs, NEW d \in Drops, ResolveDeadlock(s, d)
        PROVE  Refreshing'
    BY <2>1, SyncRefreshing, DropRefreshing
       DEF ResolveDeadlock, SyncStep, DropStep
  <2>2. CASE UNCHANGED vars
    BY <2>2 DEF Refreshing, Refreshed
  <2>3. QED
    BY <2>1, <2>2, SyncRefreshing, DropRefreshing, OtherRefreshing DEF Next
<1>3. QED
  BY <1>1, <1>2, Invariance, PTL DEF Spec, Refreshing

-----------------------------------------------------------------------------
(* The handlers implement the catalogue.                                   *)

(* The COMMIT of a sync is the catalogue's Publish.                         *)
LEMMA CommitPublishes ==
  ASSUME Inv, NEW s \in Syncs, CommitSync(s)
  PROVE  [Catalog!Next]_(Catalog!vars)
<1>1. /\ run[s] \in Runs \ published
      /\ target[s] \in Integrations
  BY DEF CommitSync, Inv, Inner, TypeOK, Phases, RunsOnce
<1>2. CASE ~marked[s]
  <2>1. ins[s] = {} /\ ~Live(target[s])
    BY <1>2 DEF CommitSync, Inv, Inner, Inserts, Live
  <2>2. dels[s] = {}
    BY <1>1, <2>1, ManualAssumption DEF Inv, Inner, Deletes, NoOrphans
  <2>3. QED
    BY <1>2, <2>1, <2>2 DEF CommitSync, Catalog!vars
<1>3. CASE marked[s]
  <2> DEFINE names == manifest[run[s]]
             old == { r.run : r \in dels[s] }
  <2>1. names \in SUBSET Names /\ old \in SUBSET published
    BY <1>1 DEF Inv, Inner, TypeOK, Deletes
  <2>2. ins[s] = { [integ |-> target[s], run |-> run[s], name |-> x] :
                   x \in names }
    BY DEF CommitSync, Inv, Inner, TypeOK, Row, Inserts
  <2>3. dels[s] = UNION { Catalog!RowsOf(target[s], m) : m \in old }
    BY <1>1, ManualAssumption
       DEF Inv, Inner, Deletes, Whole, RunsOnce, Catalog!RowsOf
  <2>4. off' = off \intersect caps'
    BY <1>1, <1>3, ManualAssumption
       DEF CommitSync, Inv, Inner, Inserts, RunsOnce
  <2>5. target[s] \in Catalog!Live
    BY <1>1, <1>3 DEF Inv, Inner, Inserts, Live, Catalog!Live
  <2>6. Catalog!Publish(target[s], run[s], names, old)
    BY <1>1, <1>3, <2>2, <2>3, <2>4, <2>5 DEF CommitSync, Catalog!Publish
  <2>7. QED
    BY <1>1, <2>1, <2>6 DEF Catalog!Next
<1>4. QED
  BY <1>2, <1>3

(* Every step of the handlers is a step of the catalogue or leaves its      *)
(* variables alone.                                                         *)
LEMMA StepRefines ==
  ASSUME Inv, [Next]_vars
  PROVE  [Catalog!Next]_(Catalog!vars)
<1>1. ASSUME NEW s \in Syncs, SyncStep(s)
      PROVE  [Catalog!Next]_(Catalog!vars)
  <2>1. CASE CommitSync(s)
    BY <2>1, CommitPublishes
  <2>2. CASE CommitFailure(s)
    <3>1. CASE ~marked[s]
      BY <2>2, <3>1 DEF CommitFailure, Catalog!vars
    <3>2. CASE marked[s]
      BY <2>2, <3>2
         DEF CommitFailure, Inv, Inner, Phases, Inserts, Live, Catalog!Live,
             Catalog!RecordFailure, Catalog!Next
    <3>3. QED
      BY <3>1, <3>2 DEF Inv, TypeOK
  <2>3. QED
    BY <1>1, <2>1, <2>2
       DEF SyncStep, BeginSync, FetchManifest, FetchFails, StartDelete,
           FinishDelete, InsertCapability, MarkSyncResult, InsertRejected,
           RollbackSync, Catalog!vars
<1>2. ASSUME NEW d \in Drops, DropStep(d)
      PROVE  [Catalog!Next]_(Catalog!vars)
  <2>1. CASE CascadeAndCommit(d)
    <3>1. Catalog!DropIntegration(dtarget[d])
      BY <2>1
         DEF CascadeAndCommit, RowsOfIntegration, Inv, Inner, Dropping, Live,
             Catalog!DropIntegration, Catalog!Live
    <3>2. QED
      BY <2>1, <3>1
         DEF CascadeAndCommit, Inv, Inner, Dropping, Catalog!Next
  <2>2. QED
    BY <1>2, <2>1 DEF DropStep, StartDrop, LockIntegration, RollbackDrop,
                      Catalog!vars
<1>3. ASSUME NEW s \in Syncs, NEW d \in Drops, ResolveDeadlock(s, d)
      PROVE  [Catalog!Next]_(Catalog!vars)
  BY <1>3 DEF ResolveDeadlock, RollbackSync, RollbackDrop, Catalog!vars
<1>4. CASE OtherStep
  BY <1>4
     DEF OtherStep, CreateIntegration, CreateCapability,
         UpdateCapability, DeleteCapability, ManualRow, Inv, Inner,
         Catalog!Next, Catalog!CreateIntegration, Catalog!AddManual,
         Catalog!RemoveRow, Catalog!Switch, Catalog!vars
<1>5. CASE UNCHANGED vars
  BY <1>5 DEF Catalog!vars
<1>6. QED
  BY <1>1, <1>2, <1>3, <1>4, <1>5 DEF Next

(* What readers see changes only as the catalogue promises: each committed *)
(* sync is one Publish, each deletion one DropIntegration, and every other *)
(* step of a handler is invisible.                                         *)
THEOREM Refinement == Spec => CatalogSpec
<1>1. Init => Catalog!Init
  BY DEF Init, Catalog!Init
<1>2. QED
  BY <1>1, StepRefines, Invariance, PTL DEF Spec, CatalogSpec, Catalog!Spec

-----------------------------------------------------------------------------
(* Who waits for whom.  The next statement of a handler waits for a row    *)
(* that the transaction of another one holds.                              *)
SyncWaits(s) ==
  \/ pc[s] = "clearing" /\ \E r \in snap[s] : RowLocked(r)
  \/ pc[s] \in {"inserting", "failing"} /\ BeingDropped(target[s])
  \/ pc[s] = "inserting" /\ NamesLeft(s) = {} /\ Updated(target[s])
  \/ pc[s] = "failing" /\ Updated(target[s])

DropWaits(d) ==
  \/ /\ dpc[d] = "locking"
     /\ KeyShared(dtarget[d]) \/ Updated(dtarget[d]) \/ BeingDropped(dtarget[d])
  \/ dpc[d] = "cascading" /\ \E r \in RowsOfIntegration(dtarget[d]) : RowLocked(r)

Standing ==
  /\ \A s \in Syncs : pc[s] # "idle" => SyncWaits(s)
  /\ \A d \in Drops : dpc[d] # "idle" => DropWaits(d)

SomebodyProceeds ==
  (\E s \in Syncs : pc[s] # "idle") \/ (\E d \in Drops : dpc[d] # "idle") =>
    \/ \E s \in Syncs : pc[s] # "idle" /\ ~SyncWaits(s)
    \/ \E d \in Drops : dpc[d] # "idle" /\ ~DropWaits(d)
    \/ \E s \in Syncs, d \in Drops : Deadlocked(s, d)

(* If all wait, nobody is about to commit, so that the rows deleted are    *)
(* those of syncs that have yet to insert, and no integration is updated.  *)
LEMMA AllWait ==
  ASSUME Inv, Standing
  PROVE  /\ \A s \in Syncs : ~marked[s]
         /\ \A s \in Syncs : dels[s] # {} \/ ins[s] # {} => pc[s] = "inserting"
<1>1. \A s \in Syncs : pc[s] \notin {"committing", "closing"}
  BY DEF Standing, SyncWaits
<1> QED
  BY <1>1 DEF Inv, Inner, Phases

(* A deletion that waits for a row of its integration waits for a sync that *)
(* waits for the integration.                                              *)
LEMMA CircleOfTwo ==
  ASSUME Inv, Standing, NEW d \in Drops, dpc[d] = "cascading"
  PROVE  \E s \in Syncs : Deadlocked(s, d)
<1>1. PICK r \in RowsOfIntegration(dtarget[d]) : RowLocked(r)
  BY DEF Standing, DropWaits
<1>2. PICK s \in Syncs : r \in dels[s]
  BY <1>1 DEF RowLocked
<1>3. r.integ = dtarget[d] /\ r.integ = target[s]
  BY <1>1, <1>2 DEF RowsOfIntegration, Inv, Inner, Deletes
<1>4. pc[s] = "inserting" /\ dels[s] # {}
  BY <1>2, AllWait
<1> QED
  BY <1>3, <1>4 DEF Deadlocked

LEMMA NobodyStands ==
  ASSUME Inv, Standing,
         \A s \in Syncs, d \in Drops : ~Deadlocked(s, d)
  PROVE  /\ \A s \in Syncs : pc[s] = "idle"
         /\ \A d \in Drops : dpc[d] = "idle"
<1>1. \A i : ~BeingDropped(i)
  BY CircleOfTwo DEF BeingDropped
<1>2. \A i : ~Updated(i)
  BY AllWait DEF Updated
<1>3. \A s \in Syncs : pc[s] \notin {"inserting", "failing"}
  BY <1>1, <1>2 DEF Standing, SyncWaits
<1>4. (\A r : ~RowLocked(r)) /\ (\A i : ~KeyShared(i))
  BY <1>3, AllWait DEF RowLocked, KeyShared
<1>5. (\A s \in Syncs : ~SyncWaits(s)) /\ (\A d \in Drops : ~DropWaits(d))
  BY <1>1, <1>2, <1>3, <1>4 DEF SyncWaits, DropWaits
<1> QED
  BY <1>5 DEF Standing

(* Handlers wait for each other in one way only, a sync that has deleted   *)
(* rows and a deletion of its integration: unless there is such a pair,    *)
(* which PostgreSQL resolves, some handler that is at work can go on.      *)
THEOREM SomebodyGoesOn == Spec => []SomebodyProceeds
<1>1. Inv => SomebodyProceeds
  BY NobodyStands DEF SomebodyProceeds, Standing
<1> QED
  BY <1>1, Invariance, PTL
-----------------------------------------------------------------------------
(* Projects with their integrations and capabilities                       *)

HIDE DEF dbVars, runVars, syncVars, dropVars, vars

(* What is in an answer was read, and only while a request reads is there  *)
(* an answer.                                                              *)
Answers ==
  \A q \in Requests :
    /\ \A e \in listed[q] : project[e.id].status # "unused"
    /\ \A d \in hydrated[q] : detail[d].status # "unused"
    /\ reader[q].step \in {"idle", "serving"} =>
         listed[q] = {} /\ hydrated[q] = {}
    /\ \A p \in reader[q].todo : \E e \in listed[q] : e.id = p
    /\ reader[q].step = "capabilities" =>
         \E e \in listed[q] : e.id = reader[q].at

Dates ==
  \A p \in Projects :
    /\ project[p].status = "online" => project[p].published > 0
    /\ project[p].status = "unused" => project[p].published = 0

(* A detail is of a project once it is used.                               *)
Used ==
  \A d \in P!Details :
    IF detail[d].status = "unused" THEN detail[d].project = None
                                   ELSE detail[d].project \in Projects

RInv == P!TypeOK /\ P!ListsShowOwn /\ Answers /\ Dates /\ Used

(* What a step may never do to rows that are used or were.                 *)
RowsStay ==
  /\ \A p \in Projects : project[p].status # "unused" =>
       /\ project'[p].status # "unused"
       /\ project'[p].tenant = project[p].tenant
  /\ \A d \in P!Details : detail[d].status # "unused" =>
       /\ detail'[d].status # "unused"
       /\ detail'[d].project = detail[d].project

LEMMA RecordsInit == ASSUME P!RecordAssumption, P!Init PROVE RInv
<1>1. P!TypeOK
  <2>1. P!Gone \in P!Reader /\ P!Gone.step = "idle"
    BY DEF P!Gone, P!Reader
  <2>2. project \in [Projects -> P!ProjectRecord]
    BY DEF P!Init, P!RecordAssumption, P!ProjectRecord
  <2>3. detail \in [P!Details -> P!DetailRecord]
    BY DEF P!Init, P!DetailRecord
  <2> QED
    BY <2>1, <2>2, <2>3 DEF P!Init, P!TypeOK, P!Exists, P!ThereIs,
                            P!ProjectStatus
<1>2. P!ListsShowOwn /\ Answers
  BY DEF P!Init, P!ListsShowOwn, Answers, P!Gone
<1>3. Dates /\ Used
  BY DEF P!Init, Dates, Used
<1> QED
  BY <1>1, <1>2, <1>3 DEF RInv

LEMMA OthersKeepAnswers ==
  ASSUME RInv, RowsStay, NEW q \in Requests,
         reader'[q] = reader[q], listed'[q] = listed[q],
         hydrated'[q] = hydrated[q]
  PROVE  /\ \A e \in listed'[q] : /\ e.id \in Projects
                                  /\ project'[e.id].status # "unused"
                                  /\ project'[e.id].tenant =
                                       project[e.id].tenant
         /\ \A d \in hydrated'[q] : /\ d \in P!Details
                                    /\ detail'[d].status # "unused"
                                    /\ detail'[d].project = detail[d].project
<1>1. \A e \in listed[q] :
        e.id \in Projects /\ project[e.id].status # "unused"
  BY DEF RInv, P!TypeOK, Answers
<1>2. \A d \in hydrated[q] : d \in P!Details /\ detail[d].status # "unused"
  BY DEF RInv, P!TypeOK, Answers
<1> QED
  BY <1>1, <1>2 DEF RowsStay

(* A request that has answered leaves no answer behind, and no other's     *)
(* answer is touched.                                                      *)
LEMMA AnswerKeeps ==
  ASSUME RInv, RowsStay, NEW q \in Requests, P!Answer(q)
  PROVE  /\ P!ListsShowOwn' /\ Answers'
         /\ reader' \in [Requests -> P!Reader]
         /\ listed' \in [Requests -> SUBSET [id : Projects,
                                            status : P!ProjectStatus]]
         /\ hydrated' \in [Requests -> SUBSET P!Details]
         /\ \A r \in Requests :
              reader'[r].step # "idle" =>
                reader'[r].super \/ reader'[r].tenant # None
         /\ reader'[q].step = "idle"
<1>1. /\ P!Gone \in P!Reader /\ P!Gone.step = "idle" /\ P!Gone.todo = {}
  BY DEF P!Gone, P!Reader
<1>2. /\ reader' = [reader EXCEPT ![q] = P!Gone]
      /\ listed' = [listed EXCEPT ![q] = {}]
      /\ hydrated' = [hydrated EXCEPT ![q] = {}]
  BY DEF P!Answer
<1>3. /\ reader \in [Requests -> P!Reader]
      /\ listed \in [Requests -> SUBSET [id : Projects,
                                         status : P!ProjectStatus]]
      /\ hydrated \in [Requests -> SUBSET P!Details]
      /\ \A r \in Requests :
           reader[r].step # "idle" =>
             reader[r].super \/ reader[r].tenant # None
  BY DEF RInv, P!TypeOK
<1>4. \A r \in Requests : r # q => /\ reader'[r] = reader[r]
                                  /\ listed'[r] = listed[r]
                                  /\ hydrated'[r] = hydrated[r]
  BY <1>2, <1>3
<1>5. reader'[q] = P!Gone /\ listed'[q] = {} /\ hydrated'[q] = {}
  BY <1>2, <1>3
<1>6. Answers'
  BY <1>1, <1>4, <1>5, OthersKeepAnswers DEF RInv, Answers
<1>7. P!ListsShowOwn'
  BY <1>4, <1>5, OthersKeepAnswers DEF RInv, P!ListsShowOwn
<1> QED
  BY <1>1, <1>2, <1>3, <1>4, <1>5, <1>6, <1>7

(* A write that changes at most the rows it may change.                    *)
LEMMA Changes ==
  ASSUME P!RecordAssumption, RInv, NEW q \in Requests, P!Serving(q),
         RowsStay, P!Answer(q),
         project' \in [Projects -> P!ProjectRecord],
         detail' \in [P!Details -> P!DetailRecord],
         \A p \in Projects : P!Exists(p)' => project'[p].tenant # None,
         \A d \in P!Details : P!ThereIs(d)' => P!Exists(detail[d].project)',
         Dates', Used',
         \A p \in Projects :
           P!Exists(p) /\ (project'[p] # project[p]
                           \/ \E d \in P!Details :
                                /\ p \in {detail[d].project, detail'[d].project}
                                /\ detail'[d] # detail[d])
             => P!CanChange(q, p),
         \A p \in Projects : project'[p].published # project[p].published =>
           project'[p].status = "online" /\ project[p].status # "online"
  PROVE  RInv' /\ P!OwnChange /\ P!StampedWhenPublished
<1>1. RInv'
  BY AnswerKeeps DEF RInv, P!TypeOK, Dates, Used
<1>2. P!OwnChange
  BY AnswerKeeps DEF P!OwnChange, P!CanChange
<1>3. P!StampedWhenPublished
  BY DEF P!StampedWhenPublished, RInv, Dates
<1> QED
  BY <1>1, <1>2, <1>3

LEMMA ThereIsNow ==
  ASSUME RInv, RowsStay, NEW d \in P!Details, P!ThereIs(d),
         detail'[d] = detail[d],
         detail[d].project \in Projects => P!Exists(detail[d].project)'
  PROVE  P!Exists(detail[d].project)'
<1>1. detail[d].project \in Projects
  BY DEF RInv, Used, P!ThereIs
<1>2. detail'[d].project = detail[d].project
  OBVIOUS
<1> QED
  BY <1>1, <1>2

Statuses == {"", "online", "archived"}

LEMMA ProjectWrites ==
  ASSUME P!RecordAssumption, RInv, NEW q \in Requests, NEW p \in Projects,
         NEW status \in Statuses,
         \/ \E scope \in P!Scopes : P!CreateProject(q, p, scope, status)
         \/ P!UpdateProject(q, p, status)
  PROVE  RInv' /\ P!OwnChange /\ P!StampedWhenPublished
<1> USE DEF P!RecordAssumption
<1>01. P!Normal(status) \in {"draft", "online", "archived"}
  BY DEF P!Normal, Statuses
<1>0. /\ project \in [Projects -> P!ProjectRecord]
      /\ detail \in [P!Details -> P!DetailRecord]
      /\ P!Normal(status) \in {"draft", "online", "archived"}
      /\ \A r \in Projects : P!Exists(r) => project[r].tenant # None
      /\ \A d \in P!Details : P!ThereIs(d) => P!Exists(detail[d].project)
  BY <1>01 DEF RInv, P!TypeOK
<1>00. /\ MaxPublications \in Nat /\ MaxPublications >= 1
       /\ 0 \in 0..MaxPublications /\ 1 \in 0..MaxPublications
       /\ \A n \in 0..MaxPublications : n \in Nat
       /\ \A n \in Nat : n <= MaxPublications => n \in 0..MaxPublications
  <2>1. MaxPublications \in Nat \ {0}
    OBVIOUS
  <2>2. MaxPublications \in Nat /\ MaxPublications >= 1
    BY <2>1
  <2>3. 0 \in 0..MaxPublications /\ 1 \in 0..MaxPublications
    BY <2>2
  <2>4. \A n \in 0..MaxPublications : n \in Nat
    BY <2>2
  <2>5. \A n \in Nat : n <= MaxPublications => n \in 0..MaxPublications
    BY <2>2
  <2> QED
    BY <2>2, <2>3, <2>4, <2>5
<1> HIDE DEF P!RecordAssumption
<1>1. ASSUME NEW scope \in P!Scopes, P!CreateProject(q, p, scope, status)
      PROVE  RInv' /\ P!OwnChange /\ P!StampedWhenPublished
  <2> DEFINE row == [tenant |-> scope, status |-> P!Normal(status),
                     published |-> IF P!Normal(status) = "online"
                                   THEN 1 ELSE 0]
  <2>1. /\ P!Serving(q) /\ P!Answer(q) /\ detail' = detail
        /\ project[p].status = "unused"
        /\ project' = [project EXCEPT ![p] = row]
    BY <1>1 DEF P!CreateProject
  <2>2. row \in P!ProjectRecord
    <3>1. (IF P!Normal(status) = "online" THEN 1 ELSE 0)
            \in 0..MaxPublications
      BY <1>00
    <3>2. scope \in P!Scopes \union {None}
      BY <1>1
    <3> QED
      BY <1>0, <3>1, <3>2 DEF P!ProjectRecord, P!ProjectStatus
  <2>20. /\ row.tenant = scope
         /\ row.status = P!Normal(status)
         /\ row.published = IF P!Normal(status) = "online" THEN 1 ELSE 0
    OBVIOUS
  <2> HIDE DEF row
  <2>3. /\ project' \in [Projects -> P!ProjectRecord]
        /\ project'[p] = row
        /\ \A r \in Projects : r # p => project'[r] = project[r]
    BY <1>0, <2>1, <2>2
  <2>4. RowsStay
    BY <2>1, <2>3, <2>20, <1>0 DEF RowsStay
  <2>5. \A r \in Projects : P!Exists(r)' => project'[r].tenant # None
    <3>1. scope # None
      BY DEF P!RecordAssumption
    <3> QED
      BY <1>0, <2>20, <2>3, <3>1 DEF P!Exists
  <2>6. \A d \in P!Details : P!ThereIs(d)' => P!Exists(detail[d].project)'
    BY <1>0, <2>1, <2>3, <2>4, ThereIsNow
    DEF P!ThereIs, P!Exists, P!ProjectStatus
  <2>7. Dates' /\ Used'
    <3>1. ASSUME NEW r \in Projects
          PROVE  /\ project'[r].status = "online" =>
                      project'[r].published > 0
                 /\ project'[r].status = "unused" =>
                      project'[r].published = 0
      <4>1. CASE r = p
        <5>1. project'[r].status # "unused"
          BY <1>0, <2>20, <2>3, <4>1
        <5>2. project'[r].status = "online" => project'[r].published = 1
          BY <2>20, <2>3, <4>1
        <5> QED
          BY <5>1, <5>2
      <4>2. CASE r # p
        BY <2>3, <4>2 DEF RInv, Dates
      <4> QED
        BY <4>1, <4>2
    <3>2. Used'
      BY <2>1 DEF RInv, Used
    <3> QED
      BY <3>1, <3>2 DEF Dates
  <2>8. \A r \in Projects : P!Exists(r) => project'[r] = project[r]
    BY <2>1, <2>3 DEF P!Exists, P!ProjectStatus
  <2>9. \A r \in Projects : project'[r].published # project[r].published =>
          project'[r].status = "online" /\ project[r].status # "online"
    BY <2>1, <2>20, <2>3 DEF RInv, Dates
  <2> QED
    BY <1>0, <2>1, <2>3, <2>4, <2>5, <2>6, <2>7, <2>8, <2>9, Changes
<1>2. ASSUME P!UpdateProject(q, p, status)
      PROVE  RInv' /\ P!OwnChange /\ P!StampedWhenPublished
  <2> DEFINE row == [[project[p] EXCEPT !.status = P!Normal(status)] EXCEPT
                       !.published = P!Publications(p, P!Normal(status))]
  <2>1. /\ P!Serving(q) /\ P!Answer(q) /\ detail' = detail
        /\ P!Exists(p) /\ P!CanChange(q, p)
        /\ P!Publications(p, P!Normal(status)) <= MaxPublications
        /\ project' = [project EXCEPT ![p] = row]
    BY <1>2 DEF P!UpdateProject
  <2>2. project[p] \in P!ProjectRecord
    BY <1>0
  <2>3. P!Publications(p, P!Normal(status)) \in 0..MaxPublications
    <3>1. project[p].published \in 0..MaxPublications
      BY <2>2 DEF P!ProjectRecord
    <3>2. project[p].published \in Nat
      BY <3>1, <1>00
    <3>3. P!Publications(p, P!Normal(status)) \in Nat
      <4>1. project[p].published + 1 \in Nat
        BY <3>2
      <4> QED
        BY <3>2, <4>1 DEF P!Publications
    <3> QED
      BY <3>3, <2>1, <1>00
  <2>4. /\ row \in P!ProjectRecord /\ row.tenant = project[p].tenant
        /\ row.status = P!Normal(status)
        /\ row.published = P!Publications(p, P!Normal(status))
    BY <1>0, <2>2, <2>3 DEF P!ProjectRecord, P!ProjectStatus
  <2> HIDE DEF row
  <2>5. /\ project' \in [Projects -> P!ProjectRecord]
        /\ project'[p] = row
        /\ \A r \in Projects : r # p => project'[r] = project[r]
    BY <1>0, <2>1, <2>4
  <2>6. RowsStay
    BY <1>0, <2>1, <2>4, <2>5 DEF RowsStay
  <2>7. \A r \in Projects : P!Exists(r) => P!Exists(r)'
    BY <1>0, <2>4, <2>5 DEF P!Exists, P!ProjectStatus
  <2>8. \A r \in Projects : P!Exists(r)' => project'[r].tenant # None
    BY <1>0, <2>1, <2>4, <2>5 DEF P!Exists
  <2>9. \A d \in P!Details : P!ThereIs(d)' => P!Exists(detail[d].project)'
    BY <1>0, <2>1, <2>6, <2>7, ThereIsNow DEF P!ThereIs
  <2>10. /\ row.status = "online" => row.published > 0
         /\ row.status # "unused"
         /\ row.published # project[p].published =>
              row.status = "online" /\ project[p].status # "online"
    <3>1. project[p].published \in Nat
      BY <1>00, <2>2 DEF P!ProjectRecord
    <3>2. project[p].status = "online" => project[p].published > 0
      BY DEF RInv, Dates
    <3>3. /\ row.published =
               IF row.status = "online" /\ project[p].status # "online"
               THEN project[p].published + 1 ELSE project[p].published
          /\ row.status \in {"draft", "online", "archived"}
      BY <1>0, <2>4 DEF P!Publications
    <3>4. /\ project[p].published + 1 > 0
          /\ project[p].published + 1 # project[p].published
      BY <3>1
    <3>5. CASE row.status = "online" /\ project[p].status # "online"
      BY <3>3, <3>4, <3>5
    <3>6. CASE ~(row.status = "online" /\ project[p].status # "online")
      BY <3>2, <3>3, <3>6
    <3> QED
      BY <3>5, <3>6
  <2>11. Dates' /\ Used'
    <3>1. Dates'
      BY <2>1, <2>5, <2>10 DEF RInv, Dates
    <3>2. Used'
      BY <2>1 DEF RInv, Used
    <3> QED
      BY <3>1, <3>2
  <2>12. \A r \in Projects : project'[r].published # project[r].published =>
           project'[r].status = "online" /\ project[r].status # "online"
    BY <2>5, <2>10
  <2>13. \A r \in Projects : project'[r] # project[r] => r = p
    BY <2>5
  <2> QED
    BY <1>0, <2>1, <2>5, <2>6, <2>8, <2>9, <2>11, <2>12, <2>13, Changes
<1> QED
  BY <1>1, <1>2

LEMMA ProjectGoes ==
  ASSUME P!RecordAssumption, RInv, NEW q \in Requests, NEW p \in Projects,
         P!DeleteProject(q, p)
  PROVE  RInv' /\ P!OwnChange /\ P!StampedWhenPublished
<1> DEFINE row == [project[p] EXCEPT !.status = "deleted"]
<1>0. /\ project \in [Projects -> P!ProjectRecord]
      /\ detail \in [P!Details -> P!DetailRecord]
      /\ \A r \in Projects : P!Exists(r) => project[r].tenant # None
      /\ \A d \in P!Details : P!ThereIs(d) => P!Exists(detail[d].project)
  BY DEF RInv, P!TypeOK
<1>1. /\ P!Serving(q) /\ P!Answer(q) /\ P!Exists(p) /\ P!CanChange(q, p)
      /\ project' = [project EXCEPT ![p] = row]
      /\ detail' = [d \in P!Details |->
           IF detail[d].project = p
           THEN [detail[d] EXCEPT !.status = "deleted"] ELSE detail[d]]
  BY DEF P!DeleteProject
<1>2. /\ row \in P!ProjectRecord /\ row.tenant = project[p].tenant
      /\ row.status = "deleted" /\ row.published = project[p].published
  BY <1>0 DEF P!ProjectRecord
<1> HIDE DEF row
<1>3. /\ project' \in [Projects -> P!ProjectRecord]
      /\ project'[p] = row
      /\ \A r \in Projects : r # p => project'[r] = project[r]
  BY <1>0, <1>1, <1>2
<1>4. /\ detail' \in [P!Details -> P!DetailRecord]
      /\ \A d \in P!Details : detail[d].project = p =>
           /\ detail'[d].status = "deleted"
           /\ detail'[d].project = detail[d].project
      /\ \A d \in P!Details : detail[d].project # p =>
           detail'[d] = detail[d]
  BY <1>0, <1>1 DEF P!DetailRecord
<1>5. RowsStay
  BY <1>2, <1>3, <1>4 DEF RowsStay
<1>6. \A r \in Projects : P!Exists(r)' => project'[r].tenant # None
  BY <1>0, <1>1, <1>2, <1>3 DEF P!Exists
<1>7. ASSUME NEW d \in P!Details, P!ThereIs(d)'
      PROVE  P!Exists(detail[d].project)'
  <2>1. detail[d].project # p /\ detail'[d] = detail[d] /\ P!ThereIs(d)
    BY <1>4, <1>7 DEF P!ThereIs
  <2>2. detail[d].project \in Projects => P!Exists(detail[d].project)'
    BY <1>0, <1>3, <2>1 DEF P!Exists
  <2> QED
    BY <1>5, <2>1, <2>2, ThereIsNow
<1>8. Dates' /\ Used'
  <2>1. Dates'
    BY <1>2, <1>3 DEF RInv, Dates
  <2>2. ASSUME NEW d \in P!Details, detail[d].project = p
        PROVE  detail'[d].status # "unused" /\ detail'[d].project \in Projects
    BY <1>4, <2>2
  <2>3. ASSUME NEW d \in P!Details, detail[d].project # p
        PROVE  IF detail'[d].status = "unused" THEN detail'[d].project = None
               ELSE detail'[d].project \in Projects
    BY <1>4, <2>3 DEF RInv, Used
  <2>4. Used'
    BY <2>2, <2>3 DEF Used
  <2> QED
    BY <2>1, <2>4
<1>9. \A r \in Projects : project'[r].published = project[r].published
  BY <1>2, <1>3
<1>10. ASSUME NEW r \in Projects,
              project'[r] # project[r]
                \/ \E d \in P!Details :
                     detail[d].project = r /\ detail'[d] # detail[d]
       PROVE  r = p
  BY <1>3, <1>4, <1>10
<1> QED
  BY <1>1, <1>3, <1>4, <1>5, <1>6, <1>7, <1>8, <1>9, <1>10, Changes

(* A statement that writes one integration or capability of a project that *)
(* the request may change.                                                 *)
LEMMA DetailChanges ==
  ASSUME P!RecordAssumption, RInv, NEW q \in Requests,
         NEW d \in P!Details, NEW row \in P!DetailRecord,
         P!Serving(q), P!Answer(q), project' = project,
         detail' = [detail EXCEPT ![d] = row],
         row.status # "unused", row.project \in Projects,
         P!Exists(row.project), P!CanChange(q, row.project),
         \/ detail[d].status = "unused"
         \/ detail[d].project = row.project
  PROVE  RInv' /\ P!OwnChange /\ P!StampedWhenPublished
<1>0. /\ project \in [Projects -> P!ProjectRecord]
      /\ detail \in [P!Details -> P!DetailRecord]
      /\ \A r \in Projects : P!Exists(r) => project[r].tenant # None
      /\ \A e \in P!Details : P!ThereIs(e) => P!Exists(detail[e].project)
  BY DEF RInv, P!TypeOK
<1>1. /\ detail' \in [P!Details -> P!DetailRecord]
      /\ detail'[d] = row
      /\ \A e \in P!Details : e # d => detail'[e] = detail[e]
  BY <1>0
<1>2. RowsStay
  BY <1>1 DEF RowsStay
<1>3. \A r \in Projects : P!Exists(r)' => project'[r].tenant # None
  BY <1>0 DEF P!Exists
<1>4. \A e \in P!Details : P!ThereIs(e)' => P!Exists(detail[e].project)'
  <2>1. \A e \in P!Details : P!ThereIs(e)' => P!Exists(detail'[e].project)
    BY <1>0, <1>1 DEF P!ThereIs
  <2> QED
    BY <2>1 DEF P!Exists
<1>5. Dates' /\ Used'
  <2>1. Dates'
    BY DEF RInv, Dates
  <2>2. Used'
    BY <1>1 DEF RInv, Used
  <2> QED
    BY <2>1, <2>2
<1>6. ASSUME NEW r \in Projects, NEW e \in P!Details,
             r \in {detail[e].project, detail'[e].project}, detail'[e] # detail[e]
      PROVE  P!CanChange(q, r)
  <2>1. e = d
    BY <1>1, <1>6
  <2>2. CASE detail'[e].project = r
    BY <1>1, <2>1, <2>2
  <2>3. CASE detail[e].project = r
    <3>1. None \notin Projects
      BY DEF P!RecordAssumption
    <3>2. detail[d].status # "unused"
      BY <2>1, <2>3, <3>1 DEF RInv, Used
    <3> QED
      BY <2>1, <2>3, <3>2
  <2> QED
    BY <1>6, <2>2, <2>3
<1> QED
  BY <1>0, <1>1, <1>2, <1>3, <1>4, <1>5, <1>6, Changes

LEMMA DetailWrites ==
  ASSUME P!RecordAssumption, RInv, NEW q \in Requests,
         NEW d \in P!Details,
         \/ \E p \in Projects : P!CreateDetail(q, d, p)
         \/ \E status \in {"active", "inactive"} :
              P!UpdateDetail(q, d, status)
         \/ P!DeleteDetail(q, d)
  PROVE  RInv' /\ P!OwnChange /\ P!StampedWhenPublished
<1>0. /\ detail \in [P!Details -> P!DetailRecord]
      /\ detail[d] \in P!DetailRecord
      /\ P!ThereIs(d) =>
           detail[d].project \in Projects /\ P!Exists(detail[d].project)
  BY DEF RInv, P!TypeOK, Used, P!ThereIs
<1>1. ASSUME NEW p \in Projects, P!CreateDetail(q, d, p)
      PROVE  RInv' /\ P!OwnChange /\ P!StampedWhenPublished
  <2> DEFINE row == [project |-> p, status |-> "active"]
  <2>1. row \in P!DetailRecord
    BY DEF P!DetailRecord
  <2>2. /\ P!Serving(q) /\ P!Answer(q) /\ project' = project
        /\ P!Exists(p) /\ P!CanChange(q, p)
        /\ detail[d].status = "unused"
        /\ detail' = [detail EXCEPT ![d] = row]
    BY <1>1 DEF P!CreateDetail
  <2>3. row.project = p /\ row.status # "unused"
    OBVIOUS
  <2> HIDE DEF row
  <2> QED
    BY <2>1, <2>2, <2>3, DetailChanges
<1>2. ASSUME NEW status \in {"active", "inactive", "deleted"},
             P!ThereIs(d), P!Serving(q), P!Answer(q), project' = project,
             P!CanChange(q, detail[d].project),
             detail' = [detail EXCEPT ![d].status = status]
      PROVE  RInv' /\ P!OwnChange /\ P!StampedWhenPublished
  <2> DEFINE row == [detail[d] EXCEPT !.status = status]
  <2>1. /\ row \in P!DetailRecord /\ row.project = detail[d].project
        /\ row.status # "unused"
    BY <1>0 DEF P!DetailRecord
  <2>2. detail' = [detail EXCEPT ![d] = row]
    BY <1>2
  <2> HIDE DEF row
  <2> QED
    BY <1>0, <1>2, <2>1, <2>2, DetailChanges
<1>3. ASSUME NEW status \in {"active", "inactive"},
             P!UpdateDetail(q, d, status)
      PROVE  RInv' /\ P!OwnChange /\ P!StampedWhenPublished
  BY <1>2, <1>3 DEF P!UpdateDetail
<1>4. ASSUME P!DeleteDetail(q, d)
      PROVE  RInv' /\ P!OwnChange /\ P!StampedWhenPublished
  BY <1>2, <1>4 DEF P!DeleteDetail
<1> QED
  BY <1>1, <1>3, <1>4

LEMMA NothingToWrite ==
  ASSUME P!RecordAssumption, RInv, NEW q \in Requests, P!NoEffect(q)
  PROVE  RInv' /\ P!OwnChange /\ P!StampedWhenPublished
<1>1. /\ P!Serving(q) /\ P!Answer(q)
      /\ project' = project /\ detail' = detail
  BY DEF P!NoEffect
<1>2. /\ project \in [Projects -> P!ProjectRecord]
      /\ detail \in [P!Details -> P!DetailRecord]
      /\ \A p \in Projects : P!Exists(p)' => project'[p].tenant # None
      /\ \A d \in P!Details : P!ThereIs(d)' => P!Exists(detail[d].project)'
  BY <1>1 DEF RInv, P!TypeOK, P!Exists, P!ThereIs
<1>3. RowsStay /\ Dates' /\ Used'
  BY <1>1 DEF RowsStay, RInv, Dates, Used
<1> QED
  BY <1>1, <1>2, <1>3, Changes

(* What a request may have read and what it may still be going to read.    *)
RequestFits(rd, ls, hy) ==
  /\ rd.step # "idle" => rd.super \/ rd.tenant # None
  /\ ~rd.super => \A e \in ls :
       \/ project[e.id].tenant = rd.tenant
       \/ project[e.id].tenant = System /\ e.status = "online"
  /\ \A d \in hy : \E e \in ls : e.id = detail[d].project
  /\ \A e \in ls : project[e.id].status # "unused"
  /\ \A d \in hy : detail[d].status # "unused"
  /\ rd.step \in {"idle", "serving"} => ls = {} /\ hy = {}
  /\ \A p \in rd.todo : \E e \in ls : e.id = p
  /\ rd.step = "capabilities" => \E e \in ls : e.id = rd.at

LEMMA Fits ==
  ASSUME RInv, NEW q \in Requests
  PROVE  RequestFits(reader[q], listed[q], hydrated[q])
BY DEF RInv, P!TypeOK, P!ListsShowOwn, Answers, RequestFits

(* A step of a request that writes no row.                                 *)
LEMMA Reads ==
  ASSUME RInv, NEW q \in Requests, project' = project, detail' = detail,
         NEW rd \in P!Reader,
         NEW ls \in SUBSET [id : Projects, status : P!ProjectStatus],
         NEW hy \in SUBSET P!Details,
         reader' = [reader EXCEPT ![q] = rd],
         listed' = [listed EXCEPT ![q] = ls],
         hydrated' = [hydrated EXCEPT ![q] = hy],
         RequestFits(rd, ls, hy)
  PROVE  RInv' /\ P!OwnChange /\ P!StampedWhenPublished
<1>1. /\ reader \in [Requests -> P!Reader]
      /\ listed \in [Requests -> SUBSET [id : Projects,
                                         status : P!ProjectStatus]]
      /\ hydrated \in [Requests -> SUBSET P!Details]
  BY DEF RInv, P!TypeOK
<1>2. /\ reader' \in [Requests -> P!Reader]
      /\ listed' \in [Requests -> SUBSET [id : Projects,
                                          status : P!ProjectStatus]]
      /\ hydrated' \in [Requests -> SUBSET P!Details]
  BY <1>1
<1>3. ASSUME NEW r \in Requests
      PROVE  RequestFits(reader'[r], listed'[r], hydrated'[r])
  <2>1. CASE r = q
    BY <1>1, <2>1
  <2>2. CASE r # q
    BY <1>1, <2>2, Fits
  <2> QED
    BY <2>1, <2>2
<1>4. P!TypeOK'
  <2>1. /\ \A p \in Projects : P!Exists(p)' => project'[p].tenant # None
        /\ \A d \in P!Details :
             P!ThereIs(d)' => P!Exists(detail[d].project)'
    BY DEF RInv, P!TypeOK, P!Exists, P!ThereIs
  <2>2. \A r \in Requests :
          reader'[r].step # "idle" =>
            reader'[r].super \/ reader'[r].tenant # None
    BY <1>3 DEF RequestFits
  <2>3. /\ project' \in [Projects -> P!ProjectRecord]
        /\ detail' \in [P!Details -> P!DetailRecord]
    BY DEF RInv, P!TypeOK
  <2> QED
    BY <1>2, <2>1, <2>2, <2>3 DEF P!TypeOK
<1>5. P!ListsShowOwn'
  BY <1>3 DEF P!ListsShowOwn, RequestFits
<1>6. Answers'
  BY <1>3 DEF Answers, RequestFits
<1>7. Dates' /\ Used'
  BY DEF RInv, Dates, Used
<1>8. P!OwnChange
  BY DEF P!OwnChange
<1>9. P!StampedWhenPublished
  BY DEF P!StampedWhenPublished, RInv, Dates
<1> QED
  BY <1>4, <1>5, <1>6, <1>7, <1>8, <1>9 DEF RInv

LEMMA Enters ==
  ASSUME P!RecordAssumption, RInv, NEW q \in Requests,
         NEW super \in BOOLEAN, NEW t \in P!Scopes \union {None},
         P!Enter(q, super, t)
  PROVE  RInv' /\ P!OwnChange /\ P!StampedWhenPublished
<1> DEFINE rd == [P!Gone EXCEPT !.step = "serving", !.super = super,
                                !.tenant = t]
<1>1. /\ rd \in P!Reader /\ rd.step = "serving" /\ rd.super = super
      /\ rd.tenant = t /\ rd.todo = {}
  BY DEF P!Gone, P!Reader
<1>2. /\ reader[q].step = "idle" /\ (super \/ t \in Tenants)
      /\ reader' = [reader EXCEPT ![q] = rd]
      /\ listed' = listed /\ hydrated' = hydrated
      /\ project' = project /\ detail' = detail
  BY DEF P!Enter
<1> HIDE DEF rd
<1>3. /\ listed[q] = {} /\ hydrated[q] = {}
      /\ listed' = [listed EXCEPT ![q] = {}]
      /\ hydrated' = [hydrated EXCEPT ![q] = {}]
  BY <1>2 DEF RInv, Answers, P!TypeOK
<1>4. super \/ t # None
  BY <1>2 DEF P!RecordAssumption, P!Scopes
<1>5. RequestFits(rd, {}, {})
  BY <1>1, <1>4 DEF RequestFits
<1> QED
  BY <1>1, <1>2, <1>3, <1>5, Reads

LEMMA ProjectsRead ==
  ASSUME RInv, NEW q \in Requests, NEW wanted \in SUBSET Projects,
         P!ReadProjects(q, wanted)
  PROVE  RInv' /\ P!OwnChange /\ P!StampedWhenPublished
<1> DEFINE rows == {p \in wanted : P!Exists(p) /\ P!CanSee(q, p)}
           ls == {[id |-> p, status |-> project[p].status] : p \in rows}
           rd == [[reader[q] EXCEPT !.step = "integrations"]
                    EXCEPT !.todo = rows]
<1>0. /\ reader \in [Requests -> P!Reader] /\ reader[q] \in P!Reader
      /\ hydrated \in [Requests -> SUBSET P!Details]
  BY DEF RInv, P!TypeOK
<1>1. /\ reader[q].step = "serving"
      /\ reader' = [reader EXCEPT ![q] = rd]
      /\ listed' = [listed EXCEPT ![q] = ls]
      /\ hydrated' = hydrated /\ project' = project /\ detail' = detail
  BY <1>0 DEF P!ReadProjects, P!Serving
<1>2. /\ rows \subseteq Projects
      /\ \A p \in rows : P!Exists(p) /\ P!CanSee(q, p)
  OBVIOUS
<1>3. /\ ls \in SUBSET [id : Projects, status : P!ProjectStatus]
      /\ \A e \in ls : e.id \in rows /\ e.status = project[e.id].status
      /\ \A p \in rows : \E e \in ls : e.id = p
  <2>1. \A p \in rows : project[p].status \in P!ProjectStatus
    BY DEF P!Exists
  <2> HIDE DEF rows
  <2>2. \A e \in ls : \E p \in rows :
          e = [id |-> p, status |-> project[p].status]
    OBVIOUS
  <2>3. \A p \in rows : [id |-> p, status |-> project[p].status] \in ls
    OBVIOUS
  <2> HIDE DEF ls
  <2>4. ASSUME NEW e \in ls
        PROVE  /\ e \in [id : Projects, status : P!ProjectStatus]
               /\ e.id \in rows /\ e.status = project[e.id].status
    <3>1. PICK p \in rows : e = [id |-> p, status |-> project[p].status]
      BY <2>2
    <3> QED
      BY <1>2, <2>1, <3>1
  <2>5. \A p \in rows : \E e \in ls : e.id = p
    BY <2>3
  <2> QED
    BY <2>4, <2>5
<1>4. /\ rd \in P!Reader /\ rd.step = "integrations"
      /\ rd.super = reader[q].super /\ rd.tenant = reader[q].tenant
      /\ rd.todo = rows
  BY <1>0, <1>2 DEF P!Reader
<1> HIDE DEF rows, ls, rd
<1>5. hydrated[q] = {} /\ hydrated' = [hydrated EXCEPT ![q] = {}]
  BY <1>0, <1>1 DEF RInv, Answers
<1>6. RequestFits(rd, ls, {})
  <2>1. reader[q].super \/ reader[q].tenant # None
    BY <1>1 DEF RInv, P!TypeOK
  <2>2. \A e \in ls : P!Exists(e.id) /\ P!CanSee(q, e.id)
    BY <1>2, <1>3
  <2>3. \A e \in ls : project[e.id].status # "unused"
    BY <2>2 DEF P!Exists, P!ProjectStatus
  <2>4. ~rd.super => \A e \in ls :
          \/ project[e.id].tenant = rd.tenant
          \/ project[e.id].tenant = System /\ e.status = "online"
    BY <1>3, <1>4, <2>2 DEF P!CanSee
  <2> QED
    BY <1>3, <1>4, <2>1, <2>3, <2>4 DEF RequestFits
<1> QED
  BY <1>1, <1>3, <1>4, <1>5, <1>6, Reads

(* The details of a project in the answer are added to it.                 *)
LEMMA DetailsRead ==
  ASSUME RInv, NEW q \in Requests, NEW p \in Projects,
         P!ReadIntegrations(q, p) \/ P!ReadCapabilities(q, p)
  PROVE  RInv' /\ P!OwnChange /\ P!StampedWhenPublished
<1>0. /\ reader \in [Requests -> P!Reader] /\ reader[q] \in P!Reader
      /\ listed \in [Requests -> SUBSET [id : Projects,
                                         status : P!ProjectStatus]]
      /\ hydrated \in [Requests -> SUBSET P!Details]
      /\ listed[q] \in SUBSET [id : Projects, status : P!ProjectStatus]
      /\ RequestFits(reader[q], listed[q], hydrated[q])
  BY Fits DEF RInv, P!TypeOK
<1>1. ASSUME NEW kind \in SUBSET P!Details, P!SelectDetails(q, p, kind),
             listed' = listed, project' = project, detail' = detail,
             NEW rd \in P!Reader, reader' = [reader EXCEPT ![q] = rd],
             rd.super = reader[q].super, rd.tenant = reader[q].tenant,
             reader[q].step \notin {"idle", "serving"},
             rd.todo \subseteq reader[q].todo,
             \E e \in listed[q] : e.id = p,
             \/ rd.step = "integrations"
             \/ rd.step = "capabilities" /\ rd.at = p
      PROVE  RInv' /\ P!OwnChange /\ P!StampedWhenPublished
  <2> DEFINE more == {d \in kind : /\ P!ThereIs(d) /\ detail[d].project = p
                                   /\ P!CanSee(q, p)}
             hy == hydrated[q] \union more
  <2>1. hydrated' = [hydrated EXCEPT ![q] = hy]
    BY <1>1 DEF P!SelectDetails
  <2>2. /\ hy \in SUBSET P!Details
        /\ \A d \in hy : \/ d \in hydrated[q]
                         \/ P!ThereIs(d) /\ detail[d].project = p
    BY <1>0, <1>1
  <2> HIDE DEF more, hy
  <2>3. RequestFits(rd, listed[q], hy)
    <3>1. /\ \A d \in hy : \E e \in listed[q] : e.id = detail[d].project
          /\ \A d \in hy : detail[d].status # "unused"
      BY <1>0, <1>1, <2>2 DEF RequestFits, P!ThereIs
    <3>2. /\ rd.step # "idle" /\ rd.step # "serving"
          /\ rd.super \/ rd.tenant # None
          /\ \A r \in rd.todo : \E e \in listed[q] : e.id = r
          /\ rd.step = "capabilities" =>
               \E e \in listed[q] : e.id = rd.at
      BY <1>0, <1>1 DEF RequestFits
    <3> QED
      BY <1>0, <1>1, <3>1, <3>2 DEF RequestFits
  <2>4. listed' = [listed EXCEPT ![q] = listed[q]]
    BY <1>0, <1>1
  <2> QED
    BY <1>0, <1>1, <2>1, <2>2, <2>3, <2>4, Reads
<1>2. ASSUME P!ReadIntegrations(q, p)
      PROVE  RInv' /\ P!OwnChange /\ P!StampedWhenPublished
  <2> DEFINE rd == [[reader[q] EXCEPT !.step = "capabilities"]
                      EXCEPT !.at = p]
  <2>1. /\ reader[q].step = "integrations" /\ p \in reader[q].todo
        /\ P!SelectDetails(q, p, Integrations)
        /\ reader' = [reader EXCEPT ![q] = rd]
        /\ listed' = listed /\ project' = project /\ detail' = detail
    BY <1>0, <1>2 DEF P!ReadIntegrations
  <2>2. /\ rd \in P!Reader /\ rd.super = reader[q].super
        /\ rd.tenant = reader[q].tenant /\ rd.todo = reader[q].todo
        /\ rd.step = "capabilities" /\ rd.at = p
    BY <1>0 DEF P!Reader
  <2> HIDE DEF rd
  <2>3. Integrations \in SUBSET P!Details
    BY DEF P!Details
  <2>4. \E e \in listed[q] : e.id = p
    BY <1>0, <2>1 DEF RequestFits
  <2> QED
    BY <1>1, <2>1, <2>2, <2>3, <2>4
<1>3. ASSUME P!ReadCapabilities(q, p)
      PROVE  RInv' /\ P!OwnChange /\ P!StampedWhenPublished
  <2> DEFINE rd == [[[reader[q] EXCEPT !.step = "integrations"]
                       EXCEPT !.todo = reader[q].todo \ {p}]
                      EXCEPT !.at = None]
  <2>1. /\ reader[q].step = "capabilities" /\ p = reader[q].at
        /\ P!SelectDetails(q, p, Capabilities)
        /\ reader' = [reader EXCEPT ![q] = rd]
        /\ listed' = listed /\ project' = project /\ detail' = detail
    BY <1>0, <1>3 DEF P!ReadCapabilities
  <2>2. /\ rd \in P!Reader /\ rd.super = reader[q].super
        /\ rd.tenant = reader[q].tenant
        /\ rd.todo \subseteq reader[q].todo
        /\ rd.step = "integrations"
    BY <1>0 DEF P!Reader
  <2> HIDE DEF rd
  <2>3. Capabilities \in SUBSET P!Details
    BY DEF P!Details
  <2>4. \E e \in listed[q] : e.id = p
    BY <1>0, <2>1 DEF RequestFits
  <2> QED
    BY <1>1, <2>1, <2>2, <2>3, <2>4
<1> QED
  BY <1>2, <1>3

LEMMA ReadingEnds ==
  ASSUME RInv, NEW q \in Requests, P!EndReading(q)
  PROVE  RInv' /\ P!OwnChange /\ P!StampedWhenPublished
<1>1. /\ reader' = [reader EXCEPT ![q] = P!Gone]
      /\ listed' = [listed EXCEPT ![q] = {}]
      /\ hydrated' = [hydrated EXCEPT ![q] = {}]
      /\ project' = project /\ detail' = detail
  BY DEF P!EndReading, P!Answer
<1>2. P!Gone \in P!Reader /\ RequestFits(P!Gone, {}, {})
  BY DEF P!Gone, P!Reader, RequestFits
<1> QED
  BY <1>1, <1>2, Reads

LEMMA RecordsStep ==
  ASSUME P!RecordAssumption, RInv, [P!Next]_P!vars
  PROVE  RInv' /\ [P!OwnChange /\ P!StampedWhenPublished]_P!vars
<1>1. ASSUME NEW q \in Requests, P!Write(q)
      PROVE  RInv' /\ P!OwnChange /\ P!StampedWhenPublished
  <2>1. ASSUME NEW p \in Projects, NEW status \in Statuses,
               \/ \E scope \in P!Scopes : P!CreateProject(q, p, scope, status)
               \/ P!UpdateProject(q, p, status)
        PROVE  RInv' /\ P!OwnChange /\ P!StampedWhenPublished
    BY <2>1, ProjectWrites
  <2> QED
    BY <1>1, <2>1, ProjectGoes, DetailWrites, NothingToWrite, Zenon
    DEF P!Write, Statuses
<1>2. ASSUME NEW q \in Requests, P!Read(q)
      PROVE  RInv' /\ P!OwnChange /\ P!StampedWhenPublished
  <2>1. CASE P!ListAccessible(q)
    <3>1. {p \in Projects : project[p].tenant \in {reader[q].tenant, System}}
            \in SUBSET Projects
      OBVIOUS
    <3> QED
      BY <2>1, <3>1, ProjectsRead DEF P!ListAccessible
  <2>2. CASE P!ListSystem(q)
    <3>1. {p \in Projects : project[p].tenant = System} \in SUBSET Projects
      OBVIOUS
    <3> QED
      BY <2>2, <3>1, ProjectsRead DEF P!ListSystem
  <2>3. ASSUME NEW p \in Projects, P!GetProject(q, p)
        PROVE  RInv' /\ P!OwnChange /\ P!StampedWhenPublished
    <3>1. {p} \in SUBSET Projects
      OBVIOUS
    <3> QED
      BY <2>3, <3>1, ProjectsRead DEF P!GetProject
  <2>4. CASE P!EndReading(q)
    BY <2>4, ReadingEnds
  <2>5. ASSUME NEW p \in Projects,
               P!ReadIntegrations(q, p) \/ P!ReadCapabilities(q, p)
        PROVE  RInv' /\ P!OwnChange /\ P!StampedWhenPublished
    BY <2>5, DetailsRead
  <2> QED
    BY <1>2, <2>1, <2>2, <2>3, <2>4, <2>5, Zenon DEF P!Read
<1>3. CASE UNCHANGED P!vars
  <2>1. RInv'
    BY <1>3 DEF P!vars, RInv, P!TypeOK, P!Exists, P!ThereIs,
                P!ListsShowOwn, Answers, Dates, Used
  <2> QED
    BY <1>3, <2>1
<1> QED
  BY <1>1, <1>2, <1>3, Enters DEF P!Next

(* The database guards what no handler checks: a project and its details   *)
(* are changed by requests of their tenant alone, those of the system by   *)
(* superadmins; a list shows the request's own projects and the system's   *)
(* online ones, with details of those; and a project that is online has a  *)
(* date of publication, which changes when it returns to that status only. *)
THEOREM RecordsStand ==
  ASSUME P!RecordAssumption
  PROVE  P!Spec => RecordsAreGuarded
<1>1. P!Init => RInv
  BY RecordsInit
<1>2. RInv /\ [P!Next]_P!vars => RInv'
  BY RecordsStep
<1>3. RInv /\ [P!Next]_P!vars =>
        [P!OwnChange /\ P!StampedWhenPublished]_P!vars
  BY RecordsStep
<1>4. RInv => P!TypeOK /\ P!ListsShowOwn
  BY DEF RInv
<1> QED
  BY <1>1, <1>2, <1>3, <1>4, PTL
     DEF P!Spec, RecordsAreGuarded, P!RecordsAreGuarded

-----------------------------------------------------------------------------
(* What a document becomes (ProjectTools)                                  *)

(* Induction over the natural numbers, of a set instead of a formula.      *)
Below == {ss \in Nat \X Nat : ss[1] < ss[2]}

LEMMA Induction ==
  ASSUME NEW S \in SUBSET Nat, 0 \in S, \A n \in S : n + 1 \in S
  PROVE  S = Nat
<1>1. IsWellFoundedOn(Below, Nat)
  BY NatLessThanWellFounded DEF OpToRel, Below
<1>2. SUFFICES ASSUME Nat \ S # {} PROVE FALSE
  OBVIOUS
<1>3. PICK n \in Nat \ S : \A m \in Nat \ S : ~(<<m, n>> \in Below)
  BY <1>1, <1>2, WFMin
<1>4. n # 0 /\ n - 1 \in Nat /\ <<n - 1, n>> \in Below
  BY <1>3 DEF Below
<1> QED
  BY <1>3, <1>4

(* ProjectTools has two recursive functions on the numbers: x is "clean"   *)
(* for that of Cleanings, or the tuple of v for that of Within(v).  Each   *)
(* computes its n-th value from the one before.                            *)
CleanStep(h, n) ==
  [v \in Values |-> IF n = 0 THEN {} ELSE T!CleanedBy(h[n - 1], v)]

WithinStep(v, h, n) ==
  IF n = 0 THEN {v} ELSE UNION {T!Parts(w) : w \in h[n - 1]}

Step(x, h, n) == IF x[1] = "clean" THEN CleanStep(h, n) ELSE WithinStep(x[2], h, n)

Steps(x, n, h) == \A i \in 0..n : h[i] = Step(x, h, i)

LEMMA StepBefore ==
  ASSUME NEW x, NEW n \in Nat, NEW h, NEW g, n # 0 => h[n - 1] = g[n - 1]
  PROVE  Step(x, h, n) = Step(x, g, n)
<1>1. CASE n = 0
  BY <1>1 DEF Step, CleanStep, WithinStep
<1>2. CASE n # 0
  BY <1>2 DEF Step, CleanStep, WithinStep
<1> QED
  BY <1>1, <1>2

LEMMA StepsExist ==
  ASSUME NEW x, NEW n \in Nat PROVE \E h : Steps(x, n, h)
<1> DEFINE S == {m \in Nat : \E h : Steps(x, m, h)}
<1>1. 0 \in S
  <2> DEFINE g == [i \in 0..0 |-> Step(x, <<>>, i)]
  <2>1. g[0] = Step(x, <<>>, 0)
    OBVIOUS
  <2>2. Step(x, <<>>, 0) = Step(x, g, 0)
    BY StepBefore
  <2>3. Steps(x, 0, g)
    <3> HIDE DEF g
    <3> QED
      BY <2>1, <2>2 DEF Steps
  <2> QED
    BY <2>3
<1>2. ASSUME NEW m \in S PROVE m + 1 \in S
  <2>1. PICK h : Steps(x, m, h)
    OBVIOUS
  <2> DEFINE g == [i \in 0..(m + 1) |-> Step(x, h, i)]
  <2>2. \A i \in 0..m : h[i] = Step(x, h, i)
    BY <2>1 DEF Steps
  <2>3. ASSUME NEW i \in 0..(m + 1) PROVE g[i] = Step(x, g, i)
    <3>1. g[i] = Step(x, h, i)
      OBVIOUS
    <3>2. i # 0 => i - 1 \in 0..m /\ g[i - 1] = h[i - 1]
      BY <2>2
    <3> HIDE DEF g
    <3>3. Step(x, h, i) = Step(x, g, i)
      BY <3>2, StepBefore
    <3> QED
      BY <3>1, <3>3
  <2>4. Steps(x, m + 1, g)
    BY <2>3 DEF Steps
  <2> QED
    BY <2>4
<1>3. S = Nat
  <2> HIDE DEF S
  <2>1. S \subseteq Nat
    BY DEF S
  <2> QED
    BY <1>1, <1>2, <2>1, Induction
<1> QED
  BY <1>3

LEMMA StepsUnique ==
  ASSUME NEW x, NEW n \in Nat, NEW m \in Nat, NEW h, NEW g,
         Steps(x, n, h), Steps(x, m, g), n <= m
  PROVE  h[n] = g[n]
<1> DEFINE S == {i \in Nat : i <= n => h[i] = g[i]}
<1>1. /\ \A i \in 0..n : h[i] = Step(x, h, i)
      /\ \A i \in 0..n : g[i] = Step(x, g, i)
  BY DEF Steps
<1>2. 0 \in S
  BY <1>1, StepBefore
<1>3. ASSUME NEW i \in S PROVE i + 1 \in S
  <2>1. SUFFICES ASSUME i + 1 <= n PROVE h[i + 1] = g[i + 1]
    OBVIOUS
  <2>2. i + 1 \in 0..n /\ (i + 1) - 1 = i /\ h[i] = g[i]
    BY <2>1
  <2>3. Step(x, h, i + 1) = Step(x, g, i + 1)
    BY <2>2, StepBefore
  <2> QED
    BY <1>1, <2>2, <2>3
<1>4. S = Nat
  <2> HIDE DEF S
  <2>1. S \subseteq Nat
    BY DEF S
  <2> QED
    BY <1>2, <1>3, <2>1, Induction
<1> QED
  BY <1>4

LEMMA RecursionExists ==
  ASSUME NEW x PROVE \E k : k = [m \in Nat |-> Step(x, k, m)]
<1> DEFINE To(m) == CHOOSE g : Steps(x, m, g)
           k == [m \in Nat |-> To(m)[m]]
<1>1. \A m \in Nat : Steps(x, m, To(m))
  BY StepsExist
<1>2. ASSUME NEW m \in Nat PROVE k[m] = Step(x, k, m)
  <2>1. k[m] = Step(x, To(m), m)
    BY <1>1 DEF Steps
  <2>2. m # 0 => To(m)[m - 1] = To(m - 1)[m - 1]
    <3>1. SUFFICES ASSUME m # 0 PROVE To(m)[m - 1] = To(m - 1)[m - 1]
      OBVIOUS
    <3>2. m - 1 \in Nat /\ m - 1 <= m
      BY <3>1
    <3>3. Steps(x, m, To(m)) /\ Steps(x, m - 1, To(m - 1))
      BY <1>1, <3>2
    <3> HIDE DEF To
    <3> QED
      BY <3>2, <3>3, StepsUnique
  <2>3. m # 0 => k[m - 1] = To(m - 1)[m - 1]
    <3> HIDE DEF To
    <3> QED
      OBVIOUS
  <2> HIDE DEF k, To
  <2>4. Step(x, To(m), m) = Step(x, k, m)
    BY <2>2, <2>3, StepBefore
  <2> QED
    BY <2>1, <2>4
<1>3. k = [m \in Nat |-> Step(x, k, m)]
  BY <1>2
<1> HIDE DEF k
<1> QED
  BY <1>3, Zenon

(* What is n + 1 levels down is a part of what is n levels down.           *)
LEMMA Levels ==
  ASSUME NEW v
  PROVE  /\ T!Within(v)[0] = {v}
         /\ \A n \in Nat : T!Within(v)[n + 1] = UNION {T!Parts(w) : w \in T!Within(v)[n]}
<1> DEFINE level == CHOOSE f : f = [m \in Nat |-> WithinStep(v, f, m)]
<1>1. PICK k : k = [m \in Nat |-> Step(<<"within", v>>, k, m)]
  BY RecursionExists
<1>2. k = [m \in Nat |-> WithinStep(v, k, m)]
  <2>1. \A m : Step(<<"within", v>>, k, m) = WithinStep(v, k, m)
    BY DEF Step
  <2> DEFINE a == [m \in Nat |-> Step(<<"within", v>>, k, m)]
             b == [m \in Nat |-> WithinStep(v, k, m)]
  <2>2. a = b
    BY <2>1
  <2> QED
    BY <1>1, <2>2, Zenon
<1>3. level = [m \in Nat |-> WithinStep(v, level, m)]
  BY <1>2, Zenon
<1>4. T!Within(v) = level
  BY Zenon DEF T!Within, WithinStep
<1> HIDE DEF level
<1>5. \A m \in Nat : level[m] = WithinStep(v, level, m)
  <2> DEFINE c == [m \in Nat |-> WithinStep(v, level, m)]
  <2>1. \A m \in Nat : c[m] = WithinStep(v, level, m)
    OBVIOUS
  <2>2. level = c
    BY <1>3, Zenon
  <2> HIDE DEF c
  <2> QED
    BY <2>1, <2>2
<1>6. level[0] = {v}
  BY <1>5 DEF WithinStep
<1>7. ASSUME NEW n \in Nat
      PROVE  level[n + 1] = UNION {T!Parts(w) : w \in level[n]}
  <2>1. n + 1 \in Nat /\ n + 1 # 0 /\ (n + 1) - 1 = n
    OBVIOUS
  <2> QED
    BY <1>5, <2>1 DEF WithinStep
<1> QED
  BY <1>4, <1>6, <1>7

(* Cleaning is by depth: the values of the parts, one level less deep.     *)
CleanedTo == CHOOSE f : f = [n \in Nat |-> CleanStep(f, n)]

LEMMA CleaningByDepth ==
  /\ T!Cleanings = CleanedTo[Depth]
  /\ \A v \in Values : CleanedTo[0][v] = {}
  /\ \A n \in Nat : \A v \in Values :
       CleanedTo[n + 1][v] = T!CleanedBy(CleanedTo[n], v)
<1>1. PICK k : k = [m \in Nat |-> Step(<<"clean", "clean">>, k, m)]
  BY RecursionExists
<1>2. k = [m \in Nat |-> CleanStep(k, m)]
  <2>1. \A m : Step(<<"clean", "clean">>, k, m) = CleanStep(k, m)
    BY DEF Step
  <2> DEFINE a == [m \in Nat |-> Step(<<"clean", "clean">>, k, m)]
             b == [m \in Nat |-> CleanStep(k, m)]
  <2>2. a = b
    BY <2>1
  <2> QED
    BY <1>1, <2>2, Zenon
<1>3. CleanedTo = [m \in Nat |-> CleanStep(CleanedTo, m)]
  BY <1>2, Zenon DEF CleanedTo
<1>4. T!Cleanings = CleanedTo[Depth]
  BY Zenon DEF T!Cleanings, CleanedTo, CleanStep
<1>5. \A m \in Nat : CleanedTo[m] = CleanStep(CleanedTo, m)
  <2> DEFINE c == [m \in Nat |-> CleanStep(CleanedTo, m)]
  <2>1. \A m \in Nat : c[m] = CleanStep(CleanedTo, m)
    OBVIOUS
  <2>2. CleanedTo = c
    BY <1>3, Zenon
  <2> HIDE DEF c
  <2> QED
    BY <2>1, <2>2
<1>6. \A v \in Values : CleanedTo[0][v] = {}
  BY <1>5 DEF CleanStep
<1>7. ASSUME NEW n \in Nat, NEW v \in Values
      PROVE  CleanedTo[n + 1][v] = T!CleanedBy(CleanedTo[n], v)
  <2>1. n + 1 \in Nat /\ n + 1 # 0 /\ (n + 1) - 1 = n
    OBVIOUS
  <2>2. CleanedTo[n + 1] = CleanStep(CleanedTo, n + 1)
    BY <1>5, <2>1
  <2>3. CleanStep(CleanedTo, n + 1)[v] = T!CleanedBy(CleanedTo[(n + 1) - 1], v)
    BY <2>1 DEF CleanStep
  <2> QED
    BY <2>1, <2>2, <2>3
<1> QED
  BY <1>4, <1>6, <1>7

-----------------------------------------------------------------------------
(* A value is clean at every depth if it is in a set of clean values that  *)
(* has their parts.                                                        *)
Closed(C) == \A x \in C : T!CleanHere(x) /\ T!Parts(x) \subseteq C
Sound(v) == \E C : v \in C /\ Closed(C)

LEMMA SoundParts ==
  ASSUME NEW v, Sound(v)
  PROVE  T!CleanHere(v) /\ \A x \in T!Parts(v) : Sound(x)
BY DEF Sound, Closed

LEMMA SoundWhole ==
  ASSUME NEW v, T!CleanHere(v), \A x \in T!Parts(v) : Sound(x)
  PROVE  Sound(v)
<1> DEFINE Of(x) == CHOOSE C : x \in C /\ Closed(C)
           whole == {v} \union UNION {Of(x) : x \in T!Parts(v)}
<1>1. \A x \in T!Parts(v) : x \in Of(x) /\ Closed(Of(x))
  BY DEF Sound
<1> HIDE DEF Of
<1>2. Closed(whole)
  BY <1>1 DEF Closed
<1> QED
  BY <1>2 DEF Sound

LEMMA SoundWithin ==
  ASSUME NEW v, Sound(v)
  PROVE  \A n \in Nat : \A x \in T!Within(v)[n] : T!CleanHere(x)
<1> DEFINE S == {n \in Nat : \A x \in T!Within(v)[n] : Sound(x)}
<1>1. 0 \in S
  BY Levels
<1>2. ASSUME NEW n \in S PROVE n + 1 \in S
  <2>1. T!Within(v)[n + 1] = UNION {T!Parts(w) : w \in T!Within(v)[n]}
    BY Levels
  <2> QED
    BY <2>1, SoundParts
<1>3. S = Nat
  <2> HIDE DEF S
  <2>1. S \subseteq Nat
    BY DEF S
  <2> QED
    BY <1>1, <1>2, <2>1, Induction
<1> QED
  BY <1>3, SoundParts

-----------------------------------------------------------------------------
(* The parts of each kind of value.                                        *)
LEMMA Kinds ==
  ASSUME NEW x
  PROVE  /\ T!Atom(x)[1] = "atom" /\ T!Atom(x)[2] = x
         /\ T!Map(x)[1] = "map" /\ T!Map(x)[2] = x
         /\ T!List(x)[1] = "list" /\ T!List(x)[2] = x
         /\ T!Parts(T!Atom(x)) = {}
         /\ T!Parts(T!Map(x)) = {x[k] : k \in DOMAIN x}
         /\ T!Parts(T!List(x)) = {x[k] : k \in DOMAIN x}
BY DEF T!Atom, T!Map, T!List, T!Parts

LEMMA AtomSound ==
  ASSUME NEW x PROVE Sound(T!Atom(x))
<1>1. T!CleanHere(T!Atom(x))
  BY Kinds DEF T!CleanHere
<1> QED
  BY <1>1, Kinds, SoundWhole

(* A reference is an atom under its key.                                   *)
LEMMA Reference ==
  ASSUME NEW v, NEW w, v[1] = "map", w[1] = "map"
  PROVE  /\ T!Referenced(w) => "$ref" \in DOMAIN w[2] /\ w[2]["$ref"][1] = "atom"
         /\ /\ "$ref" \in DOMAIN v[2] /\ v[2]["$ref"] = w[2]["$ref"]
            /\ T!Referenced(w)
            => T!Referenced(v)
BY Zenon DEF T!Referenced, T!Has

Bad == T!Dropped \union T!Combinators

(* The entries of a map that is clean but perhaps for its type.            *)
Neat(f) ==
  /\ DOMAIN f \intersect Bad = {}
  /\ ~T!Referenced(T!Map(f))
  /\ \A k \in DOMAIN f : Sound(f[k])

LEMMA NeatSound ==
  ASSUME NEW f, Neat(f), ~T!IsType(T!Map(f), "file")
  PROVE  Sound(T!Map(f))
<1>1. T!CleanHere(T!Map(f))
  BY Kinds DEF T!CleanHere, Neat, Bad
<1> QED
  BY <1>1, Kinds, SoundWhole DEF Neat

LEMMA SoundNeat ==
  ASSUME NEW f, Sound(T!Map(f))
  PROVE  Neat(f) /\ ~T!IsType(T!Map(f), "file")
<1>1. T!CleanHere(T!Map(f)) /\ \A x \in T!Parts(T!Map(f)) : Sound(x)
  BY SoundParts
<1> QED
  BY <1>1, Kinds DEF T!CleanHere, Neat, Bad

LEMMA WithNeat ==
  ASSUME NEW f, Neat(f), NEW k, k \notin Bad, k # "$ref", NEW x, Sound(x)
  PROVE  /\ Neat(T!With(f, k, x))
         /\ k \in DOMAIN T!With(f, k, x) /\ T!With(f, k, x)[k] = x
         /\ \A j : j # k => /\ j \in DOMAIN T!With(f, k, x) <=> j \in DOMAIN f
                            /\ j \in DOMAIN f => T!With(f, k, x)[j] = f[j]
<1> DEFINE g == T!With(f, k, x)
<1>1. /\ DOMAIN g = DOMAIN f \union {k} /\ g[k] = x
      /\ \A j \in DOMAIN f : j # k => g[j] = f[j]
  BY DEF T!With
<1> HIDE DEF g
<1>2. ~T!Referenced(T!Map(g))
  <2>1. ASSUME T!Referenced(T!Map(g)) PROVE FALSE
    <3>1. "$ref" \in DOMAIN g
      BY <2>1, Kinds, Reference
    <3>2. "$ref" \in DOMAIN f /\ f["$ref"] = g["$ref"]
      BY <1>1, <3>1
    <3>3. T!Referenced(T!Map(f))
      BY <2>1, <3>2, Kinds, Reference
    <3> QED
      BY <3>3 DEF Neat
  <2> QED
    BY <2>1
<1>3. Neat(g)
  BY <1>1, <1>2 DEF Neat
<1> QED
  BY <1>1, <1>3 DEF g

(* What Unfiled does to a map: no type "file" is left.                     *)
LEMMA UnfiledSound ==
  ASSUME NEW f, Neat(f) PROVE Sound(T!Map(T!Unfiled(f)))
<1>1. CASE f # <<>> /\ T!IsType(T!Map(f), "file")
  <2> DEFINE g == T!With(f, "type", T!Atom("string"))
             d == T!Atom("file content or path")
  <2>0. {"type", "description"} \intersect Bad = {}
    BY DEF Bad, T!Dropped, T!Combinators
  <2>1. Neat(g) /\ "type" \in DOMAIN g /\ g["type"] = T!Atom("string")
    BY <2>0, AtomSound, WithNeat
  <2>2. /\ Neat(T!With(g, "description", d))
        /\ T!With(g, "description", d)["type"] = T!Atom("string")
    <3> HIDE DEF g
    <3>1. "type" # "description" /\ "description" # "$ref" /\ Sound(d)
      BY AtomSound
    <3> HIDE DEF d
    <3> QED
      BY <2>0, <2>1, <3>1, WithNeat
  <2>3. T!Atom("string") # T!Atom("file")
    BY DEF T!Atom
  <2>4. T!Unfiled(f) \in {g, T!With(g, "description", d)}
    BY <1>1 DEF T!Unfiled, T!WithDefault
  <2> HIDE DEF g, d
  <2>5. Neat(T!Unfiled(f)) /\ T!Unfiled(f)["type"] = T!Atom("string")
    BY <2>1, <2>2, <2>4
  <2>6. ~T!IsType(T!Map(T!Unfiled(f)), "file")
    BY <2>3, <2>5, Kinds DEF T!IsType
  <2> QED
    BY <2>5, <2>6, NeatSound
<1>2. CASE f = <<>>
  <2>1. T!Unfiled(f) = f
    BY <1>2 DEF T!Unfiled
  <2>2. ~T!IsType(T!Map(f), "file")
    BY <1>2, Kinds DEF T!IsType, T!Has
  <2> QED
    BY <2>1, <2>2, NeatSound
<1>3. CASE ~T!IsType(T!Map(f), "file")
  <2>1. T!Unfiled(f) = f
    BY <1>3 DEF T!Unfiled
  <2> QED
    BY <2>1, <1>3, NeatSound
<1> QED
  BY <1>1, <1>2, <1>3

(* What c has cleaned: an atom stays, and what it was stays a map or list. *)
Cleans(c) ==
  \A v \in Values : \A w \in c[v] :
    w[1] = v[1] /\ Sound(w) /\ (v[1] = "atom" => w = v)

(* Of a list of options the first of a kind is there.                      *)
LEMMA Least ==
  ASSUME NEW I \in SUBSET Nat, I # {}
  PROVE  (CHOOSE i \in I : \A j \in I : i <= j) \in I
<1>1. IsWellFoundedOn(Below, Nat)
  BY NatLessThanWellFounded DEF OpToRel, Below
<1>2. PICK n \in I : \A m \in I : ~(<<m, n>> \in Below)
  BY <1>1, WFMin
<1>3. \A m \in I : n <= m
  <2>1. SUFFICES ASSUME NEW m \in I, ~(n <= m) PROVE FALSE
    OBVIOUS
  <2>2. <<m, n>> \in Nat \X Nat /\ m < n
    BY <2>1
  <2> QED
    BY <1>2, <2>2 DEF Below
<1> QED
  BY <1>2, <1>3

LEMMA OptionIsMap ==
  ASSUME T!ToolAssumption, NEW v \in Values, T!HasOption(v)
  PROVE  /\ T!Option(v[2]) \in Values /\ T!Option(v[2])[1] = "map"
         /\ T!Option(v[2]) \in T!Parts(v)
<1> DEFINE s == v[2]
           all == {i \in DOMAIN s : s[i][1] = "map"}
           ofType(t) == {i \in all : T!IsType(s[i], t)}
           least(I) == s[CHOOSE i \in I : \A j \in I : i <= j]
<1>1. v[1] = "list" /\ \E i \in DOMAIN s : s[i][1] = "map"
  BY DEF T!HasOption
<1>2. s \in Seq(Values)
  BY <1>1 DEF T!ToolAssumption
<1>3. /\ DOMAIN s \in SUBSET Nat
      /\ \A i \in DOMAIN s : s[i] \in Values /\ s[i] \in T!Parts(v)
  BY <1>1, <1>2 DEF T!Parts
<1>4. all # {} /\ all \in SUBSET Nat
  BY <1>1, <1>3
<1>5. ASSUME NEW I \in SUBSET all, I # {}
      PROVE  /\ least(I) \in Values /\ least(I)[1] = "map"
             /\ least(I) \in T!Parts(v)
  <2>1. (CHOOSE i \in I : \A j \in I : i <= j) \in I
    BY <1>4, <1>5, Least
  <2> QED
    BY <1>3, <2>1
<1>6. CASE ofType("string") # {}
  <2>1. T!Option(s) = least(ofType("string"))
    BY <1>6, Zenon DEF T!Option
  <2> QED
    BY <1>5, <1>6, <2>1
<1>7. CASE ofType("string") = {} /\ ofType("array") # {}
  <2>1. T!Option(s) = least(ofType("array"))
    BY <1>7, Zenon DEF T!Option
  <2> QED
    BY <1>5, <1>7, <2>1
<1>8. CASE ofType("string") = {} /\ ofType("array") = {}
  <2>1. T!Option(s) = least(all)
    BY <1>8, Zenon DEF T!Option
  <2>2. all \in SUBSET all
    OBVIOUS
  <2>3. /\ least(all) \in Values /\ least(all)[1] = "map"
        /\ least(all) \in T!Parts(v)
    <3> HIDE DEF all, least
    <3> QED
      BY <1>4, <1>5, <2>2
  <2> QED
    BY <2>1, <2>3
<1> QED
  BY <1>6, <1>7, <1>8

(* What the cleaning of a combinator leaves is a clean map.                *)
LEMMA SimplifiedNeat ==
  ASSUME T!ToolAssumption, NEW c, Cleans(c),
         NEW v \in Values, v[1] = "map", NEW s \in T!Simplified(c, v[2])
  PROVE  Neat(s[2])
<1> DEFINE f == v[2]
<1>1. CASE T!OptionsOf(f) = {}
  <2>1. s[2] = <<>>
    BY <1>1, Kinds DEF T!Simplified
  <2>2. ~T!Referenced(T!Map(<<>>))
    BY Kinds, Reference
  <2> QED
    BY <2>1, <2>2 DEF Neat
<1>2. CASE T!OptionsOf(f) # {}
  <2> DEFINE k == CHOOSE k \in T!OptionsOf(f) : TRUE
             o == T!Option(T!Combined(f))
  <2>1. k \in DOMAIN f /\ T!HasOption(f[k])
    BY <1>2 DEF T!OptionsOf
  <2>2. f[k] \in Values
    <3>1. \A j \in DOMAIN v[2] : v[2][j] \in Values
      BY DEF T!ToolAssumption, T!Parts
    <3> HIDE DEF k
    <3> QED
      BY <2>1, <3>1
  <2>3. T!Combined(f) = f[k][2]
    BY Zenon DEF T!Combined
  <2> HIDE DEF k, f
  <2>4. o \in Values /\ o[1] = "map"
    BY <2>1, <2>2, <2>3, OptionIsMap
  <2>5. s \in c[o]
    BY <1>2 DEF T!Simplified, f
  <2>6. s[1] = "map" /\ Sound(s)
    BY <2>4, <2>5 DEF Cleans
  <2>7. T!CleanHere(s) /\ \A x \in T!Parts(s) : Sound(x)
    BY <2>6, SoundParts
  <2>8. ~T!Referenced(T!Map(s[2]))
    BY <2>6, <2>7, Kinds, Reference DEF T!CleanHere
  <2> QED
    BY <2>6, <2>7, <2>8 DEF Neat, Bad, T!CleanHere, T!Parts
<1> QED
  BY <1>1, <1>2

(* The cleaning of a map.  A reference that is left would be an atom that  *)
(* the map or the option had under the same key.                           *)
LEMMA CleanMapsSound ==
  ASSUME T!ToolAssumption, NEW c, Cleans(c),
         NEW v \in Values, v[1] = "map", ~T!Referenced(v),
         NEW w \in T!CleanMaps(c, v[2])
  PROVE  w[1] = "map" /\ Sound(w)
<1> DEFINE f == v[2]
           own == DOMAIN f \ Bad
           from(o, k) == (IF k \in own THEN c[f[k]] ELSE {})
                           \union (IF k \in DOMAIN o THEN {o[k]} ELSE {})
<1>1. PICK s \in T!Simplified(c, f) :
        \E g \in T!Choices(own \union DOMAIN s[2], LAMBDA k : from(s[2], k)) :
          w = T!Map(T!Unfiled(g))
  BY Zenon DEF T!CleanMaps, Bad
<1>2. PICK g : /\ DOMAIN g = own \union DOMAIN s[2]
               /\ \A k \in own \union DOMAIN s[2] : g[k] \in from(s[2], k)
               /\ w = T!Map(T!Unfiled(g))
  BY <1>1 DEF T!Choices
<1>3. Neat(s[2])
  BY SimplifiedNeat
<1>4. \A k \in own : f[k] \in Values
  BY DEF T!ToolAssumption, T!Parts
<1>5. \A k \in DOMAIN g : \/ k \in own /\ g[k] \in c[f[k]]
                          \/ k \in DOMAIN s[2] /\ g[k] = s[2][k]
  BY <1>2
<1>6. DOMAIN g \intersect Bad = {}
  BY <1>2, <1>3 DEF Neat
<1>7. \A k \in DOMAIN g : Sound(g[k])
  BY <1>3, <1>4, <1>5 DEF Neat, Cleans
<1>8. ASSUME T!Referenced(T!Map(g)) PROVE FALSE
  <2>1. "$ref" \in DOMAIN g /\ g["$ref"][1] = "atom"
    BY <1>8, Kinds, Reference
  <2>2. CASE "$ref" \in own /\ g["$ref"] \in c[f["$ref"]]
    <3>1. g["$ref"] = f["$ref"]
      BY <1>4, <2>1, <2>2 DEF Cleans
    <3> QED
      BY <1>8, <2>2, <3>1, Kinds, Reference
  <2>3. CASE "$ref" \in DOMAIN s[2] /\ g["$ref"] = s[2]["$ref"]
    BY <1>3, <1>8, <2>3, Kinds, Reference DEF Neat
  <2> QED
    BY <1>5, <2>1, <2>2, <2>3
<1>9. Neat(g)
  BY <1>6, <1>7, <1>8 DEF Neat
<1> QED
  BY <1>2, <1>9, Kinds, UnfiledSound

(* One level of cleaning.                                                  *)
LEMMA CleanedBySound ==
  ASSUME T!ToolAssumption, NEW c, Cleans(c), NEW v \in Values, NEW w \in T!CleanedBy(c, v)
  PROVE  w[1] = v[1] /\ Sound(w) /\ (v[1] = "atom" => w = v)
<1>1. CASE v[1] = "atom"
  <2>1. w = v
    BY <1>1, Zenon DEF T!CleanedBy
  <2>2. T!CleanHere(v) /\ T!Parts(v) = {}
    BY <1>1 DEF T!CleanHere, T!Parts
  <2> QED
    BY <2>1, <2>2, SoundWhole
<1>2. CASE v[1] = "list"
  <2>1. PICK s \in T!Choices(DOMAIN v[2], LAMBDA i : c[v[2][i]]) : w = T!List(s)
    BY <1>2 DEF T!CleanedBy
  <2>2. DOMAIN s = DOMAIN v[2] /\ \A i \in DOMAIN s : s[i] \in c[v[2][i]]
    BY <2>1 DEF T!Choices
  <2>3. \A i \in DOMAIN s : v[2][i] \in Values
    BY <1>2, <2>2 DEF T!ToolAssumption
  <2>4. \A i \in DOMAIN s : Sound(s[i])
    BY <2>2, <2>3 DEF Cleans
  <2>5. T!CleanHere(w) /\ \A x \in T!Parts(w) : Sound(x)
    BY <2>1, <2>4, Kinds DEF T!CleanHere
  <2> QED
    BY <1>2, <2>1, <2>5, Kinds, SoundWhole
<1>3. CASE v[1] = "map" /\ T!Referenced(v)
  <2> DEFINE a == T!Atom("object")
             b == T!Atom("referenced object")
             f == [type |-> a, description |-> b]
  <2>1. w = T!Map(f)
    BY <1>3, Zenon DEF T!CleanedBy, T!RefObject
  <2>2. DOMAIN f = {"type", "description"} /\ \A k \in DOMAIN f : Sound(f[k])
    <3>1. Sound(a) /\ Sound(b)
      BY AtomSound
    <3> HIDE DEF a, b
    <3>2. DOMAIN f = {"type", "description"} /\ f["type"] = a /\ f["description"] = b
      OBVIOUS
    <3> HIDE DEF f
    <3> QED
      BY <3>1, <3>2
  <2>3. f["type"] = T!Atom("object") /\ T!Atom("object") # T!Atom("file")
    BY DEF T!Atom
  <2> HIDE DEF f
  <2>4. ~T!Referenced(T!Map(f)) /\ ~T!IsType(T!Map(f), "file")
    BY <2>2, <2>3, Kinds, Reference DEF T!IsType
  <2>5. Neat(f)
    BY <2>2, <2>4 DEF Neat, Bad, T!Dropped, T!Combinators
  <2> QED
    BY <1>3, <2>1, <2>4, <2>5, Kinds, NeatSound
<1>4. CASE v[1] = "map" /\ ~T!Referenced(v)
  <2>1. w \in T!CleanMaps(c, v[2])
    BY <1>4, Zenon DEF T!CleanedBy
  <2> QED
    BY <1>4, <2>1, CleanMapsSound
<1> QED
  BY <1>1, <1>2, <1>3, <1>4 DEF T!ToolAssumption

LEMMA CleaningsSound ==
  ASSUME T!ToolAssumption PROVE Cleans(T!Cleanings)
<1> DEFINE S == {n \in Nat : Cleans(CleanedTo[n])}
<1>1. 0 \in S
  BY CleaningByDepth DEF Cleans
<1>2. ASSUME NEW n \in S PROVE n + 1 \in S
  <2>1. \A v \in Values : CleanedTo[n + 1][v] = T!CleanedBy(CleanedTo[n], v)
    BY CleaningByDepth
  <2>2. Cleans(CleanedTo[n])
    OBVIOUS
  <2>3. Cleans(CleanedTo[n + 1])
    BY <2>1, <2>2, CleanedBySound DEF Cleans
  <2> QED
    BY <2>3
<1>3. S = Nat
  <2> HIDE DEF S
  <2>1. S \subseteq Nat
    BY DEF S
  <2> QED
    BY <1>1, <1>2, <2>1, Induction
<1> QED
  BY <1>3, CleaningByDepth DEF T!ToolAssumption

(* The bound on the depth is no limit: what is less deep is cleaned.       *)
LEMMA WithinPart ==
  ASSUME NEW v, NEW x \in T!Parts(v)
  PROVE  \A n \in Nat : T!Within(x)[n] \subseteq T!Within(v)[n + 1]
<1> DEFINE S == {n \in Nat : T!Within(x)[n] \subseteq T!Within(v)[n + 1]}
<1>1. 0 \in S
  <2>1. T!Within(v)[0 + 1] = UNION {T!Parts(w) : w \in T!Within(v)[0]}
    BY Levels
  <2>2. T!Within(v)[0] = {v} /\ T!Within(x)[0] = {x}
    BY Levels
  <2> QED
    BY <2>1, <2>2
<1>2. ASSUME NEW n \in S PROVE n + 1 \in S
  <2>1. /\ T!Within(x)[n + 1] = UNION {T!Parts(w) : w \in T!Within(x)[n]}
        /\ T!Within(v)[(n + 1) + 1] = UNION {T!Parts(w) : w \in T!Within(v)[n + 1]}
    BY Levels
  <2> QED
    BY <2>1
<1>3. S = Nat
  <2> HIDE DEF S
  <2>1. S \subseteq Nat
    BY DEF S
  <2> QED
    BY <1>1, <1>2, <2>1, Induction
<1> QED
  BY <1>3

LEMMA CleanedBySome ==
  ASSUME T!ToolAssumption, NEW c, NEW v \in Values,
         \A x \in T!Parts(v) \union UNION {T!Parts(y) : y \in T!Parts(v)} :
           x \in Values => c[x] # {}
  PROVE  T!CleanedBy(c, v) # {}
<1> DEFINE f == v[2]
           one(x) == CHOOSE y \in c[x] : TRUE
<1>1. CASE v[1] = "atom" \/ (v[1] = "map" /\ T!Referenced(v))
  <2>1. T!CleanedBy(c, v) \in {{v}, {T!RefObject}}
    BY <1>1, Zenon DEF T!CleanedBy
  <2> QED
    BY <2>1
<1>2. ASSUME v[1] # "atom", NEW k \in DOMAIN f
      PROVE  f[k] \in T!Parts(v) /\ f[k] \in Values /\ one(f[k]) \in c[f[k]]
  <2>1. f[k] \in T!Parts(v) /\ f[k] \in Values
    BY <1>2 DEF T!ToolAssumption, T!Parts
  <2> QED
    BY <2>1
<1> HIDE DEF one
<1>3. CASE v[1] = "list"
  <2> DEFINE s == [i \in DOMAIN f |-> one(f[i])]
  <2>1. s \in T!Choices(DOMAIN f, LAMBDA i : c[f[i]])
    BY <1>2, <1>3 DEF T!Choices
  <2> HIDE DEF s
  <2>2. T!List(s) \in T!CleanedBy(c, v)
    BY <1>3, <2>1 DEF T!CleanedBy
  <2> QED
    BY <2>2
<1>4. CASE v[1] = "map" /\ ~T!Referenced(v)
  <2>1. T!Simplified(c, f) # {}
    <3>1. CASE T!OptionsOf(f) = {}
      BY <3>1 DEF T!Simplified
    <3>2. CASE T!OptionsOf(f) # {}
      <4> DEFINE k == CHOOSE k \in T!OptionsOf(f) : TRUE
      <4>1. k \in DOMAIN f /\ T!HasOption(f[k])
        BY <3>2 DEF T!OptionsOf
      <4>2. T!Combined(f) = f[k][2]
        BY Zenon DEF T!Combined
      <4> HIDE DEF k, f
      <4>3. f[k] \in T!Parts(v) /\ f[k] \in Values
        BY <1>2, <1>4, <4>1
      <4>4. /\ T!Option(f[k][2]) \in Values
            /\ T!Option(f[k][2]) \in T!Parts(f[k])
        BY <4>1, <4>3, OptionIsMap
      <4>5. T!Simplified(c, f) = c[T!Option(T!Combined(f))]
        BY <3>2 DEF T!Simplified
      <4> QED
        BY <4>2, <4>3, <4>4, <4>5
    <3> QED
      BY <3>1, <3>2
  <2>2. PICK s \in T!Simplified(c, f) : TRUE
    BY <2>1
  <2> DEFINE own == DOMAIN f \ Bad
             from(o, k) == (IF k \in own THEN c[f[k]] ELSE {})
                             \union (IF k \in DOMAIN o THEN {o[k]} ELSE {})
             all == own \union DOMAIN s[2]
             g == [k \in all |-> IF k \in own THEN one(f[k]) ELSE s[2][k]]
  <2>3. \A k \in all : g[k] \in from(s[2], k)
    BY <1>2, <1>4
  <2>4. g \in T!Choices(all, LAMBDA k : from(s[2], k))
    <3> HIDE DEF from
    <3> QED
      BY <2>3 DEF T!Choices
  <2>5. T!Map(T!Unfiled(g)) \in T!CleanMaps(c, f)
    <3> DEFINE of(t) == {T!Map(T!Unfiled(h)) :
                  h \in T!Choices(own \union DOMAIN t[2], LAMBDA k : from(t[2], k))}
    <3>1. T!CleanMaps(c, f) = UNION {of(t) : t \in T!Simplified(c, f)}
      BY Zenon DEF T!CleanMaps, Bad
    <3> HIDE DEF g
    <3>2. T!Map(T!Unfiled(g)) \in of(s)
      BY <2>4
    <3> HIDE DEF of
    <3> QED
      BY <2>2, <3>1, <3>2
  <2>6. T!CleanedBy(c, v) = T!CleanMaps(c, f)
    BY <1>4, Zenon DEF T!CleanedBy
  <2> QED
    BY <2>5, <2>6
<1> QED
  BY <1>1, <1>3, <1>4 DEF T!ToolAssumption

LEMMA DeepEnough ==
  ASSUME T!ToolAssumption, T!DepthAssumption, NEW v \in Schemas
  PROVE  T!InputSchemas(v) # {}
<1> DEFINE S == {n \in Nat : \A x \in Values :
                   T!Within(x)[n] = {} => CleanedTo[n][x] # {}}
<1>1. 0 \in S
  BY Levels
<1>2. ASSUME NEW n \in S PROVE n + 1 \in S
  <2>1. SUFFICES ASSUME NEW x \in Values, T!Within(x)[n + 1] = {}
                 PROVE  CleanedTo[n + 1][x] # {}
    OBVIOUS
  <2>2. \A y \in T!Parts(x) : T!Within(y)[n] = {}
    BY <2>1, WithinPart
  <2>3. \A y \in T!Parts(x) : T!Within(y)[n + 1] = {}
    BY <2>2, Levels
  <2>4. \A y \in T!Parts(x) : \A z \in T!Parts(y) : T!Within(z)[n] = {}
    BY <2>3, WithinPart
  <2>5. T!CleanedBy(CleanedTo[n], x) # {}
    BY <2>2, <2>4, CleanedBySome
  <2> QED
    BY <2>5, CleaningByDepth
<1>3. S = Nat
  <2> HIDE DEF S
  <2>1. S \subseteq Nat
    BY DEF S
  <2> QED
    BY <1>1, <1>2, <2>1, Induction
<1>4. T!Cleanings[v] # {}
  <2>1. Depth \in S /\ v \in Values /\ T!Within(v)[Depth] = {}
    BY <1>3 DEF T!ToolAssumption, T!DepthAssumption
  <2> QED
    BY <2>1, CleaningByDepth
<1> QED
  BY <1>4 DEF T!InputSchemas

(* The schema that the tool shows.                                         *)
LEMMA ShownSound ==
  ASSUME T!ToolAssumption, NEW v \in Schemas, NEW w \in T!InputSchemas(v)
  PROVE  Sound(w)
<1> DEFINE to == T!Atom("object")
<1>1. v \in Values /\ v[1] = "map"
  BY DEF T!ToolAssumption
<1>2. PICK x \in T!Cleanings[v] :
        w = T!Map(T!WithDefault(T!WithDefault(x[2], "type", to),
                                "properties", T!Map(<<>>)))
  BY DEF T!InputSchemas
<1>3. x[1] = "map" /\ Sound(x)
  BY <1>1, <1>2, CleaningsSound DEF Cleans
<1>4. Neat(x[2]) /\ ~T!IsType(T!Map(x[2]), "file")
  <2>1. T!CleanHere(x) /\ \A y \in T!Parts(x) : Sound(y)
    BY <1>3, SoundParts
  <2>2. ~T!Referenced(T!Map(x[2]))
    BY <1>3, <2>1, Kinds, Reference DEF T!CleanHere
  <2> QED
    BY <1>3, <2>1, <2>2, Kinds DEF Neat, Bad, T!CleanHere, T!Parts, T!IsType, T!Has
<1>5. {"type", "properties"} \intersect Bad = {} /\ Sound(to)
  BY AtomSound DEF Bad, T!Dropped, T!Combinators
<1>6. Sound(T!Map(<<>>))
  <2>1. ~T!Referenced(T!Map(<<>>)) /\ ~T!IsType(T!Map(<<>>), "file")
    BY Kinds, Reference DEF T!IsType, T!Has
  <2> QED
    BY <2>1, NeatSound DEF Neat
<1> DEFINE f == T!WithDefault(x[2], "type", to)
           g == T!WithDefault(f, "properties", T!Map(<<>>))
<1>7. Neat(f) /\ ~T!IsType(T!Map(f), "file")
  <2>1. CASE "type" \in DOMAIN x[2]
    BY <1>4, <2>1 DEF T!WithDefault
  <2>2. CASE "type" \notin DOMAIN x[2]
    <3>1. f = T!With(x[2], "type", to)
      BY <2>2 DEF T!WithDefault
    <3>2. to # T!Atom("file")
      BY DEF T!Atom
    <3> HIDE DEF f, to
    <3>3. Neat(f) /\ f["type"] = to
      BY <1>4, <1>5, <3>1, WithNeat
    <3> QED
      BY <3>2, <3>3, Kinds DEF T!IsType
  <2> QED
    BY <2>1, <2>2
<1> HIDE DEF f
<1>8. Neat(g) /\ ~T!IsType(T!Map(g), "file")
  <2>1. CASE "properties" \in DOMAIN f
    BY <1>7, <2>1 DEF T!WithDefault
  <2>2. CASE "properties" \notin DOMAIN f
    <3>1. g = T!With(f, "properties", T!Map(<<>>))
      BY <2>2 DEF T!WithDefault
    <3>2. "type" # "properties" /\ "properties" # "$ref"
      OBVIOUS
    <3> HIDE DEF g
    <3>3. /\ Neat(g)
          /\ "type" \in DOMAIN g <=> "type" \in DOMAIN f
          /\ "type" \in DOMAIN f => g["type"] = f["type"]
      BY <1>5, <1>6, <1>7, <3>1, <3>2, WithNeat
    <3> QED
      BY <1>7, <3>3, Kinds DEF T!IsType, T!Has
  <2> QED
    BY <2>1, <2>2
<1> QED
  BY <1>2, <1>8, NeatSound DEF f

-----------------------------------------------------------------------------
(* What is shown requires what it declares.  As for Sound, at every depth  *)
(* if in a set that has the parts: a stored schema that is sane requires   *)
(* what it declares and has no combinators; of a shown one that is kept,   *)
(* all but what is dropped is declared.                                    *)
SaneIn(C) == \A x \in C : T!Consistent(x) /\ T!Parts(x) \subseteq C
Sane(v) == \E C : v \in C /\ SaneIn(C)
KeptIn(C) == \A x \in C : T!KeepsRequired(x) /\ T!Parts(x) \subseteq C
Kept(v) == \E C : v \in C /\ KeptIn(C)

LEMMA SaneParts ==
  ASSUME NEW v, Sane(v)
  PROVE  T!Consistent(v) /\ \A x \in T!Parts(v) : Sane(x)
BY DEF Sane, SaneIn

LEMMA SaneWithin ==
  ASSUME T!ToolAssumption, T!DepthAssumption, NEW v \in Schemas,
         \A n \in 0..Depth : \A x \in T!Within(v)[n] : T!Consistent(x)
  PROVE  Sane(v)
<1> DEFINE S == {n \in Nat : n >= Depth => T!Within(v)[n] = {}}
           all == UNION {T!Within(v)[n] : n \in Nat}
<1>0. Depth \in Nat /\ T!Within(v)[Depth] = {}
  BY DEF T!ToolAssumption, T!DepthAssumption
<1>1. 0 \in S
  BY <1>0
<1>2. ASSUME NEW n \in S PROVE n + 1 \in S
  <2>1. T!Within(v)[n + 1] = UNION {T!Parts(w) : w \in T!Within(v)[n]}
    BY Levels
  <2>2. CASE n >= Depth
    BY <2>1, <2>2
  <2>3. CASE ~(n >= Depth)
    <3>1. n + 1 >= Depth => n + 1 = Depth
      BY <1>0, <2>3
    <3> QED
      BY <1>0, <3>1
  <2> QED
    BY <2>2, <2>3
<1>3. S = Nat
  <2> HIDE DEF S
  <2>1. S \subseteq Nat
    BY DEF S
  <2> QED
    BY <1>1, <1>2, <2>1, Induction
<1>4. \A n \in Nat : \A x \in T!Within(v)[n] : T!Consistent(x)
  <2>1. SUFFICES ASSUME NEW n \in Nat, NEW x \in T!Within(v)[n]
                 PROVE  T!Consistent(x)
    OBVIOUS
  <2>2. ~(n >= Depth)
    BY <1>3, <2>1
  <2>3. n \in 0..Depth
    BY <1>0, <2>2
  <2> QED
    BY <2>3
<1>5. SaneIn(all)
  <2>1. SUFFICES ASSUME NEW n \in Nat, NEW x \in T!Within(v)[n]
                 PROVE  T!Consistent(x) /\ T!Parts(x) \subseteq all
    BY DEF SaneIn
  <2>2. T!Parts(x) \subseteq T!Within(v)[n + 1] /\ n + 1 \in Nat
    BY Levels
  <2> QED
    BY <1>4, <2>2
<1>6. v \in all
  BY Levels
<1> HIDE DEF all
<1> QED
  BY <1>5, <1>6 DEF Sane

LEMMA KeptParts ==
  ASSUME NEW v, Kept(v)
  PROVE  T!KeepsRequired(v) /\ \A x \in T!Parts(v) : Kept(x)
BY DEF Kept, KeptIn

LEMMA KeptWhole ==
  ASSUME NEW v, T!KeepsRequired(v), \A x \in T!Parts(v) : Kept(x)
  PROVE  Kept(v)
<1> DEFINE Of(x) == CHOOSE C : x \in C /\ KeptIn(C)
           whole == {v} \union UNION {Of(x) : x \in T!Parts(v)}
<1>1. \A x \in T!Parts(v) : x \in Of(x) /\ KeptIn(Of(x))
  BY DEF Kept
<1> HIDE DEF Of
<1>2. KeptIn(whole)
  BY <1>1 DEF KeptIn
<1> QED
  BY <1>2 DEF Kept

LEMMA KeptWithin ==
  ASSUME NEW v, Kept(v)
  PROVE  \A n \in Nat : \A x \in T!Within(v)[n] : T!KeepsRequired(x)
<1> DEFINE S == {n \in Nat : \A x \in T!Within(v)[n] : Kept(x)}
<1>1. 0 \in S
  BY Levels
<1>2. ASSUME NEW n \in S PROVE n + 1 \in S
  <2>1. T!Within(v)[n + 1] = UNION {T!Parts(w) : w \in T!Within(v)[n]}
    BY Levels
  <2> QED
    BY <2>1, KeptParts
<1>3. S = Nat
  <2> HIDE DEF S
  <2>1. S \subseteq Nat
    BY DEF S
  <2> QED
    BY <1>1, <1>2, <2>1, Induction
<1> QED
  BY <1>3, KeptParts

(* What has no list of required names requires nothing.                    *)
LEMMA RequiresNothing ==
  ASSUME NEW v, ~(v[1] = "map" /\ "required" \in DOMAIN v[2])
  PROVE  T!KeepsRequired(v)
BY DEF T!KeepsRequired, T!Required, T!Has

LEMMA AtomKept ==
  ASSUME NEW x PROVE Kept(T!Atom(x))
<1>1. T!KeepsRequired(T!Atom(x))
  BY Kinds, RequiresNothing
<1> QED
  BY <1>1, Kinds, KeptWhole

(* The names in the list "required" of one map, the keys of the properties *)
(* of another: what keeps both keeps what is required.                     *)
LEMMA KeptEntries ==
  ASSUME NEW v, NEW w, v[1] = "map", w[1] = "map",
         T!Required(w) \subseteq T!Required(v),
         T!Required(v) \subseteq T!Declared(v) \union {T!Atom(k) : k \in T!Dropped},
         T!Declared(v) \subseteq T!Declared(w) \union {T!Atom(k) : k \in T!Dropped},
         \A k \in DOMAIN w[2] : Kept(w[2][k])
  PROVE  Kept(w)
<1>1. T!KeepsRequired(w)
  BY DEF T!KeepsRequired
<1>2. \A x \in T!Parts(w) : Kept(x)
  BY DEF T!Parts
<1> QED
  BY <1>1, <1>2, KeptWhole

(* What c has kept: the keys of a map but for those dropped, the names in  *)
(* a list of names, and what is required at every depth.                   *)
Keeps(c) ==
  \A v \in Values : Sane(v) => \A w \in c[v] :
    /\ Kept(w)
    /\ v[1] = "map" /\ ~T!Referenced(v) => DOMAIN v[2] \ T!Dropped \subseteq DOMAIN w[2]
    /\ v[1] = "list" /\ (\A x \in T!Parts(v) : x[1] = "atom") => T!Parts(w) = T!Parts(v)

(* Unfiled and WithDefault change no other key, and keep what is there.    *)
LEMMA WithKeeps ==
  ASSUME NEW f, NEW k, NEW x, Kept(x), \A j \in DOMAIN f : Kept(f[j]),
         NEW g \in {T!With(f, k, x), T!WithDefault(f, k, x)}
  PROVE  /\ DOMAIN f \subseteq DOMAIN g
         /\ \A j \in DOMAIN g : Kept(g[j])
         /\ \A j \in DOMAIN g : j # k => j \in DOMAIN f /\ g[j] = f[j]
BY DEF T!With, T!WithDefault

LEMMA UnfiledKeeps ==
  ASSUME NEW f, \A j \in DOMAIN f : Kept(f[j])
  PROVE  /\ DOMAIN f \subseteq DOMAIN T!Unfiled(f)
         /\ \A j \in DOMAIN T!Unfiled(f) : Kept(T!Unfiled(f)[j])
         /\ \A j \in DOMAIN T!Unfiled(f) \ {"type", "description"} :
              j \in DOMAIN f /\ T!Unfiled(f)[j] = f[j]
<1> DEFINE t == T!Atom("string")
           d == T!Atom("file content or path")
           g == T!With(f, "type", t)
           h == T!WithDefault(g, "description", d)
<1>1. T!Unfiled(f) \in {f, h}
  BY DEF T!Unfiled
<1>2. Kept(t) /\ Kept(d)
  BY AtomKept
<1> HIDE DEF t, d
<1>3. /\ DOMAIN f \subseteq DOMAIN g
      /\ \A j \in DOMAIN g : Kept(g[j])
      /\ \A j \in DOMAIN g : j # "type" => j \in DOMAIN f /\ g[j] = f[j]
  BY <1>2, WithKeeps
<1> HIDE DEF g
<1>4. /\ DOMAIN g \subseteq DOMAIN h
      /\ \A j \in DOMAIN h : Kept(h[j])
      /\ \A j \in DOMAIN h : j # "description" => j \in DOMAIN g /\ h[j] = g[j]
  BY <1>2, <1>3, WithKeeps
<1> HIDE DEF h
<1>5. CASE T!Unfiled(f) = f
  BY <1>5
<1>6. CASE T!Unfiled(f) = h
  BY <1>3, <1>4, <1>6
<1> QED
  BY <1>1, <1>5, <1>6

(* The cleaning of a map without combinators.                              *)
LEMMA CleanMapsKeep ==
  ASSUME T!ToolAssumption, NEW c, Cleans(c), Keeps(c),
         NEW v \in Values, v[1] = "map", ~T!Referenced(v), Sane(v),
         NEW w \in T!CleanMaps(c, v[2])
  PROVE  Kept(w) /\ DOMAIN v[2] \ T!Dropped \subseteq DOMAIN w[2]
<1> DEFINE f == v[2]
           own == DOMAIN f \ Bad
           from(o, k) == (IF k \in own THEN c[f[k]] ELSE {})
                           \union (IF k \in DOMAIN o THEN {o[k]} ELSE {})
<1>1. /\ DOMAIN f \intersect T!Combinators = {}
      /\ T!Required(v) \subseteq T!Declared(v)
      /\ \A x \in T!Parts(v) : Sane(x)
  BY SaneParts DEF T!Consistent
<1>2. PICK s \in T!Simplified(c, f) :
        \E g \in T!Choices(own \union DOMAIN s[2], LAMBDA k : from(s[2], k)) :
          w = T!Map(T!Unfiled(g))
  BY Zenon DEF T!CleanMaps, Bad
<1>3. PICK g : /\ DOMAIN g = own \union DOMAIN s[2]
               /\ \A k \in own \union DOMAIN s[2] : g[k] \in from(s[2], k)
               /\ w = T!Map(T!Unfiled(g))
  BY <1>2 DEF T!Choices
<1>4. DOMAIN s[2] = {}
  <2>1. T!OptionsOf(f) = {}
    BY <1>1 DEF T!OptionsOf
  <2>2. s[2] = <<>>
    BY <2>1, Kinds DEF T!Simplified
  <2> QED
    BY <2>2
<1>5. DOMAIN g = own /\ \A k \in own : g[k] \in c[f[k]]
  BY <1>3, <1>4
<1>6. \A k \in own : f[k] \in T!Parts(v) /\ f[k] \in Values /\ Sane(f[k])
  BY <1>1 DEF T!ToolAssumption, T!Parts
<1>7. \A k \in own : g[k][1] = f[k][1] /\ Sound(g[k]) /\ Kept(g[k])
  BY <1>5, <1>6 DEF Cleans, Keeps
<1> DEFINE u == T!Unfiled(g)
<1>8. /\ DOMAIN g \subseteq DOMAIN u
      /\ \A j \in DOMAIN u : Kept(u[j])
      /\ \A j \in DOMAIN u \ {"type", "description"} : j \in DOMAIN g /\ u[j] = g[j]
  BY <1>5, <1>7, UnfiledKeeps
<1>9. w[1] = "map" /\ w[2] = u
  BY <1>3, Kinds
<1> HIDE DEF u
<1>10. {"required", "properties"} \intersect (Bad \union {"type", "description"}) = {}
  BY DEF Bad, T!Dropped, T!Combinators
<1>11. T!Required(w) \subseteq T!Required(v)
  <2>1. SUFFICES ASSUME "required" \in DOMAIN u, u["required"][1] = "list"
                 PROVE  T!Parts(u["required"]) \subseteq T!Required(v)
    BY <1>9 DEF T!Required, T!Has
  <2>2. "required" \in own /\ u["required"] = g["required"]
    BY <1>5, <1>8, <1>10, <2>1
  <2>3. /\ f["required"][1] = "list" /\ f["required"] \in Values
        /\ Sane(f["required"]) /\ g["required"] \in c[f["required"]]
    BY <1>5, <1>6, <1>7, <2>1, <2>2
  <2>4. T!Required(v) = T!Parts(f["required"])
    BY <2>2, <2>3 DEF T!Required, T!Has
  <2>5. \A x \in T!Declared(v) : x[1] = "atom"
    BY Kinds DEF T!Declared
  <2>6. \A x \in T!Parts(f["required"]) : x[1] = "atom"
    BY <1>1, <2>4, <2>5
  <2>7. T!Parts(g["required"]) = T!Parts(f["required"])
    BY <2>3, <2>6 DEF Keeps
  <2> QED
    BY <2>2, <2>4, <2>7
<1>12. T!Declared(v) \subseteq T!Declared(w) \union {T!Atom(k) : k \in T!Dropped}
  <2> DEFINE p == f["properties"]
             q == u["properties"]
  <2>1. SUFFICES ASSUME "properties" \in DOMAIN f, p[1] = "map", ~T!Referenced(p),
                        NEW k \in DOMAIN p[2]
                 PROVE  T!Atom(k) \in T!Declared(w) \union {T!Atom(j) : j \in T!Dropped}
    BY DEF T!Declared, T!Has
  <2>2. "properties" \in own /\ "properties" \in DOMAIN u /\ q = g["properties"]
    BY <1>5, <1>8, <1>10, <2>1
  <2>3. q \in c[p] /\ p \in Values /\ Sane(p) /\ q[1] = "map" /\ Sound(q)
    BY <1>5, <1>6, <1>7, <2>1, <2>2
  <2>4. ~T!Referenced(q)
    BY <2>3, SoundParts DEF T!CleanHere
  <2>5. DOMAIN p[2] \ T!Dropped \subseteq DOMAIN q[2]
    BY <2>1, <2>3 DEF Keeps
  <2> HIDE DEF p, q
  <2>6. T!Declared(w) = {T!Atom(j) : j \in DOMAIN q[2]}
    BY <1>9, <2>2, <2>3, <2>4 DEF T!Declared, T!Has, q
  <2> QED
    BY <2>1, <2>5, <2>6
<1>13. Kept(w)
  BY <1>1, <1>8, <1>9, <1>11, <1>12, KeptEntries
<1>14. DOMAIN f \ T!Dropped \subseteq DOMAIN w[2]
  BY <1>1, <1>5, <1>8, <1>9 DEF Bad
<1> QED
  BY <1>13, <1>14

(* One level of cleaning.                                                  *)
LEMMA CleanedByKeeps ==
  ASSUME T!ToolAssumption, NEW c, Cleans(c), Keeps(c),
         NEW v \in Values, Sane(v), NEW w \in T!CleanedBy(c, v)
  PROVE  /\ Kept(w)
         /\ v[1] = "map" /\ ~T!Referenced(v) => DOMAIN v[2] \ T!Dropped \subseteq DOMAIN w[2]
         /\ v[1] = "list" /\ (\A x \in T!Parts(v) : x[1] = "atom") => T!Parts(w) = T!Parts(v)
<1>1. CASE v[1] = "atom"
  <2>1. w = v
    BY <1>1, Zenon DEF T!CleanedBy
  <2>2. T!KeepsRequired(v) /\ T!Parts(v) = {}
    BY <1>1, RequiresNothing DEF T!Parts
  <2> QED
    BY <1>1, <2>1, <2>2, KeptWhole
<1>2. CASE v[1] = "list"
  <2>1. PICK s \in T!Choices(DOMAIN v[2], LAMBDA i : c[v[2][i]]) : w = T!List(s)
    BY <1>2 DEF T!CleanedBy
  <2>2. DOMAIN s = DOMAIN v[2] /\ \A i \in DOMAIN s : s[i] \in c[v[2][i]]
    BY <2>1 DEF T!Choices
  <2>3. \A i \in DOMAIN s : v[2][i] \in Values /\ v[2][i] \in T!Parts(v)
    BY <1>2, <2>2 DEF T!ToolAssumption, T!Parts
  <2>4. \A i \in DOMAIN s : Sane(v[2][i])
    BY <2>3, SaneParts
  <2>5. \A i \in DOMAIN s : Kept(s[i])
    BY <2>2, <2>3, <2>4 DEF Keeps
  <2>6. w[1] = "list" /\ T!Parts(w) = {s[i] : i \in DOMAIN s}
    BY <2>1, Kinds
  <2>7. Kept(w)
    BY <2>5, <2>6, RequiresNothing, KeptWhole
  <2>8. ASSUME \A x \in T!Parts(v) : x[1] = "atom" PROVE T!Parts(w) = T!Parts(v)
    <3>1. \A i \in DOMAIN s : s[i] = v[2][i]
      BY <2>2, <2>3, <2>8 DEF Cleans
    <3>2. T!Parts(v) = {v[2][i] : i \in DOMAIN v[2]}
      BY <1>2 DEF T!Parts
    <3> QED
      BY <2>2, <2>6, <3>1, <3>2
  <2> QED
    BY <1>2, <2>7, <2>8
<1>3. CASE v[1] = "map" /\ T!Referenced(v)
  <2> DEFINE a == T!Atom("object")
             b == T!Atom("referenced object")
             f == [type |-> a, description |-> b]
  <2>1. w = T!Map(f)
    BY <1>3, Zenon DEF T!CleanedBy, T!RefObject
  <2>2. DOMAIN f = {"type", "description"} /\ \A k \in DOMAIN f : Kept(f[k])
    <3>1. Kept(a) /\ Kept(b)
      BY AtomKept
    <3> HIDE DEF a, b
    <3>2. DOMAIN f = {"type", "description"} /\ f["type"] = a /\ f["description"] = b
      OBVIOUS
    <3> HIDE DEF f
    <3> QED
      BY <3>1, <3>2
  <2> HIDE DEF f
  <2>3. T!KeepsRequired(w) /\ \A x \in T!Parts(w) : Kept(x)
    BY <2>1, <2>2, Kinds, RequiresNothing
  <2> QED
    BY <1>3, <2>3, KeptWhole
<1>4. CASE v[1] = "map" /\ ~T!Referenced(v)
  <2>1. w \in T!CleanMaps(c, v[2])
    BY <1>4, Zenon DEF T!CleanedBy
  <2> QED
    BY <1>4, <2>1, CleanMapsKeep
<1> QED
  BY <1>1, <1>2, <1>3, <1>4 DEF T!ToolAssumption

LEMMA CleaningsKeep ==
  ASSUME T!ToolAssumption PROVE Keeps(T!Cleanings)
<1> DEFINE S == {n \in Nat : Cleans(CleanedTo[n]) /\ Keeps(CleanedTo[n])}
<1>1. 0 \in S
  BY CleaningByDepth DEF Cleans, Keeps
<1>2. ASSUME NEW n \in S PROVE n + 1 \in S
  <2>1. \A v \in Values : CleanedTo[n + 1][v] = T!CleanedBy(CleanedTo[n], v)
    BY CleaningByDepth
  <2>2. Cleans(CleanedTo[n]) /\ Keeps(CleanedTo[n])
    OBVIOUS
  <2>3. Cleans(CleanedTo[n + 1])
    BY <2>1, <2>2, CleanedBySound DEF Cleans
  <2>4. Keeps(CleanedTo[n + 1])
    BY <2>1, <2>2, CleanedByKeeps DEF Keeps
  <2> QED
    BY <2>3, <2>4
<1>3. S = Nat
  <2> HIDE DEF S
  <2>1. S \subseteq Nat
    BY DEF S
  <2> QED
    BY <1>1, <1>2, <2>1, Induction
<1> QED
  BY <1>3, CleaningByDepth DEF T!ToolAssumption

(* The schema that the tool shows.                                         *)
LEMMA ShownKept ==
  ASSUME T!ToolAssumption, NEW v \in Schemas, NEW w \in T!InputSchemas(v), Sane(v)
  PROVE  Kept(w)
<1> DEFINE to == T!Atom("object")
           none == T!Map(<<>>)
<1>1. v \in Values /\ v[1] = "map"
  BY DEF T!ToolAssumption
<1>2. PICK x \in T!Cleanings[v] :
        w = T!Map(T!WithDefault(T!WithDefault(x[2], "type", to), "properties", none))
  BY DEF T!InputSchemas
<1>3. x[1] = "map" /\ Kept(x)
  BY <1>1, <1>2, CleaningsSound, CleaningsKeep DEF Cleans, Keeps
<1>4. T!KeepsRequired(x) /\ \A k \in DOMAIN x[2] : Kept(x[2][k])
  BY <1>3, KeptParts DEF T!Parts
<1>5. Kept(to) /\ Kept(none)
  <2>1. DOMAIN <<>> = {}
    OBVIOUS
  <2>2. T!Parts(none) = {} /\ T!KeepsRequired(none)
    BY <2>1, Kinds, RequiresNothing
  <2> QED
    BY <2>2, AtomKept, KeptWhole
<1> DEFINE f == T!WithDefault(x[2], "type", to)
           g == T!WithDefault(f, "properties", none)
<1> HIDE DEF to, none
<1>6. /\ DOMAIN x[2] \subseteq DOMAIN f
      /\ \A j \in DOMAIN f : Kept(f[j])
      /\ \A j \in DOMAIN f : j # "type" => j \in DOMAIN x[2] /\ f[j] = x[2][j]
  BY <1>4, <1>5, WithKeeps
<1>7. "properties" \in DOMAIN f => g = f
  BY DEF T!WithDefault
<1> HIDE DEF f
<1>8. /\ DOMAIN f \subseteq DOMAIN g
      /\ \A j \in DOMAIN g : Kept(g[j])
      /\ \A j \in DOMAIN g : j # "properties" => j \in DOMAIN f /\ g[j] = f[j]
  BY <1>5, <1>6, WithKeeps
<1>9. w[1] = "map" /\ w[2] = g
  BY <1>2, Kinds DEF f
<1> HIDE DEF g
<1>10. T!Required(w) \subseteq T!Required(x)
  BY <1>3, <1>6, <1>8, <1>9 DEF T!Required, T!Has
<1>11. T!Declared(x) \subseteq T!Declared(w)
  <2>1. CASE "properties" \in DOMAIN x[2]
    <3>1. "properties" \in DOMAIN g /\ g["properties"] = x[2]["properties"]
      BY <1>6, <1>7, <2>1
    <3> QED
      BY <1>3, <1>9, <2>1, <3>1 DEF T!Declared, T!Has
  <2>2. CASE "properties" \notin DOMAIN x[2]
    BY <2>2 DEF T!Declared, T!Has
  <2> QED
    BY <2>1, <2>2
<1> QED
  BY <1>3, <1>4, <1>8, <1>9, <1>10, <1>11, KeptEntries DEF T!KeepsRequired

-----------------------------------------------------------------------------
(* The schemas of the synchronisation require what they declare.           *)
LEMMA InputRequires ==
  ASSUME NEW parameters, NEW has, NEW needs
  PROVE  T!InputSchema(parameters, has, needs).required
           \subseteq T!InputSchema(parameters, has, needs).properties
BY DEF T!InputSchema, T!RequiredKeys

LEMMA CapabilitiesRequire ==
  ASSUME NEW d, NEW c \in T!CapabilitiesOf(d)
  PROVE  c.input.required \subseteq c.input.properties
<1>1. CASE c \in T!CapabilitiesOfAPI(d)
  <2>1. PICK spec, path, method, item : c = T!Capability(spec, path, method, item)
    BY <1>1, Zenon DEF T!CapabilitiesOfAPI
  <2>2. \E ps : c.input = T!OpenAPIInputSchema(ps, item.operations[method].body)
                \/ c.input = T!SwaggerInputSchema(ps)
    BY <2>1 DEF T!Capability
  <2>3. PICK ps : c.input = T!OpenAPIInputSchema(ps, item.operations[method].body)
                  \/ c.input = T!SwaggerInputSchema(ps)
    BY <2>2
  <2> DEFINE body == item.operations[method].body
             bodies == {i \in T!Named(ps) : ps[i].in = "body" /\ ps[i].schema}
             others == SelectSeq(ps, LAMBDA p : p.in # "body")
             needs == \E i \in bodies : ps[i].required
             ofOpenAPI == T!InputSchema(ps, body # "none", body = "required")
             ofSwagger == T!InputSchema(others, bodies # {}, needs)
  <2>4. T!OpenAPIInputSchema(ps, body) = ofOpenAPI
    BY Zenon DEF T!OpenAPIInputSchema
  <2>5. T!SwaggerInputSchema(ps) = ofSwagger
    BY Zenon DEF T!SwaggerInputSchema
  <2>6. c.input \in {ofOpenAPI, ofSwagger}
    BY <2>3, <2>4, <2>5, Zenon
  <2>7. ofOpenAPI.required \subseteq ofOpenAPI.properties
    BY InputRequires
  <2>8. ofSwagger.required \subseteq ofSwagger.properties
    <3> HIDE DEF others, bodies, needs
    <3> QED
      BY InputRequires
  <2> HIDE DEF ofOpenAPI, ofSwagger
  <2> QED
    BY <2>6, <2>7, <2>8
<1>2. CASE c \in T!CapabilitiesOfTools(d)
  <2>1. c.input = [properties |-> {}, required |-> {}]
    <3>1. PICK name, path, method :
            c = [name |-> name, path |-> path, method |-> method,
                 input |-> [properties |-> {}, required |-> {}]]
      BY <1>2, Zenon DEF T!CapabilitiesOfTools
    <3> QED
      BY <3>1
  <2> QED
    BY <2>1
<1>3. CASE c \in {}
  BY <1>3
<1> QED
  BY <1>1, <1>2, <1>3, Zenon DEF T!CapabilitiesOf

(* Where a call goes, and that it goes anywhere.                           *)
Addressed(c) == T!BaseURL(c) # ""

LEMMA CallsGo ==
  ASSUME NEW c \in T!Config, Addressed(c)
  PROVE  T!BaseURL(c) \in {"local", "remote"}
<1>1. c.project.endpoint \in T!URLs /\ c.integration.endpoint \in T!URLs
  BY Zenon DEF T!Config
<1> QED
  BY <1>1, Zenon DEF T!BaseURL, T!URLs, T!Servers, Addressed

(* The headers of a call and of the synchronisation, one by one.           *)
LEMMA HeadersOfCall ==
  ASSUME NEW c, NEW h \in T!Headers
  PROVE  T!CallHeaders(c)[h] =
    LET auth == IF T!Inherits(c) THEN c.project.auth ELSE c.integration.auth
    IN  IF h \in T!AuthHeaders(auth)
        THEN IF T!Inherits(c) THEN "project auth" ELSE "integration auth"
        ELSE IF h \in c.integration.headers THEN "integration"
        ELSE IF h \in c.project.headers THEN "project"
        ELSE IF h \in T!RunHeaders(c) THEN "run" ELSE "unset"
BY DEF T!CallHeaders, T!WithAuth, T!WithHeaders, T!NoHeaders

LEMMA HeadersOfSync ==
  ASSUME NEW c, NEW h \in T!Headers
  PROVE  T!SyncHeaders(c)[h] =
    IF ~T!Inherits(c) /\ h \in T!AuthHeaders(c.integration.auth)
    THEN "integration auth"
    ELSE IF h \in c.integration.headers THEN "integration"
    ELSE IF T!Inherits(c) /\ h \in T!AuthHeaders(c.project.auth) THEN "project auth"
    ELSE IF h \in c.project.headers THEN "project" ELSE "unset"
BY DEF T!SyncHeaders, T!WithHeaders, T!NoHeaders

LEMMA CallIsSound ==
  ASSUME NEW c \in T!Config, Addressed(c), stage = "called", config = c,
         sent.to = T!Destination(c), sent.headers = T!CallHeaders(c)
  PROVE  T!SyncAndCallAgree /\ T!LocalCallsCarryUser
<1>1. T!SyncAndCallAgree
  <2>1. SUFFICES ASSUME NEW h \in T!Headers
                 PROVE  \/ T!CallHeaders(c)[h] = T!SyncHeaders(c)[h]
                        \/ h \in T!RunHeaders(c) /\ T!SyncHeaders(c)[h] = "unset"
                        \/ T!Inherits(c) /\ h \in c.integration.headers
                                            \intersect T!AuthHeaders(c.project.auth)
    BY Zenon DEF T!SyncAndCallAgree
  <2> QED
    BY HeadersOfCall, HeadersOfSync
<1>2. T!LocalCallsCarryUser
  <2> DEFINE h == "X-User-ID"
             own == c.project.headers \union c.integration.headers
                      \union T!AuthHeaders(c.project.auth)
                      \union T!AuthHeaders(c.integration.auth)
             origin == T!CallHeaders(c)[h]
  <2>1. h \in T!Headers
    BY DEF T!Headers
  <2>2. h \in T!RunHeaders(c) <=> T!BaseURL(c) = "local"
    BY DEF T!RunHeaders
  <2>3. T!BaseURL(c) \in {"local", "remote"}
    BY CallsGo
  <2>4. SUFFICES ASSUME ~T!Absolute(c)
                 PROVE  CASE origin = "run" -> sent.to = "local"
                          [] origin = "unset" -> sent.to = "remote"
                          [] OTHER -> h \in own
    BY Zenon DEF T!LocalCallsCarryUser
  <2>5. sent.to = T!BaseURL(c)
    BY <2>4 DEF T!Destination
  <2> HIDE DEF h
  <2>6. /\ origin = "run" => T!BaseURL(c) = "local"
        /\ origin = "unset" => T!BaseURL(c) = "remote"
        /\ origin \notin {"run", "unset"} => h \in own
    BY <2>1, <2>2, <2>3, HeadersOfCall
  <2> HIDE DEF origin, own
  <2> QED
    BY <2>5, <2>6
<1> QED
  BY <1>1, <1>2

-----------------------------------------------------------------------------
(* The inductive invariant: what has been taken how far.                   *)
Calling ==
  /\ config \in Configs /\ Addressed(config)
  /\ sent.to = T!Destination(config) /\ sent.headers = T!CallHeaders(config)

TInv ==
  /\ T!RequiredIsDeclared
  /\ stage \in {"stored", "loaded"} => schema \in Schemas
  /\ stage = "loaded" => Sound(shown) /\ (Sane(schema) => Kept(shown))
  /\ stage = "configured call" => config \in Configs
  /\ stage = "called" => Calling

LEMMA ToolsInit == ASSUME T!Init PROVE TInv
BY DEF T!Init, TInv, T!RequiredIsDeclared

LEMMA ToolsStep ==
  ASSUME T!ToolAssumption, TInv, [T!Next]_T!vars PROVE TInv'
<1>1. ASSUME NEW reply \in T!Reply, T!Fetch(reply) PROVE TInv'
  <2>1. /\ stage' \in {"fetched", "failed"}
        /\ UNCHANGED <<synced, schema, shown, config, sent>>
    BY <1>1, Zenon DEF T!Fetch
  <2> QED
    BY <2>1 DEF TInv, T!RequiredIsDeclared
<1>2. CASE T!Sync
  <2>1. /\ stage' \in {"synced", "failed"}
        /\ synced' \in {synced, {}, T!CapabilitiesOf(doc.document)}
    BY <1>2, Zenon DEF T!Sync
  <2>2. T!RequiredIsDeclared'
    BY <2>1, CapabilitiesRequire DEF TInv, T!RequiredIsDeclared
  <2> QED
    BY <2>1, <2>2 DEF TInv
<1>3. CASE T!Load
  <2>1. /\ stage = "stored" /\ stage' = "loaded" /\ shown' \in T!InputSchemas(schema)
        /\ UNCHANGED <<synced, schema>> /\ schema \in Schemas
    BY <1>3 DEF T!Load, TInv
  <2>2. Sound(shown') /\ (Sane(schema) => Kept(shown'))
    BY <2>1, ShownSound, ShownKept
  <2>3. (Sound(shown) /\ (Sane(schema) => Kept(shown)))'
    BY <2>1, <2>2 DEF Sound, Closed, Sane, SaneIn, Kept, KeptIn
  <2> QED
    BY <2>1, <2>3 DEF TInv, T!RequiredIsDeclared
<1>4. CASE T!Call
  <2>1. stage = "configured call" /\ UNCHANGED <<synced, config, schema, shown>>
    BY <1>4 DEF T!Call
  <2>2. CASE stage' = "called"
    <3>1. /\ Addressed(config)
          /\ sent'.to = T!Destination(config) /\ sent'.headers = T!CallHeaders(config)
      <4>1. Addressed(config)
        BY <1>4, <2>2, Zenon DEF T!Call, Addressed
      <4>2. PICK args : sent' = [to |-> T!Destination(config),
                                 headers |-> T!CallHeaders(config), args |-> args]
        BY <1>4, <2>2, Zenon DEF T!Call
      <4> QED
        BY <4>1, <4>2
    <3>2. Calling'
      BY <2>1, <3>1 DEF TInv, Calling
    <3> QED
      BY <2>1, <2>2, <3>2 DEF TInv, T!RequiredIsDeclared
  <2>3. CASE stage' = "failed"
    BY <2>1, <2>3 DEF TInv, T!RequiredIsDeclared
  <2> QED
    BY <1>4, <2>2, <2>3, Zenon DEF T!Call
<1>5. ASSUME NEW ok \in BOOLEAN, NEW isError \in BOOLEAN, NEW l, NEW m,
             T!Decode(ok, isError, <<l, m>>)
      PROVE  TInv'
  <2>1. /\ stage' \in {"answered", "failed"}
        /\ UNCHANGED <<synced, schema, shown, config, sent>>
    BY <1>5, Zenon DEF T!Decode
  <2> QED
    BY <2>1 DEF TInv, T!RequiredIsDeclared
<1>6. CASE UNCHANGED T!vars
  BY <1>6 DEF T!vars, TInv, T!RequiredIsDeclared, Calling
<1> QED
  BY <1>1, <1>2, <1>3, <1>4, <1>5, <1>6, Zenon DEF T!Next

(* Whatever documents, schemas and settings there are: a schema of the     *)
(* synchronisation requires nothing it does not declare; what the model is *)
(* shown is clean however the maps of a schema are walked and, if the      *)
(* schema has no combinators, still requires only what it declares, but    *)
(* for properties of the name of a keyword that is dropped; and a call has *)
(* the credentials of the synchronisation.  Who runs the agent is told to  *)
(* this server and to no other by a call at the configured address; of a   *)
(* call by an absolute path, which goes elsewhere, that is not said.       *)
THEOREM ToolsSound ==
  ASSUME T!ToolAssumption, T!DepthAssumption PROVE T!Spec => []ToolsAreSound
<1>1. T!Init => TInv
  BY ToolsInit
<1>2. TInv /\ [T!Next]_T!vars => TInv'
  BY ToolsStep
<1>3. ASSUME TInv PROVE ToolsAreSound
  <2>1. T!CleanForModel
    <3>1. \A n \in 0..(Depth + 1) : n \in Nat
      BY DEF T!ToolAssumption
    <3> QED
      BY <1>3, <3>1, SoundWithin DEF TInv, T!CleanForModel
  <2>2. T!SyncAndCallAgree /\ T!LocalCallsCarryUser
    <3>1. CASE stage = "called"
      BY <1>3, <3>1, CallIsSound DEF TInv, Calling, T!ToolAssumption
    <3>2. CASE stage # "called"
      BY <3>2 DEF T!SyncAndCallAgree, T!LocalCallsCarryUser
    <3> QED
      BY <3>1, <3>2
  <2>3. T!ShownIsConsistent
    <3>1. SUFFICES ASSUME stage = "loaded",
                          \A n \in 0..Depth : \A v \in T!Within(schema)[n] : T!Consistent(v)
                   PROVE  \A n \in 0..(Depth + 1) :
                            \A v \in T!Within(shown)[n] : T!KeepsRequired(v)
      BY Zenon DEF T!ShownIsConsistent
    <3>2. schema \in Schemas /\ (Sane(schema) => Kept(shown))
      BY <1>3, <3>1 DEF TInv
    <3>3. Kept(shown)
      BY <3>1, <3>2, SaneWithin
    <3>4. \A n \in 0..(Depth + 1) : n \in Nat
      BY DEF T!ToolAssumption
    <3> QED
      BY <3>3, <3>4, KeptWithin
  <2> QED
    BY <1>3, <2>1, <2>2, <2>3 DEF TInv, ToolsAreSound, T!ToolsAreSound
<1> QED
  BY <1>1, <1>2, <1>3, PTL DEF T!Spec

(* The same at any depth, and not only as deep as TLC looks: nothing that  *)
(* the cleaning is there to remove is anywhere in a schema that is shown.  *)
(* Each schema can be shown, since the bound on the depth is no limit.     *)
THEOREM ShownIsClean ==
  ASSUME T!ToolAssumption, T!DepthAssumption
  PROVE  /\ T!Spec => [](stage = "loaded" =>
              \A n \in Nat : \A v \in T!Within(shown)[n] : T!CleanHere(v))
         /\ \A v \in Schemas : T!InputSchemas(v) # {}
<1>1. T!Init => TInv
  BY ToolsInit
<1>2. TInv /\ [T!Next]_T!vars => TInv'
  BY ToolsStep
<1>3. TInv => (stage = "loaded" =>
                 \A n \in Nat : \A v \in T!Within(shown)[n] : T!CleanHere(v))
  BY SoundWithin DEF TInv
<1>4. \A v \in Schemas : T!InputSchemas(v) # {}
  BY DeepEnough
<1>5. T!Spec => [](stage = "loaded" =>
        \A n \in Nat : \A v \in T!Within(shown)[n] : T!CleanHere(v))
  BY <1>1, <1>2, <1>3, PTL DEF T!Spec
<1> QED
  BY <1>4, <1>5
=============================================================================
