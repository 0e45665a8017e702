----------------------------- MODULE Migrations -----------------------------
(***************************************************************************)
(* cmd/initdb: processes that migrate one database up or down.             *)
(*                                                                         *)
(* A process reads the applied versions once, then goes through the        *)
(* migrations of its own checkout, each in a transaction with its record   *)
(* in schema_migrations.  No lock keeps two processes apart but the        *)
(* primary key of that table; a process may be killed at any time.         *)
(*                                                                         *)
(* Of a script the model keeps which versions it needs.  In the repository *)
(* the first version and the seventh make what later ones refer to, and    *)
(* the fourth inserts into plans.role_key, which the tenth adds.           *)
(***************************************************************************)
EXTENDS Naturals, FiniteSets

CONSTANTS
  Processes,   \* runs of initdb
  Last,        \* the number of versions
  Bases,       \* the versions that all later ones refer to
  Forward,     \* a version whose script refers to what the last one adds
  Checkouts    \* how many versions the checkouts have that are run from

Versions == 1..Last

VARIABLES
  emptied,    \* has the database ever been empty, when new or taken down
  recorded,   \* the versions in schema_migrations
  built,      \* the versions whose schema is there
  mode,       \* [Processes]: "idle", "up", "down", "done", "stopped"
  files,      \* [Processes]: the versions of its checkout
  snapshot,   \* [Processes]: the applied versions it has read
  at,         \* [Processes]: the version it is at
  oneWay      \* has every process had all the files, and no down met an up

(* What the theorem assumes of the constants: no checkout has versions     *)
(* that are not numbered, and the last version is not the one that needs   *)
(* it.                                                                     *)
MigrationAssumption ==
  /\ Last \in Nat
  /\ Checkouts \subseteq 0..Last
  /\ Forward \in 1..(Last - 1)

vars == <<emptied, recorded, built, mode, files, snapshot, at, oneWay>>

Needs(v) == { w \in Bases : w < v } \union
            IF v = Forward THEN {Last} ELSE {}

(* What refers to a version and keeps it from being undone.                *)
Dependents(v) == { w \in built : v \in Bases /\ v < w }

Init ==
  /\ recorded \in {{}, Versions}  \* new, or complete from earlier scripts
  /\ built = recorded
  /\ emptied = (recorded = {})
  /\ mode = [p \in Processes |-> "idle"]
  /\ files \in [Processes -> Checkouts]
  /\ snapshot = [p \in Processes |-> {}]
  /\ at = [p \in Processes |-> 0]
  /\ oneWay = TRUE

Running(p) == mode[p] \in {"up", "down"}

-----------------------------------------------------------------------------
(* appliedVersions, or the same query in descending order.                 *)
Start(p, way) ==
  /\ mode[p] = "idle"
  /\ mode' = [mode EXCEPT ![p] = way]
  /\ snapshot' = [snapshot EXCEPT ![p] = recorded]
  /\ at' = [at EXCEPT ![p] = IF way = "up" THEN 1 ELSE Last]
  /\ oneWay' = (oneWay /\ files[p] = Last
                       /\ \A q \in Processes : Running(q) => mode[q] = way)
  /\ UNCHANGED <<emptied, recorded, built, files>>

Goto(p, v) == at' = [at EXCEPT ![p] = v]

Stop(p) ==
  /\ mode' = [mode EXCEPT ![p] = "stopped"]
  /\ UNCHANGED <<emptied, recorded, built, files, snapshot, at, oneWay>>

(* An applied version is skipped; so is, on the way down, one that is not  *)
(* applied or not in the checkout.                                         *)
Skip(p) ==
  LET v == at[p] IN
  /\ v \in 1..Last
  /\ \/ mode[p] = "up" /\ v <= files[p] /\ v \in snapshot[p] /\ Goto(p, v + 1)
     \/ mode[p] = "down" /\ (v > files[p] \/ v \notin snapshot[p]) /\ Goto(p, v - 1)
  /\ UNCHANGED <<emptied, recorded, built, mode, files, snapshot, oneWay>>

(* The script and its record in one transaction.                           *)
ApplyBroken(p) ==  \* no transaction: the record may be missing
  LET v == at[p] IN
  /\ mode[p] = "up" /\ v <= files[p] /\ v \notin snapshot[p]
  /\ Needs(v) \subseteq built
  /\ v \notin recorded
  /\ built' = built \union {v}
  /\ recorded' \in {recorded, recorded \union {v}}
  /\ Goto(p, v + 1)
  /\ UNCHANGED <<emptied, mode, files, snapshot, oneWay>>

Apply(p) ==
  LET v == at[p] IN
  /\ mode[p] = "up" /\ v <= files[p] /\ v \notin snapshot[p]
  /\ Needs(v) \subseteq built
  /\ v \notin recorded
  /\ built' = built \union {v}
  /\ recorded' = recorded \union {v}
  /\ Goto(p, v + 1)
  /\ UNCHANGED <<emptied, mode, files, snapshot, oneWay>>

(* The script fails on what it does not find, or the record on another     *)
(* process's; the transaction is rolled back and the process stops.        *)
ApplyFailsBroken(p) ==  \* goes on with the next version
  LET v == at[p] IN
  /\ mode[p] = "up" /\ v <= files[p] /\ v \notin snapshot[p]
  /\ ~(Needs(v) \subseteq built) \/ v \in recorded
  /\ Goto(p, v + 1)
  /\ UNCHANGED <<emptied, recorded, built, mode, files, snapshot, oneWay>>

ApplyFails(p) ==
  LET v == at[p] IN
  /\ mode[p] = "up" /\ v <= files[p] /\ v \notin snapshot[p]
  /\ ~(Needs(v) \subseteq built) \/ v \in recorded
  /\ Stop(p)

(* The record is deleted, if it is there, and the script undone, in one    *)
(* transaction.  A script that drops what later versions refer to fails.   *)
Revert(p) ==
  LET v == at[p] IN
  /\ mode[p] = "down" /\ v <= files[p] /\ v \in snapshot[p]
  /\ Dependents(v) = {}
  /\ recorded' = recorded \ {v}
  /\ built' = built \ {v}
  /\ emptied' = (emptied \/ built' = {})
  /\ Goto(p, v - 1)
  /\ UNCHANGED <<mode, files, snapshot, oneWay>>

RevertFails(p) ==
  LET v == at[p] IN
  /\ mode[p] = "down" /\ v <= files[p] /\ v \in snapshot[p]
  /\ Dependents(v) # {}
  /\ Stop(p)

Finish(p) ==
  /\ \/ mode[p] = "up" /\ at[p] > files[p]
     \/ mode[p] = "down" /\ at[p] = 0
  /\ mode' = [mode EXCEPT ![p] = "done"]
  /\ UNCHANGED <<emptied, recorded, built, files, snapshot, at, oneWay>>

(* Killed, or the connection lost: an open transaction is rolled back.     *)
Crash(p) == Running(p) /\ Stop(p)

Next ==
  \E p \in Processes :
    \/ Start(p, "up")
    \/ Start(p, "down")
    \/ Skip(p)
    \/ Apply(p)
    \/ ApplyFails(p)
    \/ Revert(p)
    \/ RevertFails(p)
    \/ Finish(p)
    \/ Crash(p)

Spec == Init /\ [][Next]_vars

-----------------------------------------------------------------------------
(* The table says what is in the database, whoever is killed when and      *)
(* however many processes migrate at once.                                 *)
RecordedIsBuilt == recorded = built

(* As long as all processes have all the files and none migrates down      *)
(* while another migrates up, no version is applied without those before   *)
(* it.                                                                     *)
NoGaps == oneWay => \A v \in recorded : \A w \in 1..v : w \in recorded

(* A database that is new, or has been migrated all the way down, does not *)
(* get past the version whose script refers to a later one.                *)
ForwardStops ==
  oneWay /\ emptied => \A v \in recorded : v < Forward

(* All of that: how far a database can come, and that its table says so.   *)
MigrationsHold == RecordedIsBuilt /\ NoGaps /\ ForwardStops
=============================================================================
