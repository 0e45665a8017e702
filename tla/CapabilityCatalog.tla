------------------------- MODULE CapabilityCatalog -------------------------
(***************************************************************************)
(* What the capability list of one Project promises to whoever reads it    *)
(* (the agent's tool loader, the project page), with no transaction, lock  *)
(* or network call in sight.  A capability row carries the integration it  *)
(* was synchronised from and the synchronisation run that created it.  A   *)
(* run replaces whole earlier manifests of its own integration by its own  *)
(* whole manifest, in one step and at most once; nothing else ever creates *)
(* such a row, and no other integration's row or hand-made row is touched. *)
(***************************************************************************)
CONSTANTS
  Integrations,   \* integrations the project may ever have
  Runs,           \* synchronisation runs
  Names,          \* capability names
  Manual          \* stands for integration and run of a hand-made row

VARIABLES
  rows,       \* the capability rows every reader sees
  off,        \* those of them a user has switched off
  state,      \* "absent", "gone", or the integration's sync_status
  published   \* runs that have published their manifest

vars == <<rows, off, state, published>>

Live == { i \in Integrations : state[i] \notin {"absent", "gone"} }

RowsOf(i, n) == { r \in rows : r.integ = i /\ r.run = n }

Init ==
  /\ rows = {}
  /\ off = {}
  /\ state = [i \in Integrations |-> "absent"]
  /\ published = {}

CreateIntegration(i) ==
  /\ state[i] = "absent"
  /\ state' = [state EXCEPT ![i] = "idle"]
  /\ UNCHANGED <<rows, off, published>>

(* Run n publishes the manifest `names` of integration i and retires the   *)
(* runs `old`, each of them entirely.                                      *)
Publish(i, n, names, old) ==
  /\ i \in Live
  /\ n \notin published
  /\ rows' = (rows \ UNION { RowsOf(i, m) : m \in old })
               \union { [integ |-> i, run |-> n, name |-> x] : x \in names }
  /\ off' = off \intersect rows'
  /\ state' = [state EXCEPT ![i] = "success"]
  /\ published' = published \union {n}

RecordFailure(i) ==
  /\ i \in Live
  /\ state' = [state EXCEPT ![i] = "failed"]
  /\ UNCHANGED <<rows, off, published>>

DropIntegration(i) ==
  /\ i \in Live
  /\ state' = [state EXCEPT ![i] = "gone"]
  /\ rows' = { r \in rows : r.integ # i }
  /\ off' = off \intersect rows'
  /\ UNCHANGED published

AddManual(x) ==
  /\ rows' = rows \union {[integ |-> Manual, run |-> Manual, name |-> x]}
  /\ UNCHANGED <<off, state, published>>

RemoveRow(r) ==
  /\ rows' = rows \ {r}
  /\ off' = off \ {r}
  /\ UNCHANGED <<state, published>>

Switch(r) ==
  /\ off' = IF r \in off THEN off \ {r} ELSE off \union {r}
  /\ UNCHANGED <<rows, state, published>>

Next ==
  \/ \E i \in Integrations :
       \/ CreateIntegration(i)
       \/ RecordFailure(i)
       \/ DropIntegration(i)
       \/ \E n \in Runs, names \in SUBSET Names, old \in SUBSET published :
            Publish(i, n, names, old)
  \/ \E x \in Names : AddManual(x)
  \/ \E r \in rows : RemoveRow(r) \/ Switch(r)

Spec == Init /\ [][Next]_vars
=============================================================================
