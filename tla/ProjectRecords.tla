--------------------------- MODULE ProjectRecords ---------------------------
(***************************************************************************)
(* Projects, which belong to a tenant or to the system, with their         *)
(* integrations and capabilities: who may create, change, delete and list  *)
(* them, and when a project is published.                                  *)
(*                                                                         *)
(* The handlers check nothing but that there is a tenant, or a superadmin  *)
(* on the /admin routes: row-level security decides, so it is in force     *)
(* here.  A handler that writes is one statement.  Listing projects reads  *)
(* them first and then, project by project, integrations and capabilities, *)
(* each statement seeing what is committed by then.  Synchronisation is in *)
(* CapabilitySync; a row that is deleted keeps its name for good.          *)
(***************************************************************************)
EXTENDS Naturals

CONSTANTS
  Projects, Integrations, Capabilities,
  Tenants,
  System,    \* the tenant 00000000-0000-0000-0000-000000000001
  Requests,
  MaxPublications,
  None

Details == Integrations \union Capabilities
Scopes == Tenants \union {System}

VARIABLES
  project,    \* [Projects]: tenant_id, status, and how often last_published_at was set
  detail,     \* [Details]: project_id and status
  reader,     \* [Requests]: what a request is doing, for whom
  listed,     \* [Requests]: the projects of its answer, as they were read
  hydrated    \* [Requests]: the details of its answer

(* What the theorem assumes of the constants: None is no tenant and no     *)
(* project, and a project may be published once at least.                  *)
RecordAssumption ==
  /\ None \notin Projects \union Scopes
  /\ MaxPublications \in Nat \ {0}

vars == <<project, detail, reader, listed, hydrated>>

ProjectStatus == {"draft", "online", "archived"}

ProjectRecord == [tenant : Scopes \union {None},
                  status : ProjectStatus \union {"unused", "deleted"},
                  published : 0..MaxPublications]
DetailRecord == [project : Projects \union {None},
                 status : {"unused", "active", "inactive", "deleted"}]
Reader == [step : {"idle", "serving", "integrations", "capabilities"},
           super : BOOLEAN, tenant : Scopes \union {None},
           todo : SUBSET Projects, at : Projects \union {None}]

Exists(p) == project[p].status \in ProjectStatus
ThereIs(d) == detail[d].status \in {"active", "inactive"}

(* The types of the variables; a project that is there has a tenant, a     *)
(* detail that is there a project that is there, and a request that is     *)
(* served a tenant or a superadmin.                                        *)
TypeOK ==
  /\ project \in [Projects -> ProjectRecord]
  /\ detail \in [Details -> DetailRecord]
  /\ reader \in [Requests -> Reader]
  /\ listed \in [Requests -> SUBSET [id : Projects, status : ProjectStatus]]
  /\ hydrated \in [Requests -> SUBSET Details]
  /\ \A p \in Projects : Exists(p) => project[p].tenant # None
  /\ \A d \in Details : ThereIs(d) => Exists(detail[d].project)
  /\ \A q \in Requests :
       reader[q].step # "idle" => reader[q].super \/ reader[q].tenant # None

Gone == [step |-> "idle", super |-> FALSE, tenant |-> None, todo |-> {}, at |-> None]

Init ==
  /\ project = [p \in Projects |-> [tenant |-> None, status |-> "unused", published |-> 0]]
  /\ detail = [d \in Details |-> [project |-> None, status |-> "unused"]]
  /\ reader = [q \in Requests |-> Gone]
  /\ listed = [q \in Requests |-> {}]
  /\ hydrated = [q \in Requests |-> {}]

-----------------------------------------------------------------------------
(* The policies.  app_current_tenant_id() and app_current_user_id() are    *)
(* those of the request.                                                   *)

CanSeeBroken(q, p) ==  \* system projects seen whatever their status
  reader[q].super \/ project[p].tenant \in {reader[q].tenant, System}

CanSee(q, p) ==
  \/ reader[q].super
  \/ project[p].tenant = reader[q].tenant
  \/ project[p].tenant = System /\ project[p].status = "online"

CanChangeBroken(q, p) ==  \* what can be seen can be changed
  CanSee(q, p)

CanChange(q, p) ==
  \/ project[p].tenant # System /\ project[p].tenant = reader[q].tenant
  \/ project[p].tenant = System /\ reader[q].super

-----------------------------------------------------------------------------
(* The middleware lets a request through: RequireTenant, or a superadmin   *)
(* on an /admin route.                                                     *)
Enter(q, super, t) ==
  /\ reader[q].step = "idle"
  /\ super \/ t \in Tenants
  /\ reader' = [reader EXCEPT ![q] =
       [Gone EXCEPT !.step = "serving", !.super = super, !.tenant = t]]
  /\ UNCHANGED <<project, detail, listed, hydrated>>

Serving(q) == reader[q].step = "serving"
Answer(q) ==
  /\ reader' = [reader EXCEPT ![q] = Gone]
  /\ listed' = [listed EXCEPT ![q] = {}]
  /\ hydrated' = [hydrated EXCEPT ![q] = {}]

(* normalizeProjectDefaults: a status that is left out is a draft.         *)
Normal(status) == IF status = "" THEN "draft" ELSE status

Publications(p, status) ==
  IF status = "online" /\ project[p].status # "online"
  THEN project[p].published + 1 ELSE project[p].published

(* INSERT, in the tenant of the request or, for a superadmin, the system's;*)
(* projects_scope_tenant_check keeps the two apart.                        *)
CreateProject(q, p, scope, status) ==
  /\ Serving(q)
  /\ project[p].status = "unused"
  /\ \/ scope = reader[q].tenant /\ scope \in Tenants
     \/ scope = System /\ reader[q].super
  /\ project' = [project EXCEPT ![p] =
       [tenant |-> scope, status |-> Normal(status),
        published |-> IF Normal(status) = "online" THEN 1 ELSE 0]]
  /\ Answer(q) /\ UNCHANGED detail

(* UPDATE of a row that the request sees and may change; of no row, and    *)
(* with the same answer, otherwise.                                        *)
UpdateProjectBroken(q, p, status) ==  \* a draft alone counts as published
  /\ Serving(q)
  /\ Exists(p) /\ CanSee(q, p) /\ CanChange(q, p)
  /\ Publications(p, Normal(status)) <= MaxPublications
  /\ project' = [project EXCEPT
       ![p].status = Normal(status),
       ![p].published = IF @ = 0 /\ project[p].status = "draft" /\ Normal(status) = "online"
                        THEN 1 ELSE @]
  /\ Answer(q) /\ UNCHANGED detail

UpdateProject(q, p, status) ==
  /\ Serving(q)
  /\ Exists(p) /\ CanSee(q, p) /\ CanChange(q, p)
  /\ Publications(p, Normal(status)) <= MaxPublications
  /\ project' = [project EXCEPT
       ![p].status = Normal(status), ![p].published = Publications(p, Normal(status))]
  /\ Answer(q) /\ UNCHANGED detail

(* DELETE, with the cascades to integrations and capabilities.             *)
DeleteProjectBroken(q, p) ==  \* no ON DELETE CASCADE
  /\ Serving(q)
  /\ Exists(p) /\ CanSee(q, p) /\ CanChange(q, p)
  /\ project' = [project EXCEPT ![p].status = "deleted"]
  /\ Answer(q) /\ UNCHANGED detail

DeleteProject(q, p) ==
  /\ Serving(q)
  /\ Exists(p) /\ CanSee(q, p) /\ CanChange(q, p)
  /\ project' = [project EXCEPT ![p].status = "deleted"]
  /\ detail' = [d \in Details |->
       IF detail[d].project = p THEN [detail[d] EXCEPT !.status = "deleted"]
       ELSE detail[d]]
  /\ Answer(q)

(* The policies of details look at their project.                          *)
CreateDetail(q, d, p) ==
  /\ Serving(q)
  /\ detail[d].status = "unused"
  /\ Exists(p) /\ CanSee(q, p) /\ CanChange(q, p)
  /\ detail' = [detail EXCEPT ![d] = [project |-> p, status |-> "active"]]
  /\ Answer(q) /\ UNCHANGED project

UpdateDetail(q, d, status) ==
  /\ Serving(q)
  /\ ThereIs(d) /\ CanSee(q, detail[d].project) /\ CanChange(q, detail[d].project)
  /\ detail' = [detail EXCEPT ![d].status = status]
  /\ Answer(q) /\ UNCHANGED project

DeleteDetail(q, d) ==
  /\ Serving(q)
  /\ ThereIs(d) /\ CanSee(q, detail[d].project) /\ CanChange(q, detail[d].project)
  /\ detail' = [detail EXCEPT ![d].status = "deleted"]
  /\ Answer(q) /\ UNCHANGED project

(* A request that finds nothing to change, or is refused.                  *)
NoEffect(q) ==
  /\ Serving(q)
  /\ Answer(q) /\ UNCHANGED <<project, detail>>

-----------------------------------------------------------------------------
(* Reading.                                                                *)

(* The SELECT of the projects a request asks for, through the policy.      *)
ReadProjects(q, wanted) ==
  LET rows == {p \in wanted : Exists(p) /\ CanSee(q, p)} IN
  /\ Serving(q)
  /\ reader' = [reader EXCEPT ![q].step = "integrations", ![q].todo = rows]
  /\ listed' = [listed EXCEPT ![q] =
       {[id |-> p, status |-> project[p].status] : p \in rows}]
  /\ UNCHANGED <<project, detail, hydrated>>

ListAccessible(q) ==
  /\ reader[q].tenant # None
  /\ ReadProjects(q, {p \in Projects : project[p].tenant \in {reader[q].tenant, System}})

ListSystem(q) ==
  /\ reader[q].super
  /\ ReadProjects(q, {p \in Projects : project[p].tenant = System})

GetProject(q, p) ==
  /\ reader[q].tenant # None
  /\ ReadProjects(q, {p})

(* The integrations and the capabilities of the next project, through      *)
(* their policies; the last project's end the answer.                      *)
SelectDetails(q, p, kind) ==
  hydrated' = [hydrated EXCEPT ![q] = @ \union
    {d \in kind : ThereIs(d) /\ detail[d].project = p /\ CanSee(q, p)}]

ReadIntegrations(q, p) ==
  /\ reader[q].step = "integrations" /\ p \in reader[q].todo
  /\ SelectDetails(q, p, Integrations)
  /\ reader' = [reader EXCEPT ![q].step = "capabilities", ![q].at = p]
  /\ UNCHANGED <<project, detail, listed>>

ReadCapabilities(q, p) ==
  /\ reader[q].step = "capabilities" /\ p = reader[q].at
  /\ SelectDetails(q, p, Capabilities)
  /\ reader' = [reader EXCEPT
       ![q].step = "integrations", ![q].todo = @ \ {p}, ![q].at = None]
  /\ UNCHANGED <<project, detail, listed>>

EndReading(q) ==
  /\ reader[q].step = "integrations" /\ reader[q].todo = {}
  /\ Answer(q) /\ UNCHANGED <<project, detail>>

-----------------------------------------------------------------------------
Write(q) ==
  \/ \E p \in Projects, status \in {"", "online", "archived"} :
       \/ \E scope \in Scopes : CreateProject(q, p, scope, status)
       \/ UpdateProject(q, p, status)
  \/ \E p \in Projects : DeleteProject(q, p)
  \/ \E d \in Details : \E p \in Projects : CreateDetail(q, d, p)
  \/ \E d \in Details, status \in {"active", "inactive"} : UpdateDetail(q, d, status)
  \/ \E d \in Details : DeleteDetail(q, d)
  \/ NoEffect(q)

Read(q) ==
  \/ ListAccessible(q) \/ ListSystem(q)
  \/ \E p \in Projects :
       GetProject(q, p) \/ ReadIntegrations(q, p) \/ ReadCapabilities(q, p)
  \/ EndReading(q)

Next ==
  \E q \in Requests :
    \/ \E super \in BOOLEAN, t \in Scopes \union {None} : Enter(q, super, t)
    \/ Write(q)
    \/ Read(q)

Spec == Init /\ [][Next]_vars

-----------------------------------------------------------------------------
(* A project is changed, and its details are created, changed and deleted, *)
(* by requests of its tenant only, those of the system by superadmins      *)
(* only.                                                                   *)
OwnChange ==
  \A p \in Projects :
    Exists(p) /\ (project'[p] # project[p]
                  \/ \E d \in Details : detail'[d] # detail[d]
                                         /\ p \in {detail[d].project, detail'[d].project})
      => \E q \in Requests :
           /\ Serving(q) /\ reader'[q].step = "idle"
           /\ IF project[p].tenant = System THEN reader[q].super
              ELSE reader[q].tenant = project[p].tenant

(* What a tenant's member is answered is of the tenant, or of a system     *)
(* project that was online when it was read, although no query asks for    *)
(* the status; and details are of a project in the answer.                 *)
ListsShowOwn ==
  \A q \in Requests :
    /\ ~reader[q].super =>
         \A e \in listed[q] :
           \/ project[e.id].tenant = reader[q].tenant
           \/ project[e.id].tenant = System /\ e.status = "online"
    /\ \A d \in hydrated[q] : \E e \in listed[q] : e.id = detail[d].project

(* A project that is online has been published, and the date says so,      *)
(* whichever way it came to be online; every later date is of a later      *)
(* return to it.                                                           *)
StampedWhenPublished ==
  \A p \in Projects :
    /\ project[p].status = "online" => project[p].published > 0
    /\ project'[p].published # project[p].published =>
         project'[p].status = "online" /\ project[p].status # "online"

(* All of that: row-level security guards the records, though no handler   *)
(* does, and the database keeps the dates.                                 *)
RecordsAreGuarded ==
  /\ [](TypeOK /\ ListsShowOwn)
  /\ [][OwnChange /\ StampedWhenPublished]_vars
=============================================================================
