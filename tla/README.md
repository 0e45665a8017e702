# Models of the t2-travel-terminal backend

TLA+ modules beside the code of t2-travel-terminal, a Go server (gin, pgx, PostgreSQL with
row-level security) with a React front-end. Users register, form tenants, connect *Projects* to
remote APIs, MCP servers and skill documents, and talk to an agent that may call what a Project
offers. The modules state what the concurrent and failing parts of the server promise; TLC checks
them on small instances, and TLAPS proves the safety properties for every instance.

Paths below are relative to `src/`.

## 1. The system

| Component | State | Operations | Interacts with |
|---|---|---|---|
| Tenant middleware and pool (`internal/tenant`, `internal/datastore`) | pooled connections, each with `app.current_user_id`, `app.current_tenant_id`, a transaction state | acquire, set user, check, enter tenant, reset and release; role guards | every handler but those of `/auth` and `/plans`; RLS policies read the variables |
| Registration and e-mail verification (`internal/api/auth.go`) | `users`, `email_verifications` | `register`, `resendVerification`, `verifyEmail`; `login` only reads | mail service, after the commit |
| Capability synchronisation (`internal/project`, `internal/api/projects.go`) | `project_integrations`, `project_capabilities` | sync; create, update, delete of integrations and capabilities | a remote (HTTP, inside the transaction); the agent's tool loader reads the rows |
| Agent sessions (`internal/agent/api`, `internal/agent/store`) | `agent_sessions`, `agent_messages` | create, archive, delete, `SendMessage` | starts one run per message, streams its events |
| Agent run (`internal/agent/runtime`) | budget, guardrail counts, run state, prompt in memory | consult the model, refuse or execute calls, store messages, halt | LLM provider, tools, the request's connection |
| Tools (`internal/agent/tools`) | registry per run | memory, `execute_sql`, workflow, project tools (HTTP, MCP, this server itself) | the run; project tools may call the same server |
| God scope, soul (`internal/agent/god`) | `god_configs`, `agent_souls` | merge into a scope; `CanExecute`; edit | registry, run, `SendMessage` |
| Tenants, members, invitations (`internal/api/tenant.go`, `members.go`, `users.go`) | `tenants`, `memberships`, `tenant_invites`, `users` | create and delete a tenant, invite, accept, change role, remove, delete account | middleware (role per request), RLS, projects by foreign key |
| Plans and subscriptions (`internal/api/plans.go`, `admin.go`, `tenant.go`) | `plans`, `plan_pricing`, columns of `tenants` | edit plans and prices, change plan | middleware (plan per request) |
| Project records (`internal/api/projects.go`, `tenant.go`, `admin.go`) | `projects`, `project_integrations`, `project_capabilities` | create, update, publish, delete, list with details | RLS; sync; the agent's tool loader |
| LLM profiles (`internal/api/llm_profiles.go`, `internal/agent/llm`) | `user_llm_profiles`, a preferred profile per user | create, update, delete; a run chooses one | agent run |
| Hub (`internal/api/hub.go`, `internal/hub`) | `hub_provider_credentials` | save, delete; search page by page | Ticketmaster; its own HTTP route as a project tool |
| Agent memory, user profile, datasets (`internal/agent/store`) | one or two tables each | single-statement edits; `InsertRows`, which nothing calls, is several | memory tool, `execute_sql` |
| Migrations (`cmd/initdb`) | `schema_migrations` | up, down, status | the whole schema |
| Server lifecycle (`cmd/server`, `internal/server`) | listener, pool | run, shutdown | streams in progress |
| Front-end (`apps/web`) | stored token and tenant | pages over the API, reader of the event stream | API |

What is hard in it:

* **Transactions at READ COMMITTED.** A statement sees what is committed when it starts and waits
  for row locks; statements of a handler see different states. Syncs, deletions, registrations
  and verifications meet here, and several handlers lock rows in opposite orders.
* **A remote call inside a transaction** (sync), which may never answer.
* **State on pooled connections**, which survives the request that set it.
* **A goroutine that outlives statements but must not outlive its request** (agent run), and that
  may call the server it is part of.
* **A conversation stored message by message**, each store a transaction of its own, with requests
  that overlap, disconnect, fail or are killed.
* **Counting to thresholds inside a batch**, with the decision looked at only after the batch.

What makes each part correct is stated as a property in the module of the part (section 3); the
hazards behind them, also those no property covers yet, are listed in `PROJECT.json`.

## 2. Modules

| Module | Models | Code it stands for |
|---|---|---|
| `CapabilityCatalog` | abstract: what a reader of a project's capability list may see | |
| `CapabilitySync` | the handlers that write integrations and capabilities | `internal/project/service.go:289-371`, `internal/project/sync.go:61-159`, `internal/api/projects.go:443-661` |
| `ProjectRecords` | projects and their details under row-level security: who changes, lists, publishes | `internal/api/projects.go`, `tenant.go`, `admin.go`, `internal/queries/projects.go`, migrations 7 and 11 |
| `ProjectTools` | from a document to a tool, from a call to a request and back, as functions | `internal/project/sync.go`, `internal/agent/tools/project_tool.go`, `mcp_adapter.go`, `internal/integration/http.go` |
| `AgentSession` | the transcript and the `SendMessage` requests | `internal/agent/api/messages.go:52-167`, `sessions.go:88-210`, `runtime/conversation.go:69-237` |
| `SessionRecords` | session rows, the projects attached to them, the tools a run loads | `internal/agent/api/sessions.go`, `store/session_store.go`, `store/project_store.go`, `runtime/project_loader.go` |
| `EventStream` | the event channel between a run and its client | `internal/agent/api/messages.go:142-172`, `runtime/conversation.go:69-205, 351-361` |
| `AgentRun` | the loop of one run and its guardrail | `internal/agent/runtime/conversation.go:82-342`, `guardrails.go` |
| `AgentScope` | configurations, souls, the scope merged from them, and what a run does in it | `internal/agent/god/loader.go`, `domain/god_scope.go`, `api/god.go`, `api/soul.go`, `tools/registry.go` |
| `LLMProfiles` | profiles, and the one a run chooses | `internal/api/llm_profiles.go`, `internal/agent/llm/client.go` |
| `EmailVerification` | the three handlers for one address | `internal/api/auth.go:40-145, 207-337` |
| `RequestSession` | middleware, pool, streams and self-calls | `internal/tenant/middleware.go`, `internal/agent/api/messages.go:142-167`, `tools/project_tool.go`, `store/userdata_store.go:105` |
| `Membership` | tenants, members, invitations, account deletion | `internal/api/tenant.go:117-186, 249-263, 353-385`, `members.go:49-213`, `users.go:58-97`, `internal/tenant/middleware.go:54-166` |
| `Subscription` | plans, prices, subscriptions and the roles they give | `internal/api/admin.go`, `plans.go`, `tenant.go`, `internal/rbac/role.go`, migration 4 |
| `Migrations` | processes of `initdb` on one database | `cmd/initdb/main.go` |
| `HubEvents` | provider credentials and paged searches | `internal/api/hub.go`, `internal/hub/ticketmaster.go` |
| `MCCapabilitySync`, `MCAgentSession`, `MCAgentRun`, `MCEmailVerification`, `MCMembership` | symmetry sets and instances of one module | |
| `MCTenancy`, `MCProjects`, `MCAgents`, `MCRequestSession` | instances of several modules side by side | |
| `ServerRecords` | instances of `AgentScope`, `SessionRecords`, `LLMProfiles`, `Migrations` and `HubEvents` side by side, for any values of their constants | |
| `ProjectRows` | `CapabilitySync` and instances of `ProjectRecords` and `ProjectTools` side by side | |
| `Tenancy` | `Membership` and an instance of `Subscription` side by side | |
| `RequestStream` | `RequestSession` and an instance of `EventStream` side by side | |
| `AgentRun_proofs`, `AgentScope_proofs`, `AgentSession_proofs`, `EmailVerification_proofs` | theorems about one module and their proofs | |
| `CapabilitySync_proofs` | the same for `CapabilitySync` and, in two more parts, for `ProjectRecords` and `ProjectTools` | |
| `Membership_proofs` | the same for `Membership` and, in its second half, for `Subscription` | |
| `RequestSession_proofs` | the same for `RequestSession` and, in its second half, for `EventStream` | |
| `Records_proofs` | the same for `Migrations`, `SessionRecords`, `LLMProfiles` and `HubEvents` | |

A module that instantiates several components has a variable `part`, chosen at the start: a behaviour
is one of exactly one component, and the variables of the others keep their initial values. Nothing is
composed that way; it is only that one run of TLC answers the questions of several small modules.

Definitions named `...Broken` (and `RowsToReplaceStale`, `HaltsExactOnly`, `FinishBatchUnbounded`) and
`EmitOverfull`, `StartRunContained` are variants with a plausible bug. Nothing uses them: they are put
in the place of the definition after them to see that a property notices.

### CapabilitySync, CapabilityCatalog

The database part of the state is what is committed: `state` (an integration's `sync_status`, or
that it does not exist), `caps` (capability rows, named by integration, sync run and name) and
`off` (switched to inactive). A handler's own part is its place `pc`, and what its open
transaction has deleted, inserted and updated (`dels`, `ins`, `marked`), from which the row locks
are read off. One action is one statement: `BeginSync` (the two SELECTs), `FetchManifest` and
`FetchFails` (the remote call), `StartDelete`/`FinishDelete` (the DELETE, in two steps because it
chooses its rows before it has their locks), `InsertCapability`, `MarkSyncResult`, `CommitSync`,
`CommitFailure`, `RollbackSync`. The deletion of an integration is `StartDrop`, `LockIntegration`
and `CascadeAndCommit`. `ResolveDeadlock` is PostgreSQL's detector, which fails one of the two.
`removed`, `published`, `used`, `manifest` and `replaces` are history: they record what properties
need. A remote need not answer: `FetchManifest` is not fair, the client's timeout is.

`CapabilityCatalog` has no transaction, lock or network in it: a run *publishes* its manifest at
once and at most once, retiring whole earlier runs. `CapabilitySync` implements it with
`rows <- caps` and the other variables under their own names: only commits change what the catalogue
sees. What the catalogue does **not** promise is that one run retires *all* earlier ones: that
fails when syncs overlap (run `sync_overlap`). What a sync does promise is `Refreshed`: everything
committed when it began is gone once it has succeeded.

### AgentSession

`transcript` is the stored sequence of messages, `prompt[q]` the list that request `q` keeps in
memory and shows the model. Every store is an action of its own. `Faults` chooses what may go
wrong, and `calm` records whether any of it has, so that a run can ask what holds without a fault and
what remains with it. Message content
is abstracted to who wrote it: request, iteration, number of the call. Which answers the model
gives, whether a tool fails, and when the guardrail halts are choices.

### AgentRun

One run, alone: `used` is the budget, `exact` and `same` are the guardrail's two maps, `batch` the
calls of the last answer still to be carried out. `Halts` is `AfterCall`'s decision, with the
warning branch before the tool's own count, which hides it. `worked` and `stale` are
history. A tool is usable if it is registered and the scope allows it; the others are refused
without reaching the guardrail.

### EmailVerification

Addresses share no row, so one address is modelled. `row[t]` is the token row of request `t`
(absent, live, or dead: used or expired); what a transaction has written is implied by the locks
it holds (`ulock`, `tlock`) and its place, and appears at its commit. `register` locks the user and
then its tokens, `verifyEmail` the token and then the user: `Abort` is PostgreSQL's answer to that
deadlock. `issued` and `proof` are history.

### RequestSession

`sess[c]` is a pooled connection: the two RLS variables, the transaction state and whether it is
up. A request goes through the middleware statement by statement, with every early return, into a
handler or an agent run (`streaming`), and through `resetAndRelease`, whose statements' errors are
ignored; `Release` is the pool's, which closes a connection that is in a transaction and opens a
new one. `execute_sql` runs a statement of the model's choice: it can leave a transaction open or
failed. **Left out:** SQL that itself assigns the two RLS variables.

### Membership

The rows are `users`, `tenants` with `created_by`, `role` (of the membership of a user in a tenant,
or none), `invite` and `project`. A request has its context (`who`, `tenant`, and `auth`, the role
that the middleware has read) and its place `pc`. The role is read in `Enter` and relied on in a
later action, whatever other requests do in between. Handlers of one statement are one action
each; `acceptInvite` is `SelectInvite`, `InsertMembership`, `CommitAccept`; `deleteTenant` is
`DeleteTenant`, which has the tenant's row, and `CascadeTenant`, which needs the rows that refer to
it; `deleteMe` is `UnlinkProjects`, `DisownTenants` and `DeleteUser`, or `DeleteUserFails` if a
foreign key is in the way. What is uncommitted is implied by the place and by `token`, `unlinked`
and `disowned`, from which the row locks (`InviteHeld`, `Joining`, `TenantDeleted`,
`TenantDisowned`, `ProjectHeld`) are read off. `Abort` is PostgreSQL's deadlock detector, which fails a
statement whose waiting closes a circle (`WaitsFor`, `Circle`), of any length: two users who delete
their accounts, each with a project in a tenant of the other, make one of four with the deletions
of these tenants.

Row-level security applies to some database roles and not to others (a PostgreSQL superuser
bypasses it, as the role of the compose file does), so `Init` chooses `row_security`. In force, it
hides other users' memberships and other tenants' projects from UPDATE and DELETE; foreign keys
and cascades are not subject to it. **Abstractions:** a cascade takes all its rows at once;
`createTenant` and `createProject` are single actions, because nobody can name a row of theirs
before the commit; an invitation's seven days are the action `Expire`; a deleted account's
address is not registered again.

### ProjectRecords

`project` and `detail` (integrations and capabilities alike) are the rows. No handler checks the tenant
of a project: `CanSee` and `CanChange` are the policies of migration 7, and a statement that they hide a
row from affects none (`NoEffect`). Reading or synchronising one answers that as not found; updates and
deletions do not look at the number of rows and answer 200. A reading request goes through
`ListAccessible` or `ListSystem`, then for every project read `ReadIntegrations` and
`ReadCapabilities`, each seeing what is committed by then. `Publications` is the CASE expression that
sets `last_published_at`; omitting the status means `draft` (`Normal`), so that such an update
un-publishes.

### ProjectTools

No state but how far a behaviour has come: one *document* is fetched and converted to capabilities
(`Fetch`, `Sync`), one *schema* is cleaned for the model (`Load`), or one *configuration* makes a
request (`Call`, `Decode`). A schema is nested maps and lists as `<<"map", f>>`, `<<"list", s>>` and
`<<"atom", a>>`; Go walks maps in no fixed order, so cleaning is a set of outcomes (`Cleanings`).
`schema` is the one that is stored, `shown` what the model is given for it. `Values` are the JSON
values that occur. What is recursive in the code is here a function of the
depth: `Cleanings(v)` is built up for values nested 0, 1, 2, ... deep and taken at `Depth`, and
`Within(v)[n]` are the parts of `v` at depth `n`. `DepthAssumption` says that no schema is deeper than
`Depth`, so that the bound leaves nothing out.

A call's base URL is the integration's endpoint, else the project's, else, for a path under `/api/v1/`,
this server (`BaseURL`). A request path may be absolute, as the `execution.url` of a skill
(`project/sync.go:212`): `BuildURL` then puts it in the place of the base URL, which `Absolute` and
`Destination` say. The headers that tell who runs the agent go by the base URL all the same
(`RunHeaders`), so that `LocalCallsCarryUser` speaks of calls by other paths only. `"local"` is the
address this server knows itself by: one that is spelt otherwise is `"remote"` to the code and here.
**Left out:** descriptions, output schemas, and the time limits of a call (`RequestSession` has them).

### AgentScope

`configs` and `souls` are the rows: a soul is named by the save that created it, and says something
or, until then, is `None`; `newest` is the one that a user is shown. Saving is check-then-write in two
steps (`FindConfig`, `SaveConfig`, `FindSoul`, `SaveSoul`); a message is checked by `LoadConfig`,
`LoadSouls` and `AcceptMessage` or `RefuseMessage`, in a goroutine `StartRun` registers the tools, and
`CallTool` asks `CanExecute` for every call. An error of a read is ignored by the code (`missed`).
When the scope forbids a built-in tool `MustRegister` panics, and the server stops (`stopped`).
`standing`, what has been forbidden ever since a request began, and `alone` are history.

### SessionRecords

`CreateSession` is `InsertSession`, an `AttachNext` per project and `Greet`, or `Fail` in between;
`AttachProject` is `CheckAttach` and `AttachProject`. Projects are shown, hidden and deleted by others
at any time (`ShowOrHide`, `DeleteProject`); which rows a statement may see is in `Own` and `visible`.
`removed` and `seen` are history. Setting a status is one action although a handler reads the session
first: of the columns it writes back as it read them, none is changed by any handler.

### EventStream

`channel` is the buffered channel, `run` the goroutine's place. Each event is a number and a kind;
`stored` has the numbers of those whose message is in the database, `shown` those a client can read.
`Emit` is the `select` with a `default`: it drops. `Write` is the handler's loop, `Leave` the client
that closes the connection, which cancels the context of the run so that nothing more can be stored.
What happens to a message that cannot be stored depends on it. An answer (`Answer`) ends the run. The
result of a tool that was carried out is replaced by an error (`"tool_unsaved"`,
`conversation.go:334`). The message that a tool is unknown or forbidden is shown as it is
(`"tool_denied"`, lines 277 and 296, where the error of the store is discarded), so that
`ShownIsStored` does not speak of it.
**Left out:** a transaction that `execute_sql` has opened on the connection, which takes later
messages with it when the connection is given back.

### LLMProfiles, HubEvents

Single statements, and a reader that keeps what it has read: a run its profile (`Named`,
`LoadProfile`), a search its key (`ProviderKey`) while it pages through a list that the provider
changes (`EventsChange`). `still` says that the list has not changed since the search began.
`UsableOf` is the loop that leaves out the events that cannot be converted.

### Migrations

`recorded` is the table, `built` the schema. A process reads the applied versions (`Start`), then takes
one version at a time (`Apply`, `Skip`, `Revert`), each a transaction with its record; the primary key
makes one of two that apply the same version fail. `Needs` says what a script refers to, `oneWay`
that nobody has gone down beside one going up or run an older checkout, `emptied` that the database
was empty at some time.

### Subscription

`plan`, `price`, `sub` are the rows, `call` the transactions of `createTenant`, `updateTenantPlan`
and `deletePlan`, whose steps are `Select` (the price is validated), `WriteTenant`, `CheckPrice`,
`CheckPlan`, `CommitTenant`, and `BeginDelete`, `LockPlan`, `Cascade`. The locks are read off the
steps (`PriceShared`, `PlanLocked`, ...), and `Waits(c)` says that the next statement of a call waits
for one; `ResolveDeadlock` is PostgreSQL's. A plan's `role_key` that
is NULL is `None`. `EnforcedRole` is what the
middleware gives a request, `ShownRole` what the list of tenants says.

## 3. Properties and runs

Every passing run also evaluates the assumptions on the constants.

| Run | Properties | Instance, states | Shows |
|---|---|---|---|
| `sync_safety` | `TypeOK`, `WholeManifests`, `NoOrphans`, `Refreshed`, `CatalogSpec`; `RecordsAreGuarded`; `ToolsAreSound` | 1 integration, 2 syncs, 1 deletion, 2 names; 1 project with 1 integration and 1 capability, 2 tenants, 2 requests; 6 parameter lists, 2 paths, nested schemas, 3960 configurations; 342 k | no reader sees part of a manifest, a row of a deleted integration, or a row that a finished sync was to replace; records are changed and listed by their owners only, dates of publication are right; schemas require only what they declare, before cleaning and after, and are clean for the model; calls carry the right credentials |
| `sync_overlap` | `OneManifest` violated | the same | with overlap, an integration has the rows of two manifests |
| `sync_liveness` | `EveryRequestAnswered` | 2 syncs, 1 deletion, 1 name; 20 k | hanging remote, waits and deadlock end |
| `session_faults` | `TypeOK`, `CalmPromptsWellFormed`, `OwnMessageShown`, `Resumable`; `ScopeHolds`; `SessionsHold`; `ProfilesHold`; `MigrationsHold`; `SearchesHold` | 2 requests of 2 iterations, overlap, disconnection, crash; 2 saves of configurations, 2 of souls, 1 run; 1 session, 2 users, 2 projects; 2 profiles; 2 processes, 4 versions; 2 tenants, 1 search; 1.15 M | what holds in spite of faults, and well-formed prompts until the first one; bans stand; sessions have their projects; runs have their profile; the table of versions is true; a search finds what there is |
| `session_disconnect` | `PromptsWellFormed` violated | 2 requests, disconnection only | a call without result is stored for good |
| `session_limit` | `OwnMessageShown` violated | no fault, limit smaller than the session | newest messages are cut off |
| `run_batches` | `TypeOK`, `RepeatedFailureStops`, `FailingToolStops`, `HonestEnd`, `RunEnds` | 3 argument lists, 6 iterations of up to 2 calls; 481 k | halts inside a batch count; a tool that never works is given up; every run ends |
| `run_no_progress` | `NoProgressStops` violated | 1 argument list | no-progress detection is missing |
| `email_all` | `TypeOK`, `OneLiveToken`, `ProvenPassword`, `AccountStands`, `EveryCallAnswered` | 3 requests, 2 verifiers; 63 k | no race proves the wrong password, leaves two links or touches a verified account; the deadlock is resolved |
| `pool_sharing` | `TypeOK`, `OwnSession`, `PoolClean`, `RunOwnsConnection`; `StreamHolds`; `NobodyWaitsForever` | 2 requests, 1 connection, 2 users, 2 tenants; a channel of 2, 1 refused tool, runs of up to 6 events; 165 k | no variable or transaction leaks to another request; a run waiting for itself is freed by the tool's timeout; a client that is slow or gone misses events and holds up nothing |
| `members_all` | `TypeOK`, `OwnerIsCreator`, `NoDangling`, `JoinsSpendInvites`, `OwnerStands`, `EveryCallAnswered`; `SubscriptionsStand` | 2 requests, 2 users, 1 tenant, 1 invitation, 1 project, with and without row-level security; 2 calls, 2 plans, 2 prices, 2 edits | owners stay, a link admits once, no reference dangles, deadlocks of deletions end; what a subscriber bought stands, and somebody always proceeds |
| `members_removal` | `RemovalTakesEffect` violated | 1 request | under row-level security a removal that is answered as done removes nobody |

The violated runs are disagreements between the code and its documents; `PROJECT.json` quotes both
under `findings`.

Of the smaller modules one property each is checked, the conjunction of the named formulas above it in
its module:

* `SubscriptionsStand`: price and plan of a subscription exist and belong together (`NoDangling`);
  no edit of plans or prices changes what subscribers may do (`SameRole`); the role shown is never
  less than the one enforced (`ShownCoversEnforced`); offers can be bought (`OffersAreValid`); of
  the calls under way one does not wait or is in a deadlock that is resolved (`SomebodyProceeds`).
* `RecordsAreGuarded`: `ListsShowOwn`, `OwnChange`, `StampedWhenPublished`.
* `ToolsAreSound`: a converted schema requires only what it declares (`RequiredIsDeclared`); one that
  is shown to the model is free of what cleaning removes (`CleanForModel`) and, at every depth, still
  requires only what it declares, but for a property of the name of a dropped keyword and if the
  stored one has no combinators (`ShownIsConsistent`); a call has the credentials of the
  synchronisation (`SyncAndCallAgree`) and, at the configured address, tells this server and no other
  who runs the agent (`LocalCallsCarryUser`). The instance has schemas and paths of the exceptions
  too, and without them TLC finds each of the two properties violated.
* `ScopeHolds`: what is forbidden from before a message to the end of its run is not done, however the
  reads of the scope and the saves interleave (`StandingBansHold`); only a forbidden built-in tool
  stops the server (`OnlyBuiltinsStop`); the user is shown all bans of theirs unless saves have
  overlapped (`EveryBanIsShown`).
* `SessionsHold`: `OwnersAttach`, `ToolsWereShown`, `CreatedWhole`, `NeverActiveAgain`.
* `ProfilesHold`: `RunsUseOwnProfiles`, `KeysStay`. `SearchesHold`: `OwnKey`, `AnswerIsTheList`.
* `MigrationsHold`: `RecordedIsBuilt`, `NoGaps`, `ForwardStops`.
* `StreamHolds`: an answer or the result of a tool that was carried out is shown only if it is stored,
  and what is shown is in order (`ShownIsStored`); a client that stayed is told how the run ended
  unless that event was dropped (`OutcomeShown`).
* `NobodyWaitsForever`: every request is answered and gives its connection back
  (`EveryRequestServed`, of `RequestSession`), and neither a client that does not read nor one that
  leaves holds up the run (`RunsEnd`, of `EventStream`).

**Bounds.** Two overlapping syncs, one deletion and two names are the least with which a partial
manifest, a lock cycle and two generations of rows exist at once; a third sync only repeats the pairs,
and the proofs cover any number. Three requests for one address give a first registration, a second
one that replaces it and a resent mail or a late registration, with two links followed at a time. Two
requests of two iterations with one call each are the least in which a request reads back what another
one left behind, unfinished batches included; the violated session runs allow two calls or a lower
limit because the disagreement needs it. Two requests on one connection are the least in which a
connection is reused and a run waits for a request that waits for it; the proofs of the safety
properties cover any pool. Two users, one of them a SuperAdmin, one tenant, one invitation and one
project have every pair of transactions of `Membership` in conflict; each tenant, invitation and
project is created once, and the tenant's deletion ends its story, so that a second of each would
bring independent copies, for which the theorems stand. The guardrail runs with thresholds of 3 (the
code has 3, and 5 for a tool's own count): with a budget of six answers of up to two calls all three
thresholds are passed, and `FailingToolStops` states its bound in terms of the constants. `MaxBatch`,
`MaxCalls`, `MaxIterations`, `HistoryLimit`, `Runs` and `Requests` are the bounds, all of them
constants. So are `EditLimit`, `MaxPublications`, `MaxRefused`, `MaxMessages`, and the sets of
requests that are each handled once. In the smaller modules two savers or processes are the least that
can overtake each other, and one run or search sees all that the others do to it; a channel of 2 is
full as soon as the code's 16 is, relative to the length of a run; four versions, of which the third
needs the fourth, have the shape of the repository's fourteen, of which the fourth needs the tenth; a
depth of 4 with page sizes 1 to 3 has the boundary within a page and between two. No schema of the
instance is nested deeper than `Depth`, which is 9. `session_faults` gives the same model values to
sets that meet in no component, which keeps the symmetry group small and is sound because a behaviour
is one of one component only. Symmetry is used for safety only, over sets whose members no definition
singles out.

**Deadlock** is checked in the pool run. In the others `CHECK_DEADLOCK FALSE` stands because the
system may really stop: each sync run and each request is used once, clients need not send more,
a run ends, and in `Membership` every account may have been deleted.

**Deadlocks inside a run.** `SomebodyProceeds` states for `Subscription` what `CHECK_DEADLOCK` would
for a system that never stops by itself. For registrations, synchronisations and the deletions of
tenants and accounts the same is a theorem (`SomebodyGoesOn`, section 4), and their liveness a
property of the runs.

**Fairness.** Only what the code or its platform guarantees: a goroutine goes on running (weak
fairness of its next step); HTTP clients have timeouts (20 s in `sync.go:57`, 30 s in
`project_tool.go:32`, 120 s in `llm/openai.go:31`), so that the *failing* step is fair and the
remote's answer is not; PostgreSQL queues those who wait for a row and `pgxpool` those who wait for a
connection, so that a step that is possible again and again happens (strong fairness); deadlocks are
detected. A run's end is strongly fair in `RequestSession` because its budget is finite, which
`AgentRun` shows. In `EventStream` the run's own steps are fair because its calls have timeouts and
its budget is finite, the end of the stream because the handler goes on, and a write only once the
client is gone, since one to a client that does not read may block for good. Nothing is assumed of
remotes, models, users or disconnections: in `AgentRun` only the step in which the provider call fails
is fair. `AgentSession` is checked for safety only and has no fairness; the end of a request's run is
`AgentRun`'s subject.

## 4. Proofs

Every theorem holds for every value of the constants that satisfies the named assumption of the module
it is about. `ServerRecords`, `ProjectRows`, `Tenancy` and `RequestStream` declare the instances and
properties that the MC modules take over, so that runs and theorems are about the same formulas. Where
a component is instantiated, the assumption is a definition of the component (`ScopeAssumption`,
`MigrationAssumption`, `SessionAssumption`, `RecordAssumption`, `SubscriptionAssumption`,
`StreamAssumption`, `HubAssumption`, `ToolAssumption`, `DepthAssumption`) and a hypothesis of the
theorem; the MC modules assume it of their instances, so that TLC evaluates it in the runs. They say
no more than that thresholds, limits and buffers are numbers in the order the code has them, that the
null value is none of the names, that different kinds of request are different, in `Migrations` that
some version needs a later one, as version 4 needs version 10, and in `ProjectTools` that a value's
parts are values.

* **`CapabilitySync_proofs`**: `TypeCorrect`, `NoOrphansHolds`, `WholeManifestsHolds`,
  `RefreshedHolds`, `Refinement`. The invariant adds to the types what each phase of a sync knows: a
  transaction's run belongs to it alone, its inserted rows are of its own target, run and manifest,
  its deleted rows are *whole* runs of the target minus rows already removed one by one (locks keep
  them so), and an uncommitted insert or update keeps the integration alive. Without the last part
  `NoOrphans` is not inductive: a commit could publish rows of a deleted integration. `RefreshedHolds`
  adds that the rows a run is to replace belong to its target and, from the start of its DELETE on,
  are among the rows it visits or has deleted. `Refinement` maps the commit of a sync to `Publish`,
  the cascade to `DropIntegration`, and every other statement to a step on a single row or to a
  stutter. `SomebodyGoesOn`: of the handlers that have rows locked one does not wait, unless a sync
  and a deletion are the deadlock of two that `ResolveDeadlock` ends. What waits is spelled out
  without ENABLED (`SyncWaits`, `DropWaits`), and by the invariant whoever is waited for waits for
  nobody or closes the circle (`AllWait`, `CircleOfTwo`).
* **`AgentRun_proofs`**: `TypeCorrect`, `RepeatedFailureStopsHolds`, `HonestEndHolds`,
  `FailingToolStopsHolds`, `RunIsShort`. The invariant says in addition that while the state is not
  completed no count has reached the threshold: that, and not the property itself, survives the rest
  of a batch. `FailingToolStopsHolds` supposes `ExactThreshold >= 3`, which is the code's value: with
  2 the first failure of every call is answered by a warning, so that a tool's own count is never
  looked at. Its argument is a count (`Counted`, about finite sets): of a tool that never works, the
  failures are at least as many as the argument lists that have failed and, again, those one failure
  from the threshold, for each of those failed twice; and they are at most `SameToolThreshold - 1` and
  those, for only a warning lets one more through. `RunIsShort` is the safety half of `RunEnds`: every
  step lowers `Left`, a natural number that is `MaxIterations * (MaxBatch + 2) + 1` at the start, so
  that a run takes no more steps than that, and only a step that is not taken could keep it from
  ending.
* **`EmailVerification_proofs`**: `TypeCorrect`, `OneLiveTokenHolds`, `ProvenPasswordHolds`,
  `AccountStandsHolds`, `SomebodyGoesOn`. The invariant ties each handler's place to the locks it
  holds and to the row of users (nobody updates or commits a registration without the user's lock and
  an unverified user), each verifier to its locked, existing token, and every existing token's
  `issued` to the password in force. `SomebodyGoesOn` says of registrations and verifications what it
  says of syncs: they wait in circles of two only, exactly those that `Abort` breaks. Its invariant
  (`Holding`) has the place of each that holds a lock: who holds the user and waits for a token
  registers, who holds a token and waits for the user verifies.
* **`RequestSession_proofs`**: `TypeCorrect`, `OwnSessionHolds`, `PoolCleanHolds`,
  `RunOwnsConnectionHolds`. The invariant says, place by place, what the middleware has already
  set and already reset on the connection it holds, and that a run goes on only while its request
  streams.
* **`Membership_proofs`**: `TypeCorrect`, `OwnerIsCreatorHolds`, `NoDanglingHolds`,
  `JoinsSpendInvitesHolds`, `OwnerStandsHolds`, `SomebodyGoesOn`. Both state properties follow from
  one invariant, which adds what the row locks buy: an invitation that an acceptance holds is unused
  and held by nobody else; while a membership is inserted, its tenant is live, its user exists and the
  row is absent; an invitation goes with its tenant; the tenants an account is about to disown are its
  own or deleted. Without the second part a deletion between INSERT and COMMIT would leave a dangling
  membership; without the first a link would admit twice. The two action properties follow from it
  action by action. `SomebodyGoesOn` supposes that there are finitely many requests. If all that have
  a transaction open wait, each waits for another one of them (`AllWait`, for which projects may be
  held by the deletion of an account only: `Unlinking`), so that they are a circle, and there is a
  least one in it (`LeastCircle`, from the well-foundedness of the strict subsets of a finite set),
  which the detector breaks.
* **`AgentSession_proofs`**: `TypeCorrect`, `ResultsFollow`, `OwnShown`, `SessionResumable`,
  `CalmPrompts`, for any number of requests, iterations and calls, with every fault the module has
  unless stated. `ResultsFollow` needs to know how far each request has come with what it has stored
  (`StoredSoFar`) and that the answer whose calls it carries out is in the transcript
  (`AnswerStored`). `SessionResumable` is about the prompt that a request will have when its batch is
  over (`Pending`): all of it is stored, in order, while the client is there, though others append in
  between. It supposes that `"unsaved"` is not among the faults: the code goes on after a tool message
  that could not be stored (`conversation.go:277`, `296` and `334`), and then the prompt has it and
  the store does not.
  `OwnShown` and `CalmPrompts` hold as long as the transcript is not longer than `HistoryLimit`; what
  happens beyond it is run `session_limit`. `CalmPrompts` rests on three facts that faults end: one
  request works at a time, its pending prompt *is* the stored conversation, and the transcript
  consists of whole batches, but for the one being carried out. `Conversation` is therefore defined by
  positions, not by `SelectSeq`, about which nothing could be proved.
* **`AgentScope_proofs`**: `ScopesHold`, with all four conjuncts of `ScopeHolds`. Merging keeps
  bans (lemmas `MergeBans`, `SoulsMerged`), `standing` only shrinks, so that what stands at
  the end stood at each of the reads: each step of loading has merged its part of it (`MergedSoFar`).
  `EveryBanIsShown` is not inductive without the saves that have found their row and not
  yet written it (`OneSoul`).
* **`Records_proofs`**: `MigrationsAreRecorded` (a process that goes up has seen only versions that
  are still recorded and has passed those below it; one that goes down the reverse: `GoingUp`,
  `GoingDown`), `SessionsStand` (what a request has attached is attached or removed, what is visible
  has been seen: `Done`, `Shown`), `ProfilesStand` (ids are distinct, a run's profile is the one it
  asked for), `SearchesFind`: while the list stands still, the pages read so far are the usable events
  of a prefix of it, cut at the depth, if at all. That is an induction over the pages, and `UsableOf`
  of a longer list one over its length; the induction is done inside the proof, by a least
  counterexample (`WFMin`, `NatLessThanWellFounded`), and that the recursive function is one by the
  approximations of it. Each theorem states the whole conjunction, its action properties included.
* **`CapabilitySync_proofs`**, second part: `RecordsStand`, all of `RecordsAreGuarded`: what is listed
  refers to rows that were used, and these keep their tenant (`Answers`, `RowsStay`). Third part:
  `ToolsSound`, all of `ToolsAreSound`, and `ShownIsClean`. What cleaning returns is in a set of clean
  values that has the parts of its members (`Sound`), whatever the order in which maps are
  walked: by induction over the depth. `ToolsAreSound` looks at the parts down to `Depth`,
  `ShownIsClean` at every depth, and it says that each schema has a cleaning, so that neither holds
  because nothing is shown. For `ShownIsConsistent` the same is done again with what is required
  (`Kept`), under the hypothesis on the stored schema (`Sane`, `SaneWithin`): cleaning leaves a list of
  names as it is, and the keys of the properties but for those dropped (`Keeps`).
* **`Membership_proofs`**, second half: `SubscriptionsKeep`, all of `SubscriptionsStand`. `NoDangling`
  is inductive only with the locks: what a foreign key has checked stays until the commit (`Checked`),
  a deletion holds no plan that a purchase shares (`Deletions`), and a tenant's row is written by one
  call at a time (`Purchases`). Of two calls that wait for each other the invariant says which: a
  purchase for the plan, a deletion for the price (`SomeCallGoesOn`).
* **`RequestSession_proofs`**, second half: `StreamSafety`, all of `StreamHolds`. Shown, buffered and
  dropped events together are all that were sent, in order (`InOrder`, `Whole`), and each says what is
  true for good (`AllSay`), which a message that a tool is unknown or forbidden does not.

**Only model-checked**, and why:

* Liveness under fairness: `EveryRequestAnswered`, `RunEnds`, `EveryCallAnswered`,
  `NobodyWaitsForever`. Of the first three what is not about fairness is proved: that handlers
  never all wait (`SomebodyGoesOn`), and that a run has no more steps than its budget gives it
  (`RunIsShort`).
* What runs expect to be violated is false. Only `OwnMessageShown` is also a theorem (`OwnShown`), on
  the hypothesis that run `session_limit` leaves out.

## 5. Not modelled, and why

* Parsing and formatting: Markdown skill documents, the wire formats of the two LLM APIs, mail text,
  descriptions and output schemas. An answer is any number of calls.
* Login and tokens, configuration, HTTP and JSON helpers: stateless or pure I/O.
* Agent memory, user profiles: single statements that nothing else depends on. `InsertRows` of
  datasets and the planner are called by nothing.
* Server shutdown: it waits ten seconds for the streams, then the process ends, which for the data is
  the crash that `AgentSession` has.
* `updateTenant`, `updateMe`, the list of an LLM provider's models: names and texts only.
* The front-end and the shared packages: pages, type declarations.
* An update of an integration while it is synchronised (`ProjectRecords` has the update,
  `CapabilitySync` the sync), and messages stored inside a transaction that `execute_sql` opened:
  the components are there, their composition is not. `EmailVerification` has the mail that
  fails after the commit, but not what the client concludes from the answer.

### Met while modelling

Behaviour a maintainer may want to know of; the models have it as it is, and no run is spent on it.

* An update of a project that omits the status un-publishes it, and one that omits a JSON field
  overwrites it with an empty one (`api/projects.go`, `normalizeProjectDefaults`).
* Operation names collide (`/a-b` and `/a_b`), and path parameters are never substituted into the URL.
* A property named `example`, `examples` or `xml` is dropped from a schema that still requires it, and
  a combinator's option may bring its own `required` or `properties` in the place of the schema's
  (`agent/tools/project_tool.go:89`): the two exceptions of `ShownIsConsistent`.
* By an absolute request path a call goes to that address (`integration/http.go:46`), with the headers
  for the configured one (`agent/tools/mcp_adapter.go:90`): the comment at
  `agent/tools/project_tool.go:205`, that calls of this server carry the user, is not so for them.
* That a tool is unknown or forbidden is shown to the client, and told to the model, even if the
  message could not be stored (`runtime/conversation.go:277` and `296`).
* An update or deletion of a project, integration or capability that row-level security hides, or that
  does not exist, is answered with 200 (`api/projects.go:400`).
* Allow lists of configurations and souls are united, so that each can only widen the scope; errors
  of the reads are ignored, and with them the bans that were not read.
* A soul or configuration that forbids a built-in tool stops the server at the next message.
* A project tool named like a built-in one replaces it.
* A profile of provider `google` is accepted and serves no run; saving a profile with a blank key
  keeps the old key even if the provider and its address change.
* `limit` of an event search is the page size, not the length of the answer; an error on a later page
  loses the earlier ones.
* An inactive or blank credential of a tenant silently falls back to the server's key.
* A fresh database stops at version 4 (`MigrationsHold` says so: `ForwardStops`).
* Refused tools emit `error` events that a client cannot tell from the end of the run, and the text
  "[Iteration budget reached]" is appended after the answer was stored and sent.
* Deleting an account fails for good for a user with projects in a tenant that row-level security
  hides from the request, although the update before it is there to prevent that (`users.go:71`).
* Deadlocks need not be of two: if two users with a project in each other's tenant delete their accounts
  while both tenants are deleted, the four wait in a circle. PostgreSQL fails one of them, and its
  client is told that the deletion failed.
* An inactive plan can still be bought by its id, a price of 0 cannot be set, and nothing reads
  the date on which a subscription expires.

## 6. Plan

Done, in this order: capability synchronisation with its abstract catalogue, session, run, e-mail
verification, request session, membership, and their proofs but for the session; then subscriptions,
project records and tools, scopes, session records, LLM profiles, migrations, the hub and the event
stream, model-checked; then proofs about all of these, so that every invariant and action property of
a passing run is a theorem, and the theorems about waiting.

Next:

1. The composition of `AgentSession` with the connection of `RequestSession`, for messages lost with a
   transaction that `execute_sql` left open.
