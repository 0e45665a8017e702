----------------------------- MODULE Membership -----------------------------
(***************************************************************************)
(* Tenants, their members and the invitations to them: creating and        *)
(* deleting a tenant, inviting and accepting, changing a role, removing a  *)
(* member, creating and deleting a project, and deleting one's account.    *)
(*                                                                         *)
(* The middleware reads a request's role once; the handler acts on it      *)
(* later.  A handler of one statement is one action; the others are        *)
(* transactions whose steps are the statements that may wait for a row.    *)
(* Uncommitted work shows in where a handler is and in the rows it holds.  *)
(* Row-level security (row_security) hides the memberships of other users  *)
(* and the projects of other tenants from UPDATE and DELETE, unless the    *)
(* server connects as a database superuser.                                *)
(*                                                                         *)
(* Creating a tenant or a project is one action, although it is a          *)
(* transaction: until it is committed nobody can name the new row.  A      *)
(* cascade takes all the rows that refer to a tenant at once.  Registering *)
(* again with the address of a deleted account, updateTenant,              *)
(* updateTenantPlan and updateMe are not modelled.                         *)
(***************************************************************************)
CONSTANTS
  Users,        \* registered at the start, each with its address
  SuperAdmins,  \* the users with is_superadmin
  Tenants,
  Invites,
  Projects,
  Requests,     \* requests being served at a time
  None

ASSUME MembershipAssumption ==
  /\ SuperAdmins \subseteq Users
  /\ None \notin Users \union Tenants \union Invites

VARIABLES
  row_security,  \* whether it applies to the role the server connects as
  users,         \* the accounts that exist
  tenants,       \* [Tenants]: "absent", "live" or "deleted"
  created_by,    \* [Tenants]: the user, or None
  role,          \* [Tenants -> [Users]]: of the membership, or "none"
  invite,        \* [Invites]: the row of tenant_invites
  project,       \* [Projects]: the row of projects; no tenant, no row
  pc,            \* [Requests]
  who,           \* [Requests]: the user
  tenant,        \* [Requests]: of the context, or None
  auth,          \* [Requests]: the role the middleware has read
  token,         \* [Requests]: the invitation being accepted
  unlinked,      \* [Requests]: projects that forget the user
  disowned       \* [Requests]: tenants that forget the user

db == <<users, tenants, created_by, role, invite, project>>
context == <<who, tenant, auth>>
work == <<token, unlinked, disowned>>
vars == <<row_security, db, pc, context, work>>

Granted == {"admin", "member"}
Role == Granted \union {"owner", "none"}
Invitation == [tenant : Tenants \union {None}, email : Users \union {None},
               role : Role, state : {"unsent", "open", "expired", "used", "deleted"}]
Project == [tenant : Tenants \union {None}, created_by : Users \union {None}]
NoProject == [tenant |-> None, created_by |-> None]

(* Where a request is with a transaction open.                             *)
Open == {"admitting", "admitted", "known", "leaving", "disowning", "cascading"}

(* The types of the variables; there is a tenant where there is a role.    *)
TypeOK ==
  /\ row_security \in BOOLEAN
  /\ users \subseteq Users
  /\ tenants \in [Tenants -> {"absent", "live", "deleted"}]
  /\ created_by \in [Tenants -> Users \union {None}]
  /\ role \in [Tenants -> [Users -> Role]]
  /\ invite \in [Invites -> Invitation]
  /\ project \in [Projects -> Project]
  /\ pc \in [Requests -> Open \union {"idle", "serving"}]
  /\ who \in [Requests -> Users \union {None}]
  /\ tenant \in [Requests -> Tenants \union {None}]
  /\ auth \in [Requests -> Role]
  /\ token \in [Requests -> Invites \union {None}]
  /\ unlinked \in [Requests -> SUBSET Projects]
  /\ disowned \in [Requests -> SUBSET Tenants]
  /\ \A q \in Requests :
       /\ (pc[q] = "idle") = (who[q] = None)
       /\ (auth[q] = "none") = (tenant[q] = None)

Init ==
  /\ row_security \in BOOLEAN
  /\ users = Users
  /\ tenants = [t \in Tenants |-> "absent"]
  /\ created_by = [t \in Tenants |-> None]
  /\ role = [t \in Tenants |-> [u \in Users |-> "none"]]
  /\ invite = [i \in Invites |->
       [tenant |-> None, email |-> None, role |-> "none", state |-> "unsent"]]
  /\ project = [p \in Projects |-> NoProject]
  /\ pc = [q \in Requests |-> "idle"]
  /\ who = [q \in Requests |-> None]
  /\ tenant = [q \in Requests |-> None]
  /\ auth = [q \in Requests |-> "none"]
  /\ token = [q \in Requests |-> None]
  /\ unlinked = [q \in Requests |-> {}]
  /\ disowned = [q \in Requests |-> {}]

Goto(q, phase) == pc' = [pc EXCEPT ![q] = phase]

(* The answer; what is open is rolled back, and nothing of it is kept.     *)
Answer(q) ==
  /\ Goto(q, "idle")
  /\ who' = [who EXCEPT ![q] = None]
  /\ tenant' = [tenant EXCEPT ![q] = None]
  /\ auth' = [auth EXCEPT ![q] = "none"]
  /\ token' = [token EXCEPT ![q] = None]
  /\ unlinked' = [unlinked EXCEPT ![q] = {}]
  /\ disowned' = [disowned EXCEPT ![q] = {}]
  /\ UNCHANGED row_security

-----------------------------------------------------------------------------
(* Rows that open transactions hold.                                       *)

InviteHeld(i) ==
  \E q \in Requests :
    pc[q] \in {"admitting", "admitted", "known"} /\ token[q] = i

(* A new membership holds its tenant and its user by their foreign keys.   *)
Joining(t, u) ==
  \E q \in Requests :
    pc[q] = "admitted" /\ invite[token[q]].tenant = t /\ who[q] = u

TenantDeleted(t) == \E q \in Requests : pc[q] = "cascading" /\ tenant[q] = t
TenantDisowned(t) == \E q \in Requests : t \in disowned[q]
ProjectHeld(p) == \E q \in Requests : p \in unlinked[q]

-----------------------------------------------------------------------------
(* The middleware.                                                         *)

(* A user that exists sends a request, with X-Tenant-ID or without.  Who   *)
(* is not a member gets no tenant; a SuperAdmin is the owner of any.       *)
EnterBroken(q, u, t) ==  \* no membership is found and the tenant is set
  /\ pc[q] = "idle"
  /\ u \in users
  /\ LET read == IF t = None THEN "none"
                 ELSE IF u \in SuperAdmins THEN "owner" ELSE role[t][u]
     IN  auth' = [auth EXCEPT ![q] = read]
  /\ tenant' = [tenant EXCEPT ![q] = t]
  /\ who' = [who EXCEPT ![q] = u]
  /\ Goto(q, "serving")
  /\ UNCHANGED <<row_security, db, work>>

Enter(q, u, t) ==
  /\ pc[q] = "idle"
  /\ u \in users
  /\ LET read == IF t = None THEN "none"
                 ELSE IF u \in SuperAdmins THEN "owner" ELSE role[t][u]
     IN  /\ auth' = [auth EXCEPT ![q] = read]
         /\ tenant' = [tenant EXCEPT ![q] = IF read = "none" THEN None ELSE t]
  /\ who' = [who EXCEPT ![q] = u]
  /\ Goto(q, "serving")
  /\ UNCHANGED <<row_security, db, work>>

(* A handler that only reads, a guard that refuses, a statement that fails *)
(* before it has changed anything.                                         *)
Decline(q) ==
  /\ pc[q] = "serving"
  /\ Answer(q)
  /\ UNCHANGED db

Staff(q) == pc[q] = "serving" /\ auth[q] \in {"owner", "admin"}

-----------------------------------------------------------------------------
(* Handlers of one statement.                                              *)

(* The tenant and its owner's membership, in one transaction.              *)
CreateTenant(q, t) ==
  /\ pc[q] = "serving"
  /\ tenants[t] = "absent"
  /\ who[q] \in users
  /\ tenants' = [tenants EXCEPT ![t] = "live"]
  /\ created_by' = [created_by EXCEPT ![t] = who[q]]
  /\ role' = [role EXCEPT ![t] = [@ EXCEPT ![who[q]] = "owner"]]
  /\ Answer(q)
  /\ UNCHANGED <<users, invite, project>>

(* Any address may be invited.                                             *)
Invite(q, i, u, r) ==
  /\ Staff(q)
  /\ invite[i].state = "unsent"
  /\ tenants[tenant[q]] = "live"
  /\ ~TenantDeleted(tenant[q])
  /\ invite' = [invite EXCEPT ![i] =
       [tenant |-> tenant[q], email |-> u, role |-> r, state |-> "open"]]
  /\ Answer(q)
  /\ UNCHANGED <<users, tenants, created_by, role, project>>

(* The memberships that a request's UPDATE or DELETE sees.                 *)
Visible(q, u) == row_security => u = who[q]

(* The owner stays as it is; whatever was changed, the answer is 200.      *)
UpdateRoleBroken(q, u, r) ==  \* role != 'owner' is dropped
  /\ Staff(q)
  /\ LET t == tenant[q]
     IN  role' = IF Visible(q, u) /\ role[t][u] # "none"
                 THEN [role EXCEPT ![t] = [@ EXCEPT ![u] = r]]
                 ELSE role
  /\ Answer(q)
  /\ UNCHANGED <<users, tenants, created_by, invite, project>>

UpdateRole(q, u, r) ==
  /\ Staff(q)
  /\ LET t == tenant[q]
     IN  role' = IF Visible(q, u) /\ role[t][u] \in Granted
                 THEN [role EXCEPT ![t] = [@ EXCEPT ![u] = r]]
                 ELSE role
  /\ Answer(q)
  /\ UNCHANGED <<users, tenants, created_by, invite, project>>

RemoveMemberBroken(q, u) ==  \* role != 'owner' is dropped
  /\ Staff(q)
  /\ LET t == tenant[q]
     IN  role' = IF Visible(q, u)
                 THEN [role EXCEPT ![t] = [@ EXCEPT ![u] = "none"]]
                 ELSE role
  /\ Answer(q)
  /\ UNCHANGED <<users, tenants, created_by, invite, project>>

RemoveMember(q, u) ==
  /\ Staff(q)
  /\ LET t == tenant[q]
     IN  role' = IF Visible(q, u) /\ role[t][u] \in Granted
                 THEN [role EXCEPT ![t] = [@ EXCEPT ![u] = "none"]]
                 ELSE role
  /\ Answer(q)
  /\ UNCHANGED <<users, tenants, created_by, invite, project>>

CreateProject(q, p) ==
  /\ pc[q] = "serving"
  /\ project[p] = NoProject
  /\ tenant[q] # None
  /\ tenants[tenant[q]] = "live"
  /\ ~TenantDeleted(tenant[q])
  /\ who[q] \in users
  /\ project' = [project EXCEPT ![p] =
       [tenant |-> tenant[q], created_by |-> who[q]]]
  /\ Answer(q)
  /\ UNCHANGED <<users, tenants, created_by, role, invite>>

(* By its identifier, whatever tenant it is of.                            *)
DeleteProject(q, p) ==
  /\ pc[q] = "serving"
  /\ tenant[q] # None
  /\ row_security => project[p].tenant = tenant[q]
  /\ ~ProjectHeld(p)
  /\ project' = [project EXCEPT ![p] = NoProject]
  /\ Answer(q)
  /\ UNCHANGED <<users, tenants, created_by, role, invite>>

-----------------------------------------------------------------------------
(* acceptInvite                                                            *)

(* SELECT ... FOR UPDATE of an open invitation, and the address compared.  *)
SelectInviteBroken(q, i) ==  \* FOR UPDATE is dropped
  /\ pc[q] = "serving"
  /\ invite[i].state = "open"
  /\ who[q] \in users
  /\ invite[i].email = who[q]
  /\ token' = [token EXCEPT ![q] = i]
  /\ Goto(q, "admitting")
  /\ UNCHANGED <<row_security, db, context, unlinked, disowned>>

SelectInvite(q, i) ==
  /\ pc[q] = "serving"
  /\ invite[i].state = "open"
  /\ ~InviteHeld(i)
  /\ who[q] \in users
  /\ invite[i].email = who[q]
  /\ token' = [token EXCEPT ![q] = i]
  /\ Goto(q, "admitting")
  /\ UNCHANGED <<row_security, db, context, unlinked, disowned>>

(* INSERT ... ON CONFLICT DO NOTHING: waits for an insertion of the same   *)
(* membership, and for a deletion of the tenant.                           *)
InsertMembership(q) ==
  /\ pc[q] = "admitting"
  /\ LET t == invite[token[q]].tenant
         u == who[q]
     IN  /\ ~Joining(t, u)
         /\ \/ role[t][u] # "none" /\ Goto(q, "known")
            \/ /\ role[t][u] = "none"
               /\ u \in users
               /\ ~TenantDeleted(t)
               /\ Goto(q, "admitted")
  /\ UNCHANGED <<row_security, db, context, work>>

(* The account has been deleted since.                                     *)
InsertFailsBroken(q) ==  \* the statement is tried again
  /\ pc[q] = "admitting"
  /\ who[q] \notin users
  /\ UNCHANGED vars

InsertFails(q) ==
  /\ pc[q] = "admitting"
  /\ who[q] \notin users
  /\ Answer(q)
  /\ UNCHANGED db

(* The invitation is marked as used.                                       *)
CommitAccept(q) ==
  /\ pc[q] \in {"admitted", "known"}
  /\ LET i == token[q]
         t == invite[i].tenant
     IN  /\ role' = IF pc[q] = "admitted"
                    THEN [role EXCEPT ![t] = [@ EXCEPT ![who[q]] = invite[i].role]]
                    ELSE role
         /\ invite' = [invite EXCEPT ![i] = [@ EXCEPT !.state = "used"]]
  /\ Answer(q)
  /\ UNCHANGED <<users, tenants, created_by, project>>

-----------------------------------------------------------------------------
(* deleteTenant                                                            *)

(* The statement has the row of the tenant and goes on to what refers to   *)
(* it.                                                                     *)
DeleteTenant(q) ==
  /\ pc[q] = "serving"
  /\ auth[q] = "owner"
  /\ LET t == tenant[q]
     IN  /\ tenants[t] = "live"
         /\ ~TenantDeleted(t) /\ ~TenantDisowned(t)
         /\ \A u \in Users : ~Joining(t, u)
  /\ Goto(q, "cascading")
  /\ UNCHANGED <<row_security, db, context, work>>

(* ON DELETE CASCADE, once nobody holds an invitation or a project.        *)
CascadeTenant(q) ==
  /\ pc[q] = "cascading"
  /\ LET t == tenant[q]
     IN  /\ \A i \in Invites : invite[i].tenant = t => ~InviteHeld(i)
         /\ \A p \in Projects : project[p].tenant = t => ~ProjectHeld(p)
         /\ tenants' = [tenants EXCEPT ![t] = "deleted"]
         /\ created_by' = [created_by EXCEPT ![t] = None]
         /\ role' = [role EXCEPT ![t] = [u \in Users |-> "none"]]
         /\ project' = [p \in Projects |->
              IF project[p].tenant = t THEN NoProject ELSE project[p]]
         /\ invite' = [i \in Invites |->
              IF invite[i].tenant = t THEN [invite[i] EXCEPT !.state = "deleted"]
              ELSE invite[i]]
  /\ Answer(q)
  /\ UNCHANGED users

-----------------------------------------------------------------------------
(* deleteMe                                                                *)

(* UPDATE projects SET created_by = NULL, for the projects that are seen.  *)
UnlinkProjects(q) ==
  /\ pc[q] = "serving"
  /\ LET own == {p \in Projects : /\ project[p].created_by = who[q]
                                  /\ row_security => project[p].tenant = tenant[q]}
     IN  /\ \A p \in own : ~ProjectHeld(p)
         /\ unlinked' = [unlinked EXCEPT ![q] = own]
  /\ Goto(q, "leaving")
  /\ UNCHANGED <<row_security, db, context, token, disowned>>

Created(u) == {t \in Tenants : created_by[t] = u}

(* UPDATE tenants SET created_by = NULL.                                   *)
DisownTenants(q) ==
  /\ pc[q] = "leaving"
  /\ \A t \in Created(who[q]) : ~TenantDeleted(t) /\ ~TenantDisowned(t)
  /\ disowned' = [disowned EXCEPT ![q] = Created(who[q])]
  /\ Goto(q, "disowning")
  /\ UNCHANGED <<row_security, db, context, token, unlinked>>

(* Something still refers to the user when it is deleted.                  *)
Referred(q) ==
  \/ Created(who[q]) \ disowned[q] # {}
  \/ \E p \in Projects : project[p].created_by = who[q] /\ p \notin unlinked[q]

(* DELETE FROM users waits for a membership being inserted, cascades to    *)
(* the user's memberships and is committed.                                *)
DeleteUserBroken(q) ==  \* tenants.created_by has no foreign key
  /\ pc[q] = "disowning"
  /\ \A t \in Tenants : ~Joining(t, who[q])
  /\ users' = users \ {who[q]}
  /\ role' = [t \in Tenants |-> [role[t] EXCEPT ![who[q]] = "none"]]
  /\ created_by' = [t \in Tenants |->
       IF t \in disowned[q] THEN None ELSE created_by[t]]
  /\ project' = [p \in Projects |->
       IF p \in unlinked[q] THEN [project[p] EXCEPT !.created_by = None]
       ELSE project[p]]
  /\ Answer(q)
  /\ UNCHANGED <<tenants, invite>>

DeleteUser(q) ==
  /\ pc[q] = "disowning"
  /\ \A t \in Tenants : ~Joining(t, who[q])
  /\ ~Referred(q)
  /\ users' = users \ {who[q]}
  /\ role' = [t \in Tenants |-> [role[t] EXCEPT ![who[q]] = "none"]]
  /\ created_by' = [t \in Tenants |->
       IF t \in disowned[q] THEN None ELSE created_by[t]]
  /\ project' = [p \in Projects |->
       IF p \in unlinked[q] THEN [project[p] EXCEPT !.created_by = None]
       ELSE project[p]]
  /\ Answer(q)
  /\ UNCHANGED <<tenants, invite>>

(* A foreign key is in the way: the account stays.                         *)
DeleteUserFails(q) ==
  /\ pc[q] = "disowning"
  /\ Referred(q)
  /\ Answer(q)
  /\ UNCHANGED db

-----------------------------------------------------------------------------
(* The environment.                                                        *)

(* Seven days go by.                                                       *)
Expire(i) ==
  /\ invite[i].state = "open"
  /\ invite' = [invite EXCEPT ![i] = [@ EXCEPT !.state = "expired"]]
  /\ UNCHANGED <<row_security, users, tenants, created_by, role, project,
                 pc, context, work>>

(* A statement fails, the client disconnects or the server dies.           *)
Fail(q) ==
  /\ pc[q] \in Open
  /\ Answer(q)
  /\ UNCHANGED db

(* q's statement waits for a row that d holds and may itself wait for: the *)
(* tenant of the invitation, a tenant of the account, or an invitation or  *)
(* a project of the tenant.                                                *)
WaitsFor(q, d) ==
  \/ /\ pc[q] = "admitting" /\ pc[d] = "cascading"
     /\ invite[token[q]].tenant = tenant[d]
     /\ role[tenant[d]][who[q]] = "none"
  \/ /\ pc[q] = "leaving" /\ pc[d] = "cascading"
     /\ created_by[tenant[d]] = who[q]
  \/ /\ pc[q] = "cascading"
     /\ \/ /\ pc[d] \in {"admitting", "admitted", "known"}
           /\ invite[token[d]].tenant = tenant[q]
        \/ \E p \in unlinked[d] : project[p].tenant = tenant[q]

(* PostgreSQL fails a statement whose waiting closes a circle.             *)
Circle(S) == S # {} /\ \A q \in S : \E d \in S : WaitsFor(q, d)

Deadlocked(q) ==
  \E S \in SUBSET Requests :
    /\ q \in S /\ Circle(S)
    /\ \A C \in SUBSET S : Circle(C) => C = S

Abort(q) ==
  /\ Deadlocked(q)
  /\ Answer(q)
  /\ UNCHANGED db

(* A step of the handler that q is in.                                     *)
Serve(q) ==
  \/ Decline(q)
  \/ \E t \in Tenants : CreateTenant(q, t)
  \/ \E i \in Invites, u \in Users, r \in Granted : Invite(q, i, u, r)
  \/ \E u \in Users, r \in Granted : UpdateRole(q, u, r)
  \/ \E u \in Users : RemoveMember(q, u)
  \/ \E p \in Projects : CreateProject(q, p) \/ DeleteProject(q, p)
  \/ \E i \in Invites : SelectInvite(q, i)
  \/ InsertMembership(q) \/ InsertFails(q) \/ CommitAccept(q)
  \/ DeleteTenant(q) \/ CascadeTenant(q)
  \/ UnlinkProjects(q) \/ DisownTenants(q) \/ DeleteUser(q) \/ DeleteUserFails(q)

Next ==
  \/ \E q \in Requests :
       \/ \E u \in Users, t \in Tenants \union {None} : Enter(q, u, t)
       \/ Serve(q)
       \/ Fail(q)
       \/ Abort(q)
  \/ \E i \in Invites : Expire(i)

Spec == Init /\ [][Next]_vars

(* Handlers run; who waits for a row is queued for it by PostgreSQL and    *)
(* gets it if it is freed again and again; deadlocks are detected.         *)
Fairness ==
  /\ \A q \in Requests : SF_vars(Serve(q))
  /\ \A q \in Requests : WF_vars(Abort(q))

FairSpec == Spec /\ Fairness

-----------------------------------------------------------------------------
(* A tenant has one owner, who created it, until the owner's account or    *)
(* the tenant is deleted; nobody else becomes one.                         *)
OwnerIsCreator ==
  \A t \in Tenants, u \in Users :
    (role[t][u] = "owner") = (tenants[t] = "live" /\ created_by[t] = u)

(* No foreign key dangles, whatever deletions and acceptances overlap: a   *)
(* membership is of a tenant and a user that exist, an invitation that can *)
(* be accepted and a project are of a tenant that exists, and creators     *)
(* exist.                                                                  *)
NoDangling ==
  /\ \A t \in Tenants : created_by[t] \in users \union {None}
  /\ \A t \in Tenants, u \in Users :
       role[t][u] # "none" => tenants[t] = "live" /\ u \in users
  /\ \A i \in Invites :
       invite[i].state = "open" => tenants[invite[i].tenant] = "live"
  /\ \A p \in Projects :
       project[p] # NoProject =>
         /\ tenants[project[p].tenant] = "live"
         /\ project[p].created_by \in users \union {None}

(* Whoever becomes a member has created the tenant or uses up an           *)
(* invitation to that address, with its role.                              *)
JoinIsInvited ==
  \A t \in Tenants, u \in Users :
    role[t][u] = "none" /\ role'[t][u] # "none" =>
      \/ role'[t][u] = "owner" /\ tenants[t] = "absent"
      \/ \E i \in Invites :
           /\ invite[i].tenant = t /\ invite[i].email = u
           /\ invite[i].role = role'[t][u]
           /\ invite[i].state \in {"open", "expired"}
           /\ invite'[i].state = "used"

UsedForGood ==
  \A i \in Invites :
    invite[i].state = "used" => invite'[i].state \in {"used", "deleted"}

(* Every other membership comes from an invitation that this uses up for   *)
(* good, so that the link is no way back for who was removed.              *)
JoinsSpendInvites == [][JoinIsInvited /\ UsedForGood]_<<role, invite>>

(* Nobody is removed or demoted as the owner of a tenant: that ends with   *)
(* the tenant or the account only.                                         *)
OwnerStays ==
  \A t \in Tenants, u \in Users :
    role[t][u] = "owner" =>
      role'[t][u] = "owner" \/ tenants'[t] = "deleted" \/ u \notin users'

OwnerStands == [][OwnerStays]_db

(* Every request is answered, also when deletions and acceptances wait for *)
(* each other in a circle.                                                 *)
EveryCallAnswered == \A q \in Requests : (pc[q] # "idle") ~> (pc[q] = "idle")

(* The answer "member removed" (internal/api/members.go:180) means that    *)
(* nobody but an owner is still a member: what a client takes it to mean.  *)
RemovalTakesEffect ==
  [][\A q \in Requests, u \in Users :
       RemoveMember(q, u) =>
         role'[tenant[q]][u] \in {"none", "owner"}]_vars
=============================================================================
