------------------------- MODULE Membership_proofs --------------------------
(***************************************************************************)
(* Proofs, for any number of users, tenants, invitations, projects and     *)
(* concurrent requests, of the safety properties of Membership.            *)
(***************************************************************************)
EXTENDS Tenancy, Naturals, FiniteSetTheorems, TLAPS

-----------------------------------------------------------------------------
(* The inductive invariant.                                                *)

Accepting == {"admitting", "admitted", "known"}

(* An acceptance holds an invitation to its user that is not used yet, and *)
(* nobody else holds it.                                                   *)
Holding ==
  /\ \A q \in Requests : pc[q] \in Accepting =>
       /\ token[q] \in Invites
       /\ invite[token[q]].state \in {"open", "expired"}
       /\ invite[token[q]].email = who[q]
  /\ \A q, d \in Requests :
       pc[q] \in Accepting /\ pc[d] \in Accepting /\ token[q] = token[d] => q = d

(* A membership that is being inserted is of a tenant and a user that      *)
(* exist and is not there yet, and nobody else is inserting it.            *)
Inserting ==
  /\ \A q \in Requests : pc[q] = "admitted" =>
       /\ tenants[invite[token[q]].tenant] = "live"
       /\ who[q] \in users
       /\ role[invite[token[q]].tenant][who[q]] = "none"
  /\ \A q, d \in Requests :
       /\ pc[q] = "admitted" /\ pc[d] = "admitted"
       /\ invite[token[q]].tenant = invite[token[d]].tenant
       /\ who[q] = who[d]
       => q = d

(* A row that was written is complete, and an invitation goes with its     *)
(* tenant.                                                                 *)
Complete ==
  /\ \A i \in Invites : invite[i].state = "unsent" => invite[i].tenant = None
  /\ \A i \in Invites : invite[i].state # "unsent" =>
       /\ invite[i].tenant \in Tenants
       /\ invite[i].email \in Users
       /\ invite[i].role \in Granted
       /\ invite[i].state # "deleted" => tenants[invite[i].tenant] = "live"
  /\ \A p \in Projects : project[p] # NoProject => project[p].tenant \in Tenants

(* A deletion of a tenant knows it.  A tenant with a creator exists; the   *)
(* tenants that a deletion of an account disowns are the user's, or have   *)
(* been deleted.                                                           *)
Deleting ==
  /\ \A q \in Requests : pc[q] = "cascading" => tenant[q] \in Tenants
  /\ \A t \in Tenants : created_by[t] # None => tenants[t] = "live"
  /\ \A q \in Requests : disowned[q] # {} => pc[q] = "disowning"
  /\ \A q \in Requests, t \in Tenants : t \in disowned[q] =>
       tenants[t] # "absent" /\ created_by[t] \in {None, who[q]}

Inv == /\ TypeOK /\ OwnerIsCreator /\ NoDangling
       /\ Holding /\ Inserting /\ Complete /\ Deleting

USE MembershipAssumption

-----------------------------------------------------------------------------
(* The start, where there are users and nothing else.                      *)
LEMMA InitInv == Init => Inv
<1> SUFFICES ASSUME Init PROVE Inv
  OBVIOUS
<1> USE DEF Init, Accepting, NoProject
<1>1. TypeOK
  BY DEF TypeOK, Role, Granted, Invitation, Project, Open
<1>2. OwnerIsCreator /\ NoDangling
  BY DEF OwnerIsCreator, NoDangling
<1>3. Holding /\ Inserting /\ Complete /\ Deleting
  BY DEF Holding, Inserting, Complete, Deleting
<1> QED
  BY <1>1, <1>2, <1>3 DEF Inv

(* An answer leaves every request with values of their types.              *)
RequestTypes ==
  /\ row_security \in BOOLEAN
  /\ pc \in [Requests -> Open \union {"idle", "serving"}]
  /\ who \in [Requests -> Users \union {None}]
  /\ tenant \in [Requests -> Tenants \union {None}]
  /\ auth \in [Requests -> Role]
  /\ token \in [Requests -> Invites \union {None}]
  /\ unlinked \in [Requests -> SUBSET Projects]
  /\ disowned \in [Requests -> SUBSET Tenants]
  /\ \A q \in Requests :
       /\ (pc[q] = "idle") = (who[q] = None)
       /\ (auth[q] = "none") = (tenant[q] = None)

LEMMA AnswerTypes ==
  ASSUME TypeOK, NEW q \in Requests, Answer(q)
  PROVE  RequestTypes'
  BY DEF TypeOK, Answer, Goto, RequestTypes, Role, Open

(* Rows with one column changed.                                           *)
LEMMA RowInState ==
  ASSUME NEW x \in Invitation, NEW s \in {"expired", "used", "deleted"}
  PROVE  /\ [x EXCEPT !.state = s] \in Invitation
         /\ [x EXCEPT !.state = s].tenant = x.tenant
         /\ [x EXCEPT !.state = s].email = x.email
         /\ [x EXCEPT !.state = s].role = x.role
         /\ [x EXCEPT !.state = s].state = s
  BY DEF Invitation

LEMMA RowUnlinked ==
  ASSUME NEW x \in Project
  PROVE  [x EXCEPT !.created_by = None] \in Project
  BY DEF Project

(* An answer that leaves the database as it is.                            *)
LEMMA AnswerInv ==
  ASSUME Inv, NEW q \in Requests,
         pc[q] # "idle", Answer(q), UNCHANGED db
  PROVE  Inv'
<1> USE DEF Answer, Goto, db
<1>0. TypeOK /\ OwnerIsCreator /\ NoDangling /\ Holding /\ Inserting /\ Complete /\ Deleting
  BY DEF Inv
<1>1. TypeOK'
  BY <1>0 DEF TypeOK, Role, Granted, NoProject
<1>2. OwnerIsCreator'
  BY <1>0 DEF OwnerIsCreator
<1>3. NoDangling'
  BY <1>0 DEF NoDangling
<1>4. Holding'
  BY <1>0 DEF Holding, Accepting, TypeOK
<1>5. Inserting'
  BY <1>0 DEF Inserting, TypeOK
<1>6. Complete'
  BY <1>0 DEF Complete
<1>7. Deleting'
  BY <1>0 DEF Deleting, TypeOK
<1> QED
  BY <1>1, <1>2, <1>3, <1>4, <1>5, <1>6, <1>7 DEF Inv

(* A request that enters holds nothing.                                    *)
LEMMA EnterInv ==
  ASSUME Inv, NEW q \in Requests, NEW u \in Users, NEW t \in Tenants \union {None},
         Enter(q, u, t)
  PROVE  Inv'
<1> USE DEF Enter, Goto, db, work
<1>0. TypeOK /\ OwnerIsCreator /\ NoDangling /\ Holding /\ Inserting /\ Complete /\ Deleting
  BY DEF Inv
<1>1. TypeOK'
  BY <1>0 DEF TypeOK, Role, Granted, NoProject
<1>2. OwnerIsCreator'
  BY <1>0 DEF OwnerIsCreator
<1>3. NoDangling'
  BY <1>0 DEF NoDangling
<1>4. Holding'
  BY <1>0 DEF Holding, Accepting, TypeOK
<1>5. Inserting'
  BY <1>0 DEF Inserting
<1>6. Complete'
  BY <1>0 DEF Complete
<1>7. Deleting'
  BY <1>0 DEF Deleting
<1> QED
  BY <1>1, <1>2, <1>3, <1>4, <1>5, <1>6, <1>7 DEF Inv

(* A new tenant has its creator as owner, who exists.                      *)
LEMMA CreateTenantInv ==
  ASSUME Inv, NEW q \in Requests, NEW t \in Tenants,
         CreateTenant(q, t)
  PROVE  Inv'
<1> USE DEF CreateTenant, Answer, Goto
<1>0. TypeOK /\ OwnerIsCreator /\ NoDangling /\ Holding /\ Inserting /\ Complete /\ Deleting
  BY DEF Inv
<1>1. TypeOK'
  BY <1>0 DEF TypeOK, Role, Granted, NoProject
<1>2. OwnerIsCreator'
  BY <1>0 DEF OwnerIsCreator, TypeOK
<1>3. NoDangling'
  BY <1>0 DEF NoDangling, TypeOK
<1>4. Holding'
  BY <1>0 DEF Holding, Accepting, TypeOK
<1>5. Inserting'
  BY <1>0 DEF Inserting
<1>6. Complete'
  BY <1>0 DEF Complete
<1>7. Deleting'
  BY <1>0 DEF Deleting, TypeOK
<1> QED
  BY <1>1, <1>2, <1>3, <1>4, <1>5, <1>6, <1>7 DEF Inv

(* A new invitation is of a live tenant, and nobody accepts it yet.        *)
LEMMA InviteInv ==
  ASSUME Inv, NEW q \in Requests, NEW i \in Invites, NEW u \in Users, NEW r \in Granted,
         Invite(q, i, u, r)
  PROVE  Inv'
<1> USE DEF Invite, Staff, Answer, Goto, TenantDeleted
<1>0. TypeOK /\ OwnerIsCreator /\ NoDangling /\ Holding /\ Inserting /\ Complete /\ Deleting
  BY DEF Inv
<1>1. TypeOK'
  BY <1>0 DEF TypeOK, Role, Granted, Invitation, Project, NoProject, Open
<1>2. OwnerIsCreator'
  BY <1>0 DEF OwnerIsCreator
<1>3. NoDangling'
  BY <1>0 DEF NoDangling
<1>4. Holding'
  BY <1>0 DEF Holding, Accepting, TypeOK
<1>5. Inserting'
  BY <1>0 DEF Inserting, Holding, NoDangling, Accepting, Complete, TypeOK
<1>6. Complete'
  BY <1>0 DEF Complete, TypeOK
<1>7. Deleting'
  BY <1>0 DEF Deleting
<1> QED
  BY <1>1, <1>2, <1>3, <1>4, <1>5, <1>6, <1>7 DEF Inv

(* A changed role is neither an owner's nor becomes one.                   *)
LEMMA UpdateRoleInv ==
  ASSUME Inv, NEW q \in Requests, NEW u \in Users, NEW r \in Granted,
         UpdateRole(q, u, r)
  PROVE  Inv'
<1> USE DEF UpdateRole, Staff, Answer, Goto
<1>0. TypeOK /\ OwnerIsCreator /\ NoDangling /\ Holding /\ Inserting /\ Complete /\ Deleting
  BY DEF Inv
<1>1. TypeOK'
  BY <1>0 DEF TypeOK, Role, Granted, NoProject
<1>2. OwnerIsCreator'
  BY <1>0 DEF OwnerIsCreator, NoDangling, Inserting, Complete, Deleting, Accepting, TypeOK, Role, Granted, NoProject
<1>3. NoDangling'
  BY <1>0 DEF NoDangling, OwnerIsCreator, Complete, Deleting, Inserting, Holding, Accepting, TypeOK, Role, Granted, NoProject
<1>4. Holding'
  BY <1>0 DEF Holding, Accepting, TypeOK
<1>5. Inserting'
  BY <1>0 DEF Inserting, Holding, NoDangling, Accepting, Complete, TypeOK, Role, Granted, NoProject
<1>6. Complete'
  BY <1>0 DEF Complete
<1>7. Deleting'
  BY <1>0 DEF Deleting
<1> QED
  BY <1>1, <1>2, <1>3, <1>4, <1>5, <1>6, <1>7 DEF Inv

(* The removed membership is no owner's and none that is being inserted.   *)
LEMMA RemoveMemberInv ==
  ASSUME Inv, NEW q \in Requests, NEW u \in Users,
         RemoveMember(q, u)
  PROVE  Inv'
<1> USE DEF RemoveMember, Staff, Answer, Goto
<1>0. TypeOK /\ OwnerIsCreator /\ NoDangling /\ Holding /\ Inserting /\ Complete /\ Deleting
  BY DEF Inv
<1>1. TypeOK'
  BY <1>0 DEF TypeOK, Role, Granted, NoProject
<1>2. OwnerIsCreator'
  BY <1>0 DEF OwnerIsCreator, NoDangling, Inserting, Complete, Deleting, Accepting, TypeOK, Role, Granted, NoProject
<1>3. NoDangling'
  BY <1>0 DEF NoDangling
<1>4. Holding'
  BY <1>0 DEF Holding, Accepting, TypeOK
<1>5. Inserting'
  BY <1>0 DEF Inserting
<1>6. Complete'
  BY <1>0 DEF Complete
<1>7. Deleting'
  BY <1>0 DEF Deleting
<1> QED
  BY <1>1, <1>2, <1>3, <1>4, <1>5, <1>6, <1>7 DEF Inv

(* A new project has a live tenant and a creator that exists.              *)
LEMMA CreateProjectInv ==
  ASSUME Inv, NEW q \in Requests, NEW p \in Projects,
         CreateProject(q, p)
  PROVE  Inv'
<1> USE DEF CreateProject, Answer, Goto
<1>0. TypeOK /\ OwnerIsCreator /\ NoDangling /\ Holding /\ Inserting /\ Complete /\ Deleting
  BY DEF Inv
<1>1. TypeOK'
  BY <1>0 DEF TypeOK, Role, Granted, Invitation, Project, NoProject, Open
<1>2. OwnerIsCreator'
  BY <1>0 DEF OwnerIsCreator
<1>3. NoDangling'
  BY <1>0 DEF NoDangling
<1>4. Holding'
  BY <1>0 DEF Holding, Accepting, TypeOK
<1>5. Inserting'
  BY <1>0 DEF Inserting
<1>6. Complete'
  BY <1>0 DEF Complete, TypeOK
<1>7. Deleting'
  BY <1>0 DEF Deleting
<1> QED
  BY <1>1, <1>2, <1>3, <1>4, <1>5, <1>6, <1>7 DEF Inv

(* A project that is gone refers to nothing.                               *)
LEMMA DeleteProjectInv ==
  ASSUME Inv, NEW q \in Requests, NEW p \in Projects,
         DeleteProject(q, p)
  PROVE  Inv'
<1> USE DEF DeleteProject, Answer, Goto
<1>0. TypeOK /\ OwnerIsCreator /\ NoDangling /\ Holding /\ Inserting /\ Complete /\ Deleting
  BY DEF Inv
<1>1. TypeOK'
  BY <1>0 DEF TypeOK, Role, Granted, Invitation, Project, NoProject, Open
<1>2. OwnerIsCreator'
  BY <1>0 DEF OwnerIsCreator
<1>3. NoDangling'
  BY <1>0 DEF NoDangling
<1>4. Holding'
  BY <1>0 DEF Holding, Accepting, TypeOK
<1>5. Inserting'
  BY <1>0 DEF Inserting
<1>6. Complete'
  BY <1>0 DEF Complete
<1>7. Deleting'
  BY <1>0 DEF Deleting
<1> QED
  BY <1>1, <1>2, <1>3, <1>4, <1>5, <1>6, <1>7 DEF Inv

(* An acceptance takes an open invitation that nobody holds.               *)
LEMMA SelectInviteInv ==
  ASSUME Inv, NEW q \in Requests, NEW i \in Invites,
         SelectInvite(q, i)
  PROVE  Inv'
<1> USE DEF SelectInvite, InviteHeld, Goto, db, context
<1>0. TypeOK /\ OwnerIsCreator /\ NoDangling /\ Holding /\ Inserting /\ Complete /\ Deleting
  BY DEF Inv
<1>1. TypeOK'
  BY <1>0 DEF TypeOK, Open
<1>2. OwnerIsCreator'
  BY <1>0 DEF OwnerIsCreator
<1>3. NoDangling'
  BY <1>0 DEF NoDangling
<1>4. Holding'
  BY <1>0 DEF Holding, Accepting, TypeOK
<1>5. Inserting'
  BY <1>0 DEF Inserting
<1>6. Complete'
  BY <1>0 DEF Complete
<1>7. Deleting'
  BY <1>0 DEF Deleting
<1> QED
  BY <1>1, <1>2, <1>3, <1>4, <1>5, <1>6, <1>7 DEF Inv

(* The row locks make the inserted membership the only one of its kind.    *)
LEMMA InsertMembershipInv ==
  ASSUME Inv, NEW q \in Requests,
         InsertMembership(q)
  PROVE  Inv'
<1> USE DEF InsertMembership, Joining, TenantDeleted, Goto, db, context, work
<1>0. TypeOK /\ OwnerIsCreator /\ NoDangling /\ Holding /\ Inserting /\ Complete /\ Deleting
  BY DEF Inv
<1>1. TypeOK'
  <2>1. pc' \in [Requests -> Open \union {"idle", "serving"}]
        /\ \A d \in Requests : (pc'[d] = "idle") = (pc[d] = "idle")
    BY <1>0 DEF TypeOK, Open
  <2> QED
    BY <1>0, <2>1 DEF TypeOK
<1>2. OwnerIsCreator'
  BY <1>0 DEF OwnerIsCreator
<1>3. NoDangling'
  BY <1>0 DEF NoDangling
<1>4. Holding'
  BY <1>0 DEF Holding, Accepting, TypeOK, Role, Granted, Invitation, Project, NoProject, Open
<1>5. Inserting'
  <2>1. CASE pc'[q] = "known"
    BY <1>0, <2>1 DEF Inserting, TypeOK
  <2>2. CASE pc'[q] = "admitted"
    <3> DEFINE t == invite[token[q]].tenant
    <3>1. /\ pc[q] = "admitting"
          /\ role[t][who[q]] = "none" /\ who[q] \in users
          /\ \A d \in Requests : pc[d] = "admitted" =>
               ~(invite[token[d]].tenant = t /\ who[d] = who[q])
          /\ pc' = [pc EXCEPT ![q] = "admitted"]
          /\ UNCHANGED <<db, context, work>>
      BY <1>0, <2>2 DEF TypeOK
    <3>2. tenants[t] = "live"
      BY <1>0, <3>1 DEF Holding, Complete, Accepting
    <3> QED
      BY <1>0, <3>1, <3>2 DEF Inserting, TypeOK
  <2> QED
    BY <1>0, <2>1, <2>2 DEF TypeOK
<1>6. Complete'
  BY <1>0 DEF Complete
<1>7. Deleting'
  BY <1>0 DEF Deleting, TypeOK
<1> QED
  BY <1>1, <1>2, <1>3, <1>4, <1>5, <1>6, <1>7 DEF Inv

(* What is committed is what Inserting says of it: no owner, no dangling   *)
(* row.                                                                    *)
LEMMA CommitAcceptInv ==
  ASSUME Inv, NEW q \in Requests,
         CommitAccept(q)
  PROVE  Inv'
<1> USE DEF CommitAccept, Answer, Goto
<1>0. TypeOK /\ OwnerIsCreator /\ NoDangling /\ Holding /\ Inserting /\ Complete /\ Deleting
  BY DEF Inv
<1>1. TypeOK'
  <2>1. token[q] \in Invites /\ who[q] \in Users
    BY <1>0 DEF TypeOK, Holding, Accepting
  <2>2. invite[token[q]].tenant \in Tenants /\ invite[token[q]].role \in Granted
    BY <1>0, <2>1 DEF Holding, Complete, Accepting
  <2>3. invite' \in [Invites -> Invitation]
    <3>1. invite[token[q]] \in Invitation
      BY <1>0, <2>1 DEF TypeOK
    <3>2. [invite[token[q]] EXCEPT !.state = "used"] \in Invitation
      BY <3>1, RowInState
    <3> QED
      BY <1>0, <2>1, <3>2 DEF TypeOK
  <2>4. role' \in [Tenants -> [Users -> Role]]
    BY <1>0, <2>1, <2>2 DEF TypeOK, Role
  <2>5. RequestTypes'
    BY <1>0, AnswerTypes
  <2>6. UNCHANGED <<users, tenants, created_by, project>>
    OBVIOUS
  <2> HIDE DEF CommitAccept
  <2> QED
    BY <1>0, <2>3, <2>4, <2>5, <2>6 DEF TypeOK, RequestTypes
<1>2. OwnerIsCreator'
  <2>1. token[q] \in Invites /\ who[q] \in Users
    BY <1>0 DEF TypeOK, Holding, Accepting
  <2>2. invite[token[q]].tenant \in Tenants /\ invite[token[q]].role \in Granted
    BY <1>0, <2>1 DEF Holding, Complete, Accepting
  <2>3. CASE pc[q] = "known"
    BY <1>0, <2>3 DEF OwnerIsCreator
  <2>4. CASE pc[q] = "admitted"
    <3>1. invite[token[q]].role # "owner"
      BY <2>2 DEF Granted
    <3>2. created_by[invite[token[q]].tenant] # who[q]
      BY <1>0, <2>1, <2>2, <2>4 DEF Inserting, OwnerIsCreator
    <3> QED
      BY <1>0, <2>1, <2>2, <2>4, <3>1, <3>2 DEF OwnerIsCreator, TypeOK
  <2> QED
    BY <2>3, <2>4
<1>3. NoDangling'
  BY <1>0 DEF NoDangling, OwnerIsCreator, Complete, Deleting, Inserting, Holding, Accepting, TypeOK
<1>4. Holding'
  BY <1>0 DEF Holding, Accepting, TypeOK
<1>5. Inserting'
  BY <1>0 DEF Inserting, TypeOK
<1>6. Complete'
  <2>1. \A i \in Invites : /\ invite'[i].tenant = invite[i].tenant
                          /\ invite'[i].email = invite[i].email
                          /\ invite'[i].role = invite[i].role
                          /\ \/ invite'[i].state = invite[i].state
                             \/ invite[i].state \in {"open", "expired"} /\ invite'[i].state = "used"
    BY <1>0 DEF TypeOK, Invitation, Holding, Accepting
  <2>2. UNCHANGED <<tenants, project>>
    OBVIOUS
  <2> HIDE DEF CommitAccept
  <2> QED
    BY <1>0, <2>1, <2>2 DEF Complete
<1>7. Deleting'
  BY <1>0 DEF Deleting
<1> QED
  BY <1>1, <1>2, <1>3, <1>4, <1>5, <1>6, <1>7 DEF Inv

(* What goes with the tenant is what refers to it, and nobody holds that.  *)
LEMMA CascadeTenantInv ==
  ASSUME Inv, NEW q \in Requests,
         CascadeTenant(q)
  PROVE  Inv'
<1> USE DEF CascadeTenant, InviteHeld, ProjectHeld, Answer, Goto
<1>0. TypeOK /\ OwnerIsCreator /\ NoDangling /\ Holding /\ Inserting /\ Complete /\ Deleting
  BY DEF Inv
<1>1. TypeOK'
  <2>1. invite' \in [Invites -> Invitation]
    BY <1>0, RowInState DEF TypeOK
  <2>2. project' \in [Projects -> Project]
    BY <1>0 DEF TypeOK, Project, NoProject
  <2>3. role' \in [Tenants -> [Users -> Role]]
    BY <1>0 DEF TypeOK, Role
  <2>4. tenants' \in [Tenants -> {"absent", "live", "deleted"}]
        /\ created_by' \in [Tenants -> Users \union {None}]
    BY <1>0 DEF TypeOK
  <2>5. RequestTypes'
    BY <1>0, AnswerTypes
  <2>6. UNCHANGED <<row_security, users>>
    BY DEF Answer
  <2> HIDE DEF CascadeTenant
  <2> QED
    BY <1>0, <2>1, <2>2, <2>3, <2>4, <2>5, <2>6 DEF TypeOK, RequestTypes
<1>2. OwnerIsCreator'
  BY <1>0 DEF OwnerIsCreator, TypeOK
<1>3. NoDangling'
  BY <1>0 DEF NoDangling, TypeOK
<1>4. Holding'
  BY <1>0 DEF Holding, Accepting, TypeOK
<1>5. Inserting'
  BY <1>0 DEF Inserting, Holding, NoDangling, Accepting, Complete, TypeOK
<1>6. Complete'
  <2>1. \A i \in Invites : /\ invite'[i].tenant = invite[i].tenant
                          /\ invite'[i].email = invite[i].email
                          /\ invite'[i].role = invite[i].role
    BY <1>0, RowInState DEF TypeOK
  <2>2. tenant[q] # None
    BY <1>0 DEF TypeOK, Deleting
  <2>3. \A i \in Invites : invite[i].state = "unsent" => invite'[i] = invite[i]
    BY <1>0, <2>2 DEF Complete
  <2>4. \A p \in Projects : project'[p] \in {project[p], NoProject}
    BY <1>0
  <2>5. \A i \in Invites :
          \/ invite'[i].state = "deleted" /\ invite[i].state # "unsent"
          \/ /\ invite'[i] = invite[i]
             /\ invite[i].tenant \in Tenants => tenants'[invite[i].tenant] = tenants[invite[i].tenant]
    <3>1. SUFFICES ASSUME NEW i \in Invites
                   PROVE  \/ invite'[i].state = "deleted" /\ invite[i].state # "unsent"
                          \/ /\ invite'[i] = invite[i]
                             /\ invite[i].tenant \in Tenants =>
                                  tenants'[invite[i].tenant] = tenants[invite[i].tenant]
      OBVIOUS
    <3>2. CASE invite[i].tenant = tenant[q]
      <4>1. invite'[i] = [invite[i] EXCEPT !.state = "deleted"]
        BY <3>2
      <4>2. invite'[i].state = "deleted"
        <5>1. invite[i] \in Invitation
          BY <1>0 DEF TypeOK
        <5> HIDE DEF CascadeTenant
        <5> QED
          BY <4>1, <5>1, RowInState
      <4>3. invite[i].state # "unsent"
        BY <1>0, <2>2, <3>2 DEF Complete
      <4> QED
        BY <4>2, <4>3
    <3>3. CASE invite[i].tenant # tenant[q]
      <4>1. invite'[i] = invite[i]
        BY <3>3
      <4>2. invite[i].tenant \in Tenants =>
              tenants'[invite[i].tenant] = tenants[invite[i].tenant]
        BY <1>0, <3>3 DEF TypeOK
      <4> QED
        BY <4>1, <4>2
    <3> QED
      BY <3>2, <3>3
  <2> HIDE DEF CascadeTenant
  <2> QED
    BY <1>0, <2>1, <2>4, <2>5 DEF Complete
<1>7. Deleting'
  BY <1>0 DEF Deleting, TypeOK
<1> QED
  BY <1>1, <1>2, <1>3, <1>4, <1>5, <1>6, <1>7 DEF Inv

(* A deletion of a tenant starts from a tenant.                            *)
LEMMA DeleteTenantInv ==
  ASSUME Inv, NEW q \in Requests,
         DeleteTenant(q)
  PROVE  Inv'
<1> USE DEF DeleteTenant, Goto, db, context, work
<1>0. TypeOK /\ OwnerIsCreator /\ NoDangling /\ Holding /\ Inserting /\ Complete /\ Deleting
  BY DEF Inv
<1>1. TypeOK'
  BY <1>0 DEF TypeOK, Open
<1>2. OwnerIsCreator'
  BY <1>0 DEF OwnerIsCreator
<1>3. NoDangling'
  BY <1>0 DEF NoDangling
<1>4. Holding'
  BY <1>0 DEF Holding, Accepting, TypeOK
<1>5. Inserting'
  BY <1>0 DEF Inserting
<1>6. Complete'
  BY <1>0 DEF Complete
<1>7. Deleting'
  BY <1>0 DEF Deleting, TypeOK
<1> QED
  BY <1>1, <1>2, <1>3, <1>4, <1>5, <1>6, <1>7 DEF Inv

(* Nothing is committed yet.                                               *)
LEMMA UnlinkProjectsInv ==
  ASSUME Inv, NEW q \in Requests,
         UnlinkProjects(q)
  PROVE  Inv'
<1> USE DEF UnlinkProjects, Goto, db, context
<1>0. TypeOK /\ OwnerIsCreator /\ NoDangling /\ Holding /\ Inserting /\ Complete /\ Deleting
  BY DEF Inv
<1>1. TypeOK'
  BY <1>0 DEF TypeOK, Open
<1>2. OwnerIsCreator'
  BY <1>0 DEF OwnerIsCreator
<1>3. NoDangling'
  BY <1>0 DEF NoDangling
<1>4. Holding'
  BY <1>0 DEF Holding, Accepting, TypeOK
<1>5. Inserting'
  BY <1>0 DEF Inserting
<1>6. Complete'
  BY <1>0 DEF Complete
<1>7. Deleting'
  BY <1>0 DEF Deleting
<1> QED
  BY <1>1, <1>2, <1>3, <1>4, <1>5, <1>6, <1>7 DEF Inv

(* A user disowns what the user has created.                               *)
LEMMA DisownTenantsInv ==
  ASSUME Inv, NEW q \in Requests,
         DisownTenants(q)
  PROVE  Inv'
<1> USE DEF DisownTenants, Created, Goto, db, context
<1>0. TypeOK /\ OwnerIsCreator /\ NoDangling /\ Holding /\ Inserting /\ Complete /\ Deleting
  BY DEF Inv
<1>1. TypeOK'
  BY <1>0 DEF TypeOK, Open
<1>2. OwnerIsCreator'
  BY <1>0 DEF OwnerIsCreator
<1>3. NoDangling'
  BY <1>0 DEF NoDangling
<1>4. Holding'
  BY <1>0 DEF Holding, Accepting, TypeOK
<1>5. Inserting'
  BY <1>0 DEF Inserting
<1>6. Complete'
  BY <1>0 DEF Complete
<1>7. Deleting'
  BY <1>0 DEF Deleting, TypeOK
<1> QED
  BY <1>1, <1>2, <1>3, <1>4, <1>5, <1>6, <1>7 DEF Inv

(* Nothing refers to the user: the memberships are deleted, the rest       *)
(* unlinked.                                                               *)
LEMMA DeleteUserInv ==
  ASSUME Inv, NEW q \in Requests,
         DeleteUser(q)
  PROVE  Inv'
<1> USE DEF DeleteUser, Joining, Referred, Created, Answer, Goto
<1>0. TypeOK /\ OwnerIsCreator /\ NoDangling /\ Holding /\ Inserting /\ Complete /\ Deleting
  BY DEF Inv
<1>1. TypeOK'
  <2>1. project' \in [Projects -> Project]
    BY <1>0, RowUnlinked DEF TypeOK
  <2>2. role' \in [Tenants -> [Users -> Role]]
    BY <1>0 DEF TypeOK, Role
  <2>3. created_by' \in [Tenants -> Users \union {None}] /\ users' \subseteq Users
    BY <1>0 DEF TypeOK
  <2> QED
    BY <1>0, <2>1, <2>2, <2>3 DEF TypeOK, Open
<1>2. OwnerIsCreator'
  BY <1>0 DEF OwnerIsCreator, NoDangling, Inserting, Complete, Deleting, Accepting, TypeOK
<1>3. NoDangling'
  BY <1>0 DEF NoDangling, OwnerIsCreator, Complete, Deleting, Inserting, Holding, Accepting, TypeOK, Role, Granted, NoProject
<1>4. Holding'
  BY <1>0 DEF Holding, Accepting, TypeOK
<1>5. Inserting'
  BY <1>0 DEF Inserting, Holding, NoDangling, Accepting, Complete, TypeOK
<1>6. Complete'
  BY <1>0 DEF Complete, Holding, TypeOK, Role, Granted, NoProject
<1>7. Deleting'
  BY <1>0 DEF Deleting, TypeOK
<1> QED
  BY <1>1, <1>2, <1>3, <1>4, <1>5, <1>6, <1>7 DEF Inv

(* An invitation that expires while it is held is still unused.            *)
LEMMA ExpireInv ==
  ASSUME Inv, NEW i \in Invites,
         Expire(i)
  PROVE  Inv'
<1> USE DEF Expire, context, work
<1>0. TypeOK /\ OwnerIsCreator /\ NoDangling /\ Holding /\ Inserting /\ Complete /\ Deleting
  BY DEF Inv
<1>1. TypeOK'
  <2>1. invite' \in [Invites -> Invitation]
    BY <1>0, RowInState DEF TypeOK
  <2> QED
    BY <1>0, <2>1 DEF TypeOK
<1>2. OwnerIsCreator'
  BY <1>0 DEF OwnerIsCreator
<1>3. NoDangling'
  BY <1>0 DEF NoDangling
<1>4. Holding'
  BY <1>0 DEF Holding
<1>5. Inserting'
  BY <1>0 DEF Inserting
<1>6. Complete'
  BY <1>0 DEF Complete
<1>7. Deleting'
  BY <1>0 DEF Deleting
<1> QED
  BY <1>1, <1>2, <1>3, <1>4, <1>5, <1>6, <1>7 DEF Inv

-----------------------------------------------------------------------------
(* The theorems.                                                           *)

(* Every action keeps the invariant.                                       *)
LEMMA NextInv == Inv /\ [Next]_vars => Inv'
<1> SUFFICES ASSUME Inv, [Next]_vars PROVE Inv'
  OBVIOUS
<1>1. CASE UNCHANGED vars
  BY <1>1 DEF vars, db, context, work, Inv, TypeOK, OwnerIsCreator, NoDangling,
              Holding, Inserting, Complete, Deleting
<1>2. ASSUME NEW q \in Requests, NEW u \in Users, NEW t \in Tenants \union {None},
             Enter(q, u, t)
      PROVE  Inv'
  BY <1>2, EnterInv
<1>3. ASSUME NEW q \in Requests, Serve(q) PROVE Inv'
  <2>1. CASE Decline(q) \/ InsertFails(q) \/ DeleteUserFails(q)
    BY <2>1, AnswerInv DEF Decline, InsertFails, DeleteUserFails
  <2>2. CASE \E t \in Tenants : CreateTenant(q, t)
    BY <2>2, CreateTenantInv
  <2>3. CASE \E i \in Invites, u \in Users, r \in Granted : Invite(q, i, u, r)
    BY <2>3, InviteInv
  <2>4. CASE \E u \in Users, r \in Granted : UpdateRole(q, u, r)
    BY <2>4, UpdateRoleInv
  <2>5. CASE \E u \in Users : RemoveMember(q, u)
    BY <2>5, RemoveMemberInv
  <2>6. CASE \E p \in Projects : CreateProject(q, p) \/ DeleteProject(q, p)
    BY <2>6, CreateProjectInv, DeleteProjectInv
  <2>7. CASE \E i \in Invites : SelectInvite(q, i)
    BY <2>7, SelectInviteInv
  <2>8. CASE InsertMembership(q) \/ CommitAccept(q)
    BY <2>8, InsertMembershipInv, CommitAcceptInv
  <2>9. CASE DeleteTenant(q) \/ CascadeTenant(q)
    BY <2>9, DeleteTenantInv, CascadeTenantInv
  <2>10. CASE UnlinkProjects(q) \/ DisownTenants(q) \/ DeleteUser(q)
    BY <2>10, UnlinkProjectsInv, DisownTenantsInv, DeleteUserInv
  <2> QED
    BY <1>3, <2>1, <2>2, <2>3, <2>4, <2>5, <2>6, <2>7, <2>8, <2>9, <2>10 DEF Serve
<1>4. ASSUME NEW q \in Requests, Fail(q) PROVE Inv'
  BY <1>4, AnswerInv DEF Fail, Open
<1>5. ASSUME NEW q \in Requests, Abort(q) PROVE Inv'
  <2>1. \E d : WaitsFor(q, d)
    BY <1>5 DEF Abort, Deadlocked, Circle
  <2>2. pc[q] # "idle"
    BY <2>1 DEF WaitsFor
  <2> QED
    BY <1>5, <2>2, AnswerInv DEF Abort
<1>6. ASSUME NEW i \in Invites, Expire(i) PROVE Inv'
  BY <1>6, ExpireInv
<1> QED
  BY <1>1, <1>2, <1>3, <1>4, <1>5, <1>6 DEF Next

(* The invariant holds of every state of every behaviour.                  *)
LEMMA Invariance == Spec => []Inv
  BY InitInv, NextInv, PTL DEF Spec

(* Every variable keeps its type, and a request has a role exactly if it   *)
(* has a tenant.                                                           *)
THEOREM TypeCorrect == Spec => []TypeOK
<1>1. Inv => TypeOK
  BY DEF Inv
<1> QED
  BY <1>1, Invariance, PTL

(* A tenant has one owner, who created it, or none.                        *)
THEOREM OwnerIsCreatorHolds == Spec => []OwnerIsCreator
<1>1. Inv => OwnerIsCreator
  BY DEF Inv
<1> QED
  BY <1>1, Invariance, PTL

(* No deletion or acceptance leaves a reference to what is gone.           *)
THEOREM NoDanglingHolds == Spec => []NoDangling
<1>1. Inv => NoDangling
  BY DEF Inv
<1> QED
  BY <1>1, Invariance, PTL

-----------------------------------------------------------------------------
(* The two action properties.                                              *)

(* A step of Serve that changes a membership or an invitation is one of    *)
(* these.                                                                  *)
LEMMA Changes ==
  ASSUME NEW q \in Requests, Serve(q)
  PROVE  \/ UNCHANGED <<role, invite>>
         \/ \E t \in Tenants : CreateTenant(q, t)
         \/ \E i \in Invites, u \in Users, r \in Granted : Invite(q, i, u, r)
         \/ \E u \in Users, r \in Granted : UpdateRole(q, u, r)
         \/ \E u \in Users : RemoveMember(q, u)
         \/ CommitAccept(q) \/ CascadeTenant(q) \/ DeleteUser(q)
<1>1. CASE \/ Decline(q) \/ InsertFails(q) \/ DeleteUserFails(q)
           \/ InsertMembership(q) \/ DeleteTenant(q)
           \/ UnlinkProjects(q) \/ DisownTenants(q)
  BY <1>1 DEF Decline, InsertFails, DeleteUserFails, InsertMembership,
              DeleteTenant, UnlinkProjects, DisownTenants, db
<1>2. CASE \E p \in Projects : CreateProject(q, p) \/ DeleteProject(q, p)
  BY <1>2 DEF CreateProject, DeleteProject
<1>3. CASE \E i \in Invites : SelectInvite(q, i)
  BY <1>3 DEF SelectInvite, db
<1> QED
  BY <1>1, <1>2, <1>3 DEF Serve

(* What an acceptance adds is what its invitation says.                    *)
LEMMA AcceptanceSpends ==
  ASSUME Inv, NEW q \in Requests, CommitAccept(q)
  PROVE  JoinIsInvited /\ UsedForGood
<1> DEFINE i == token[q]
<1>1. /\ i \in Invites
      /\ invite[i].email = who[q]
      /\ invite[i].state \in {"open", "expired"}
      /\ invite[i].tenant \in Tenants /\ who[q] \in Users
  BY DEF CommitAccept, Inv, Holding, Complete, Accepting
<1>2. /\ invite'[i].state = "used"
      /\ \A j \in Invites : j # i => invite'[j] = invite[j]
  <2>1. invite[i] \in Invitation
    BY <1>1 DEF Inv, TypeOK
  <2> QED
    BY <1>1, <2>1, RowInState DEF CommitAccept, Inv, TypeOK
<1>3. \A t \in Tenants, u \in Users :
        \/ role'[t][u] = role[t][u]
        \/ t = invite[i].tenant /\ u = who[q] /\ role'[t][u] = invite[i].role
  BY <1>1 DEF CommitAccept, Inv, TypeOK
<1> HIDE DEF i
<1>4. JoinIsInvited
  BY <1>1, <1>2, <1>3 DEF JoinIsInvited
<1>5. UsedForGood
  BY <1>1, <1>2 DEF UsedForGood
<1> QED
  BY <1>4, <1>5

(* The other steps add no membership, but for a new tenant's owner.        *)
LEMMA JoinStep == Inv /\ [Next]_vars => [JoinIsInvited /\ UsedForGood]_<<role, invite>>
<1> SUFFICES ASSUME Inv, Next PROVE [JoinIsInvited /\ UsedForGood]_<<role, invite>>
  BY DEF vars, db
<1>0. TypeOK
  BY DEF Inv
<1>1. ASSUME NEW q \in Requests, Serve(q) PROVE [JoinIsInvited /\ UsedForGood]_<<role, invite>>
  <2>1. ASSUME NEW t \in Tenants, CreateTenant(q, t) PROVE JoinIsInvited /\ UsedForGood
    BY <1>0, <2>1 DEF CreateTenant, TypeOK, JoinIsInvited, UsedForGood
  <2>2. ASSUME NEW i \in Invites, NEW u \in Users, NEW r \in Granted, Invite(q, i, u, r)
        PROVE  JoinIsInvited /\ UsedForGood
    BY <1>0, <2>2 DEF Invite, TypeOK, JoinIsInvited, UsedForGood
  <2>3. ASSUME NEW u \in Users, NEW r \in Granted, UpdateRole(q, u, r)
        PROVE  JoinIsInvited /\ UsedForGood
    BY <1>0, <2>3 DEF UpdateRole, TypeOK, Granted, JoinIsInvited, UsedForGood
  <2>4. ASSUME NEW u \in Users, RemoveMember(q, u) PROVE JoinIsInvited /\ UsedForGood
    BY <1>0, <2>4 DEF RemoveMember, TypeOK, JoinIsInvited, UsedForGood
  <2>5. CASE CascadeTenant(q)
    <3>1. JoinIsInvited
      BY <1>0, <2>5 DEF CascadeTenant, TypeOK, JoinIsInvited
    <3>2. UsedForGood
      BY <1>0, <2>5, RowInState DEF CascadeTenant, TypeOK, UsedForGood
    <3> QED
      BY <3>1, <3>2
  <2>6. CASE DeleteUser(q)
    BY <1>0, <2>6 DEF DeleteUser, TypeOK, JoinIsInvited, UsedForGood
  <2> QED
    BY <1>1, <2>1, <2>2, <2>3, <2>4, <2>5, <2>6, Changes, AcceptanceSpends
<1>2. ASSUME NEW i \in Invites, Expire(i) PROVE JoinIsInvited /\ UsedForGood
  BY <1>0, <1>2 DEF Expire, TypeOK, JoinIsInvited, UsedForGood
<1>3. ASSUME NEW q \in Requests, NEW u \in Users, NEW t \in Tenants \union {None}, Enter(q, u, t)
      PROVE  UNCHANGED <<role, invite>>
  BY <1>3 DEF Enter, db
<1>4. ASSUME NEW q \in Requests, Fail(q) \/ Abort(q)
      PROVE  UNCHANGED <<role, invite>>
  BY <1>4 DEF Fail, Abort, db
<1> QED
  BY <1>1, <1>2, <1>3, <1>4 DEF Next

(* An owner's membership is changed by deletions only.                     *)
LEMMA OwnerStep == Inv /\ [Next]_vars => [OwnerStays]_db
<1> SUFFICES ASSUME Inv, Next PROVE [OwnerStays]_db
  BY DEF vars
<1>0. TypeOK
  BY DEF Inv
<1>1. ASSUME UNCHANGED role PROVE OwnerStays
  BY <1>1 DEF OwnerStays
<1>2. ASSUME NEW q \in Requests, Serve(q) PROVE OwnerStays
  <2>1. ASSUME NEW t \in Tenants, CreateTenant(q, t) PROVE OwnerStays
    BY <1>0, <2>1 DEF CreateTenant, TypeOK, OwnerStays
  <2>2. ASSUME NEW u \in Users, NEW r \in Granted, UpdateRole(q, u, r) PROVE OwnerStays
    BY <1>0, <2>2 DEF UpdateRole, TypeOK, Granted, OwnerStays
  <2>3. ASSUME NEW u \in Users, RemoveMember(q, u) PROVE OwnerStays
    BY <1>0, <2>3 DEF RemoveMember, TypeOK, Granted, OwnerStays
  <2>4. CASE CommitAccept(q)
    <3>1. token[q] \in Invites /\ invite[token[q]].tenant \in Tenants /\ who[q] \in Users
      BY <1>0, <2>4 DEF CommitAccept, Inv, Holding, Complete, TypeOK, Accepting
    <3>2. pc[q] = "admitted" => role[invite[token[q]].tenant][who[q]] = "none"
      BY DEF Inv, Inserting
    <3> QED
      BY <1>0, <2>4, <3>1, <3>2 DEF CommitAccept, TypeOK, OwnerStays
  <2>5. CASE CascadeTenant(q)
    BY <1>0, <2>5 DEF CascadeTenant, TypeOK, OwnerStays
  <2>6. CASE DeleteUser(q)
    BY <1>0, <2>6 DEF DeleteUser, TypeOK, OwnerStays
  <2>7. ASSUME NEW i \in Invites, NEW u \in Users, NEW r \in Granted, Invite(q, i, u, r)
        PROVE  OwnerStays
    BY <1>1, <2>7 DEF Invite
  <2> QED
    BY <1>1, <1>2, <2>1, <2>2, <2>3, <2>4, <2>5, <2>6, <2>7, Changes
<1>3. ASSUME NEW q \in Requests, NEW u \in Users, NEW t \in Tenants \union {None}, Enter(q, u, t)
      PROVE  OwnerStays
  BY <1>1, <1>3 DEF Enter, db
<1>4. ASSUME NEW q \in Requests, Fail(q) \/ Abort(q) PROVE OwnerStays
  BY <1>1, <1>4 DEF Fail, Abort, db
<1>5. ASSUME NEW i \in Invites, Expire(i) PROVE OwnerStays
  BY <1>1, <1>5 DEF Expire
<1> QED
  BY <1>2, <1>3, <1>4, <1>5 DEF Next

(* Every membership spends an invitation, which is never good again.       *)
THEOREM JoinsSpendInvitesHolds == Spec => JoinsSpendInvites
  BY Invariance, JoinStep, PTL DEF Spec, JoinsSpendInvites

(* No owner is removed or demoted.                                         *)
THEOREM OwnerStandsHolds == Spec => OwnerStands
  BY Invariance, OwnerStep, PTL DEF Spec, OwnerStands

-----------------------------------------------------------------------------
(* Who waits for whom.  Only the deletion of an account holds projects.    *)
Unlinking ==
  \A q \in Requests : unlinked[q] # {} => pc[q] \in {"leaving", "disowning"}

LEMMA UnlinkingAnswer ==
  ASSUME TypeOK, Unlinking, NEW q \in Requests, Answer(q)
  PROVE  Unlinking'
  BY DEF TypeOK, Unlinking, Answer, Goto

LEMMA UnlinkingStep ==
  ASSUME TypeOK, Unlinking, NEW q \in Requests, Serve(q)
  PROVE  Unlinking'
<1> USE DEF work, context
<1>1. CASE \/ Decline(q)
           \/ \E t \in Tenants : CreateTenant(q, t)
           \/ \E i \in Invites, u \in Users, r \in Granted : Invite(q, i, u, r)
           \/ \E u \in Users, r \in Granted : UpdateRole(q, u, r)
           \/ \E u \in Users : RemoveMember(q, u)
           \/ \E p \in Projects : CreateProject(q, p) \/ DeleteProject(q, p)
           \/ InsertFails(q) \/ CommitAccept(q) \/ CascadeTenant(q)
           \/ DeleteUser(q) \/ DeleteUserFails(q)
  BY <1>1, UnlinkingAnswer
  DEF Decline, CreateTenant, Invite, UpdateRole, RemoveMember, CreateProject,
      DeleteProject, InsertFails, CommitAccept, CascadeTenant, DeleteUser,
      DeleteUserFails
<1>2. CASE (\E i \in Invites : SelectInvite(q, i)) \/ InsertMembership(q) \/ DeleteTenant(q)
  <2>1. unlinked' = unlinked /\ pc[q] \notin {"leaving", "disowning"}
    BY <1>2 DEF SelectInvite, InsertMembership, DeleteTenant
  <2>2. \A d \in Requests : d # q => pc'[d] = pc[d]
    BY <1>2 DEF SelectInvite, InsertMembership, DeleteTenant, Goto, TypeOK
  <2> QED
    BY <2>1, <2>2 DEF Unlinking
<1>3. CASE UnlinkProjects(q)
  BY <1>3 DEF UnlinkProjects, Goto, TypeOK, Unlinking
<1>4. CASE DisownTenants(q)
  BY <1>4 DEF DisownTenants, Goto, TypeOK, Unlinking
<1> QED
  BY <1>1, <1>2, <1>3, <1>4 DEF Serve

LEMMA UnlinkingNext == Inv /\ Unlinking /\ [Next]_vars => Unlinking'
<1> SUFFICES ASSUME Inv, Unlinking, [Next]_vars PROVE Unlinking'
  OBVIOUS
<1>0. TypeOK
  BY DEF Inv
<1>1. CASE UNCHANGED vars
  BY <1>1 DEF vars, work, Unlinking
<1>2. ASSUME NEW q \in Requests, Serve(q) PROVE Unlinking'
  BY <1>0, <1>2, UnlinkingStep
<1>3. ASSUME NEW q \in Requests, Fail(q) \/ Abort(q) PROVE Unlinking'
  BY <1>0, <1>3, UnlinkingAnswer DEF Fail, Abort
<1>4. ASSUME NEW q \in Requests, NEW u \in Users, NEW t \in Tenants \union {None},
             Enter(q, u, t)
      PROVE  Unlinking'
  BY <1>0, <1>4 DEF Enter, Goto, work, TypeOK, Unlinking
<1>5. ASSUME NEW i \in Invites, Expire(i) PROVE Unlinking'
  BY <1>5 DEF Expire, work, Unlinking
<1> QED
  BY <1>1, <1>2, <1>3, <1>4, <1>5 DEF Next

(* The next statement of a request waits for a row that another one holds. *)
Waits(q) ==
  \/ /\ pc[q] = "admitting" /\ who[q] \in users
     /\ LET t == invite[token[q]].tenant
        IN  \/ Joining(t, who[q])
            \/ role[t][who[q]] = "none" /\ TenantDeleted(t)
  \/ /\ pc[q] = "cascading"
     /\ \/ \E i \in Invites : invite[i].tenant = tenant[q] /\ InviteHeld(i)
        \/ \E p \in Projects : project[p].tenant = tenant[q] /\ ProjectHeld(p)
  \/ /\ pc[q] = "leaving"
     /\ \E t \in Created(who[q]) : TenantDeleted(t) \/ TenantDisowned(t)
  \/ pc[q] = "disowning" /\ ~Referred(q) /\ \E t \in Tenants : Joining(t, who[q])

AtWork == { q \in Requests : pc[q] \in Open }

SomebodyProceeds ==
  AtWork # {} =>
    \/ \E q \in AtWork : ~Waits(q)
    \/ \E q \in AtWork : Deadlocked(q)

(* If all wait, nobody inserts a membership or has disowned a tenant, for  *)
(* these do not wait: each waits for one that waits in turn.               *)
LEMMA AllWait ==
  ASSUME Inv, Unlinking, \A q \in AtWork : Waits(q), NEW q \in AtWork
  PROVE  \E d \in AtWork : WaitsFor(q, d)
<1>0. TypeOK /\ Deleting /\ q \in Requests /\ pc[q] \in Open
  BY DEF Inv, AtWork
<1>1. \A d \in Requests : pc[d] \notin {"admitted", "known"}
  BY DEF AtWork, Open, Waits
<1>2. \A t, u : ~Joining(t, u)
  BY <1>1 DEF Joining
<1>3. \A d \in Requests : pc[d] # "disowning"
  BY <1>2 DEF AtWork, Open, Waits
<1>4. \A t : ~TenantDisowned(t)
  BY <1>0, <1>3 DEF TenantDisowned, Deleting
<1>5. CASE pc[q] = "admitting"
  <2>1. PICK d \in Requests : /\ pc[d] = "cascading"
                              /\ tenant[d] = invite[token[q]].tenant
                              /\ role[tenant[d]][who[q]] = "none"
    BY <1>0, <1>2, <1>5 DEF AtWork, Waits, TenantDeleted
  <2> QED
    BY <1>5, <2>1 DEF WaitsFor, AtWork, Open
<1>6. CASE pc[q] = "leaving"
  <2>1. PICK t \in Created(who[q]) : TenantDeleted(t)
    BY <1>0, <1>4, <1>6 DEF AtWork, Waits
  <2>2. PICK d \in Requests : pc[d] = "cascading" /\ tenant[d] = t
    BY <2>1 DEF TenantDeleted
  <2> QED
    BY <1>6, <2>1, <2>2 DEF WaitsFor, AtWork, Open, Created
<1>7. CASE pc[q] = "cascading"
  <2>1. \/ \E i \in Invites : invite[i].tenant = tenant[q] /\ InviteHeld(i)
        \/ \E p \in Projects : project[p].tenant = tenant[q] /\ ProjectHeld(p)
    BY <1>0, <1>7 DEF AtWork, Waits
  <2>2. ASSUME NEW i \in Invites, invite[i].tenant = tenant[q], InviteHeld(i)
        PROVE  \E d \in AtWork : WaitsFor(q, d)
    <3>1. PICK d \in Requests :
            pc[d] \in {"admitting", "admitted", "known"} /\ token[d] = i
      BY <2>2 DEF InviteHeld
    <3> QED
      BY <1>7, <2>2, <3>1 DEF WaitsFor, AtWork, Open
  <2>3. ASSUME NEW p \in Projects, project[p].tenant = tenant[q], ProjectHeld(p)
        PROVE  \E d \in AtWork : WaitsFor(q, d)
    <3>1. PICK d \in Requests : p \in unlinked[d]
      BY <2>3 DEF ProjectHeld
    <3>2. pc[d] \in Open
      BY <3>1 DEF Unlinking, Open
    <3> QED
      BY <1>7, <2>3, <3>1, <3>2 DEF WaitsFor, AtWork
  <2> QED
    BY <2>1, <2>2, <2>3
<1> QED
  BY <1>0, <1>1, <1>3, <1>5, <1>6, <1>7 DEF Open

(* In a finite circle there is one that no smaller one is part of.         *)
LEMMA LeastCircle ==
  ASSUME NEW W, IsFiniteSet(W), Circle(W)
  PROVE  \E C \in SUBSET W : Circle(C) /\ \A B \in SUBSET C : Circle(B) => B = C
<1> DEFINE Circles == { C \in SUBSET W : Circle(C) }
<1>1. IsWellFoundedOn(StrictSubsetOrdering(W), FiniteSubsetsOf(W))
  BY FS_StrictSubsetOrderingWellFounded
<1>2. Circles \subseteq FiniteSubsetsOf(W) /\ Circles # {}
  BY FS_Subset DEF FiniteSubsetsOf
<1>3. PICK C \in Circles : \A B \in Circles : ~(<<B, C>> \in StrictSubsetOrdering(W))
  <2> HIDE DEF Circles
  <2> QED
    BY <1>1, <1>2, WFMin
<1>4. ASSUME NEW B \in SUBSET C, Circle(B) PROVE B = C
  BY <1>3, <1>4 DEF StrictSubsetOrdering
<1> QED
  BY <1>3, <1>4

(* Transactions wait for each other in circles only, of any length: two    *)
(* users who leave each other's tenants while these are deleted make one   *)
(* of four.  Unless there is one, which PostgreSQL breaks, some request    *)
(* that has a transaction open can go on.                                  *)
THEOREM SomebodyGoesOn ==
  ASSUME IsFiniteSet(Requests) PROVE Spec => []SomebodyProceeds
<1>1. ASSUME Inv, Unlinking PROVE SomebodyProceeds
  <2> SUFFICES ASSUME AtWork # {}, \A q \in AtWork : Waits(q)
               PROVE  \E q \in AtWork : Deadlocked(q)
    BY DEF SomebodyProceeds
  <2>1. Circle(AtWork)
    BY <1>1, AllWait DEF Circle
  <2>2. AtWork \subseteq Requests /\ IsFiniteSet(AtWork)
    BY FS_Subset DEF AtWork
  <2>3. PICK C \in SUBSET AtWork :
          Circle(C) /\ \A B \in SUBSET C : Circle(B) => B = C
    BY <2>1, <2>2, LeastCircle
  <2>4. PICK q \in C : TRUE
    BY <2>3 DEF Circle
  <2> QED
    BY <2>2, <2>3, <2>4 DEF Deadlocked
<1>2. Init => Unlinking
  BY DEF Init, Unlinking
<1> QED
  BY <1>1, <1>2, UnlinkingNext, Invariance, PTL DEF Spec
-----------------------------------------------------------------------------
(* The other side of a tenant: its subscription                            *)

HIDE MembershipAssumption

Buying == {"valid", "written", "priced", "held"}
Writing == {"written", "priced", "held"}

(* A row that is not used has no columns yet, and one that is has.         *)
RowsComplete ==
  /\ \A q \in Prices : price[q].status # "unused" => price[q].plan \in Plans
  /\ \A s \in S!Subs : sub[s].state = "unused" => sub[s] = S!NoSub
  /\ \A c \in Calls :
       call[c].step = "idle" => sub[c].state = "unused"

(* A purchase asks for a price of its plan; the tenant's row that it has   *)
(* written is there, or is new, and no other call writes it.               *)
Purchases ==
  /\ \A c \in Calls : call[c].step \in Buying =>
       /\ call[c].sub \in S!Subs
       /\ call[c].plan \in Plans /\ call[c].price \in Prices
       /\ price[call[c].price].plan = call[c].plan
       /\ price[call[c].price].status # "unused"
       /\ \/ /\ call[c].op = "create" /\ call[c].sub = c
             /\ sub[c].state = "unused"
          \/ call[c].op = "change"
             /\ (call[c].step \in Writing => S!Live(call[c].sub))
  /\ \A c, d \in Calls :
       call[c].step \in Writing /\ call[d].step \in Writing
         /\ call[c].sub = call[d].sub => c = d

(* What a foreign key has checked stays until the transaction ends.        *)
Checked ==
  /\ \A c \in Calls : call[c].step \in {"priced", "held"} =>
       S!Exists(price[call[c].price])
  /\ \A c \in Calls : call[c].step = "held" => S!Exists(plan[call[c].plan])

(* A deletion knows its plan, and holds none that a purchase shares.       *)
Deletions ==
  /\ \A c \in Calls :
       call[c].step \in {"begun", "locked"} => call[c].plan \in Plans
  /\ \A c, d \in Calls :
       /\ call[c].step = "held" /\ call[d].step = "locked"
       /\ call[c].plan = call[d].plan
       => ~S!NewPlan(c)

SInv == /\ S!TypeOK /\ S!NoDangling
        /\ RowsComplete /\ Purchases /\ Checked /\ Deletions

CallRow ==
  [step : {"idle", "begun", "valid", "written", "priced", "held", "locked",
           "done"},
   op : {"none", "create", "change", "delete"}, sub : S!Subs \union {None},
   plan : Plans \union {None}, price : Prices \union {None}]
PlanRow == [name : S!Names, key : S!Roles \union {None}, status : S!Status]
PriceRow == [plan : Plans \union {None}, months : Terms \union {0},
             status : S!Status]
SubRow == [plan : Plans \union {None}, price : Prices \union {None},
           state : {"unused", "live", "deleted"}]

LEMMA RowTypes ==
  /\ S!TypeOK =>
       /\ plan \in [Plans -> PlanRow] /\ price \in [Prices -> PriceRow]
       /\ sub \in [S!Subs -> SubRow] /\ call \in [Calls -> CallRow]
       /\ edits \in 0..EditLimit
       /\ \A q \in Prices : S!Exists(price[q]) =>
            price[q].plan # None /\ price[q].months # 0
       /\ \A s \in S!Subs : S!Live(s) =>
            None \notin {sub[s].plan, sub[s].price}
  /\ /\ plan \in [Plans -> PlanRow] /\ price \in [Prices -> PriceRow]
     /\ sub \in [S!Subs -> SubRow] /\ call \in [Calls -> CallRow]
     /\ edits \in 0..EditLimit
     /\ \A q \in Prices : S!Exists(price[q]) =>
          price[q].plan # None /\ price[q].months # 0
     /\ \A s \in S!Subs : S!Live(s) =>
          None \notin {sub[s].plan, sub[s].price}
     => S!TypeOK
BY DEF S!TypeOK, PlanRow, PriceRow, SubRow, CallRow

LEMMA NewRowTypes ==
  ASSUME plan' \in [Plans -> PlanRow], price' \in [Prices -> PriceRow],
         sub' \in [S!Subs -> SubRow], call' \in [Calls -> CallRow],
         edits' \in 0..EditLimit,
         \A q \in Prices : S!Exists(price'[q]) =>
           price'[q].plan # None /\ price'[q].months # 0,
         \A s \in S!Subs : sub'[s].state = "live" =>
           None \notin {sub'[s].plan, sub'[s].price}
  PROVE  S!TypeOK'
BY DEF S!TypeOK, PlanRow, PriceRow, SubRow, CallRow, S!Exists, S!Live

LEMMA SubscriptionInit ==
  ASSUME S!SubscriptionAssumption, S!Init PROVE SInv
<1>1. /\ SeedPlan \in Plans /\ SeedPrice \in Prices /\ OldSub \notin Calls
      /\ 1 \in Terms /\ EditLimit \in Nat
      /\ None \notin Plans /\ None \notin Prices
  BY DEF S!SubscriptionAssumption
<1>2. plan \in [Plans -> PlanRow]
  BY DEF S!Init, S!NoPlan, PlanRow, S!Names, S!Roles, S!Status
<1>3. price \in [Prices -> PriceRow]
  BY <1>1 DEF S!Init, S!NoPrice, PriceRow, S!Status
<1>4. sub \in [S!Subs -> SubRow]
  BY <1>1 DEF S!Init, S!NoSub, SubRow
<1>5. call \in [Calls -> CallRow] /\ \A c \in Calls : call[c] = S!Idle
  BY DEF S!Init, S!Idle, CallRow
<1>6. S!TypeOK
  <2>1. \A q \in Prices : S!Exists(price[q]) =>
          price[q].plan # None /\ price[q].months # 0
    BY <1>1 DEF S!Init, S!NoPrice, S!Exists
  <2>2. \A s \in S!Subs : S!Live(s) => None \notin {sub[s].plan, sub[s].price}
    BY <1>1 DEF S!Init, S!NoSub, S!Live
  <2> QED
    BY <1>1, <1>2, <1>3, <1>4, <1>5, <2>1, <2>2, RowTypes DEF S!Init
<1>7. S!NoDangling
  BY <1>1 DEF S!NoDangling, S!Init, S!NoSub, S!Live, S!Exists
<1>8. RowsComplete
  BY <1>1 DEF RowsComplete, S!Init, S!NoPrice, S!NoSub, S!Subs
<1>9. Purchases /\ Checked /\ Deletions
  BY <1>5 DEF Purchases, Checked, Deletions, Buying, Writing, S!Idle
<1> QED
  BY <1>6, <1>7, <1>8, <1>9 DEF SInv

(* Where a call may be, by what the rows say and the other calls hold.     *)
CallFits(c, row) ==
  /\ row.step # "idle"
  /\ row.step \in Buying =>
       /\ row.sub \in S!Subs /\ row.plan \in Plans /\ row.price \in Prices
       /\ price[row.price].plan = row.plan
       /\ price[row.price].status # "unused"
       /\ \/ row.op = "create" /\ row.sub = c /\ sub[c].state = "unused"
          \/ /\ row.op = "change"
             /\ row.step \in Writing => S!Live(row.sub)
  /\ row.step \in Writing => \A d \in Calls :
       d # c /\ call[d].step \in Writing => call[d].sub # row.sub
  /\ row.step \in {"priced", "held"} => S!Exists(price[row.price])
  /\ row.step = "held" =>
       /\ S!Exists(plan[row.plan])
       /\ \/ sub[row.sub].plan = row.plan
          \/ ~S!PlanLocked(row.plan)
  /\ row.step \in {"begun", "locked"} => row.plan \in Plans
  /\ row.step = "locked" => ~S!PlanShared(row.plan)

(* A step that moves a call and writes no row.                             *)
LEMMA CallMoves ==
  ASSUME SInv, NEW c \in Calls, NEW row \in CallRow, CallFits(c, row),
         plan' = plan, price' = price, sub' = sub, edits' = edits,
         call' = [call EXCEPT ![c] = row]
  PROVE  SInv'
<1>1. /\ plan \in [Plans -> PlanRow] /\ price \in [Prices -> PriceRow]
      /\ sub \in [S!Subs -> SubRow] /\ call \in [Calls -> CallRow]
      /\ edits \in 0..EditLimit
      /\ \A q \in Prices : S!Exists(price[q]) =>
           price[q].plan # None /\ price[q].months # 0
      /\ \A s \in S!Subs : S!Live(s) =>
           None \notin {sub[s].plan, sub[s].price}
  BY RowTypes DEF SInv
<1>2. /\ call' \in [Calls -> CallRow] /\ call'[c] = row
      /\ \A d \in Calls : d # c => call'[d] = call[d]
  BY <1>1
<1>3. S!TypeOK'
  <2>1. \A s \in S!Subs : sub'[s].state = "live" =>
          None \notin {sub'[s].plan, sub'[s].price}
    BY <1>1 DEF S!Live
  <2> QED
    BY <1>1, <1>2, <2>1, NewRowTypes
<1>4. S!NoDangling'
  BY DEF SInv, S!NoDangling, S!Live, S!Exists
<1>5. RowsComplete'
  BY <1>2 DEF SInv, RowsComplete, CallFits
<1>6. Purchases'
  <2>1. ASSUME NEW d \in Calls, call'[d].step \in Buying
        PROVE  /\ call'[d].sub \in S!Subs
               /\ call'[d].plan \in Plans /\ call'[d].price \in Prices
               /\ price[call'[d].price].plan = call'[d].plan
               /\ price[call'[d].price].status # "unused"
               /\ \/ /\ call'[d].op = "create" /\ call'[d].sub = d
                     /\ sub[d].state = "unused"
                  \/ /\ call'[d].op = "change"
                     /\ call'[d].step \in Writing => S!Live(call'[d].sub)
    BY <1>2, <2>1 DEF SInv, Purchases, CallFits
  <2>2. ASSUME NEW d \in Calls, NEW e \in Calls,
               call'[d].step \in Writing, call'[e].step \in Writing,
               call'[d].sub = call'[e].sub
        PROVE  d = e
    BY <1>2, <2>2 DEF SInv, Purchases, CallFits
  <2> QED
    BY <2>1, <2>2 DEF Purchases, S!Live
<1>7. Checked'
  BY <1>2 DEF SInv, Checked, CallFits, S!Exists
<1>8. Deletions'
  <2>1. ASSUME NEW d \in Calls, call'[d].step \in {"begun", "locked"}
        PROVE  call'[d].plan \in Plans
    BY <1>2, <2>1 DEF SInv, Deletions, CallFits
  <2>2. ASSUME NEW d \in Calls, NEW e \in Calls,
               call'[d].step = "held", call'[e].step = "locked",
               call'[d].plan = call'[e].plan
        PROVE  sub[call'[d].sub].plan = call'[d].plan
    <3>1. CASE d = c
      BY <1>2, <2>2, <3>1 DEF CallFits, S!PlanLocked
    <3>2. CASE e = c
      BY <1>2, <2>2, <3>2 DEF CallFits, S!PlanShared, S!NewPlan
    <3>3. CASE d # c /\ e # c
      BY <1>2, <2>2, <3>3 DEF SInv, Deletions, S!NewPlan
    <3> QED
      BY <3>1, <3>2, <3>3
  <2> QED
    BY <2>1, <2>2 DEF Deletions, S!NewPlan
<1> QED
  BY <1>3, <1>4, <1>5, <1>6, <1>7, <1>8 DEF SInv

LEMMA CallTypes ==
  ASSUME SInv
  PROVE  /\ plan \in [Plans -> PlanRow] /\ price \in [Prices -> PriceRow]
         /\ sub \in [S!Subs -> SubRow] /\ call \in [Calls -> CallRow]
         /\ edits \in 0..EditLimit
         /\ \A q \in Prices : S!Exists(price[q]) =>
              price[q].plan # None /\ price[q].months # 0
         /\ \A s \in S!Subs : S!Live(s) =>
              None \notin {sub[s].plan, sub[s].price}
BY RowTypes DEF SInv

Later == {"begun", "valid", "written", "priced", "held", "locked", "done"}

LEMMA CallGoes ==
  ASSUME SInv, NEW c \in Calls, NEW step \in Later, S!Goto(c, step),
         plan' = plan, price' = price, sub' = sub, edits' = edits,
         LET row == [call[c] EXCEPT !.step = step] IN
           row \in CallRow /\ row.step = step /\ row.op = call[c].op
             /\ row.sub = call[c].sub /\ row.plan = call[c].plan
             /\ row.price = call[c].price
           => CallFits(c, row)
  PROVE  SInv'
<1> DEFINE row == [call[c] EXCEPT !.step = step]
<1>1. call \in [Calls -> CallRow] /\ call[c] \in CallRow
  BY CallTypes
<1>2. row \in CallRow /\ row.step = step /\ row.op = call[c].op
        /\ row.sub = call[c].sub /\ row.plan = call[c].plan
        /\ row.price = call[c].price
  BY <1>1 DEF CallRow, Later
<1>3. CallFits(c, row)
  BY <1>2
<1>4. call' = [call EXCEPT ![c] = row]
  BY <1>1 DEF S!Goto
<1> HIDE DEF row
<1> QED
  BY <1>2, <1>3, <1>4, CallMoves

LEMMA Done ==
  ASSUME SInv, NEW c \in Calls, S!Goto(c, "done"),
         plan' = plan, price' = price, sub' = sub, edits' = edits
  PROVE  SInv'
<1>1. ASSUME NEW row, row.step = "done" PROVE CallFits(c, row)
  BY <1>1 DEF CallFits, Buying, Writing
<1>2. "done" \in Later
  BY DEF Later
<1> QED
  BY <1>1, <1>2, CallGoes

LEMMA PurchaseSteps ==
  ASSUME S!SubscriptionAssumption, SInv, NEW c \in Calls,
         S!WriteTenant(c) \/ S!CheckPrice(c) \/ S!CheckPlan(c)
  PROVE  SInv'
<1>0. \/ call[c].step \notin Buying
      \/ /\ call[c].sub \in S!Subs
         /\ call[c].plan \in Plans /\ call[c].price \in Prices
         /\ price[call[c].price].plan = call[c].plan
         /\ price[call[c].price].status # "unused"
         /\ \/ /\ call[c].op = "create" /\ call[c].sub = c
               /\ sub[c].state = "unused"
            \/ /\ call[c].op = "change"
               /\ call[c].step \in Writing => S!Live(call[c].sub)
  BY DEF SInv, Purchases
<1>1. /\ "written" \in Later /\ "priced" \in Later /\ "held" \in Later
  BY DEF Later
<1>2. CASE S!WriteTenant(c)
  <2>1. /\ call[c].step = "valid" /\ ~S!SubLocked(call[c].sub)
        /\ plan' = plan /\ price' = price /\ sub' = sub /\ edits' = edits
    BY <1>2 DEF S!WriteTenant, S!Waits
  <2>2. CASE S!Goto(c, "done")
    BY <2>1, <2>2, Done
  <2>3. CASE /\ S!Goto(c, "written")
             /\ ~(call[c].op = "change" /\ ~S!Live(call[c].sub))
    <3>1. ASSUME NEW row, row.step = "written", row.op = call[c].op,
                 row.sub = call[c].sub, row.plan = call[c].plan,
                 row.price = call[c].price
          PROVE  CallFits(c, row)
      <4>1. \A d \in Calls : call[d].step \in Writing =>
              call[d].sub # row.sub
        BY <2>1, <3>1 DEF S!SubLocked, Writing
      <4>2. call[c].step \in Buying
        BY <2>1 DEF Buying
      <4> QED
        BY <1>0, <2>3, <3>1, <4>1, <4>2 DEF CallFits, Buying, Writing
    <3> QED
      BY <1>1, <2>1, <2>3, <3>1, CallGoes
  <2> QED
    BY <1>2, <2>2, <2>3 DEF S!WriteTenant
<1>3. CASE S!CheckPrice(c)
  <2>1. /\ call[c].step = "written"
        /\ plan' = plan /\ price' = price /\ sub' = sub /\ edits' = edits
    BY <1>3 DEF S!CheckPrice
  <2>2. CASE S!Goto(c, "done")
    BY <2>1, <2>2, Done
  <2>3. CASE /\ S!Goto(c, "priced")
             /\ ~(S!NewPrice(c) /\ ~S!Exists(price[call[c].price]))
    <3>1. S!Exists(price[call[c].price])
      <4>1. CASE S!NewPrice(c)
        BY <2>3, <4>1
      <4>2. CASE ~S!NewPrice(c)
        <5>1. sub[call[c].sub].price = call[c].price
          BY <4>2 DEF S!NewPrice
        <5>2. call[c].sub \in S!Subs /\ call[c].price \in Prices
              /\ (S!Live(call[c].sub)
                    \/ (call[c].sub = c /\ sub[c].state = "unused"))
          BY <1>0, <2>1 DEF Buying, Writing
        <5>3. CASE S!Live(call[c].sub)
          BY <5>1, <5>2, <5>3 DEF SInv, S!NoDangling
        <5>4. CASE call[c].sub = c /\ sub[c].state = "unused"
          <6>1. sub[c].price = None /\ None \notin Prices
            BY <5>2, <5>4 DEF SInv, RowsComplete, S!NoSub,
                              S!SubscriptionAssumption
          <6> QED
            BY <5>1, <5>2, <5>4, <6>1
        <5> QED
          BY <5>2, <5>3, <5>4
      <4> QED
        BY <4>1, <4>2
    <3>2. ASSUME NEW row, row.step = "priced", row.op = call[c].op,
                 row.sub = call[c].sub, row.plan = call[c].plan,
                 row.price = call[c].price
          PROVE  CallFits(c, row)
      <4>1. \A d \in Calls : d # c /\ call[d].step \in Writing =>
              call[d].sub # row.sub
        BY <2>1, <3>2 DEF SInv, Purchases, Writing
      <4>2. call[c].step \in Buying /\ call[c].step \in Writing
        BY <2>1 DEF Buying, Writing
      <4> QED
        BY <1>0, <3>1, <3>2, <4>1, <4>2 DEF CallFits, Buying, Writing
    <3> QED
      BY <1>1, <2>1, <2>3, <3>2, CallGoes
  <2> QED
    BY <1>3, <2>2, <2>3 DEF S!CheckPrice
<1>4. CASE S!CheckPlan(c)
  <2>1. /\ call[c].step = "priced"
        /\ S!NewPlan(c) => ~S!PlanLocked(call[c].plan)
        /\ plan' = plan /\ price' = price /\ sub' = sub /\ edits' = edits
    BY <1>4 DEF S!CheckPlan, S!Waits
  <2>2. CASE S!Goto(c, "done")
    BY <2>1, <2>2, Done
  <2>3. CASE /\ S!Goto(c, "held")
             /\ ~(S!NewPlan(c) /\ ~S!Exists(plan[call[c].plan]))
    <3>1. S!Exists(plan[call[c].plan])
      <4>1. CASE S!NewPlan(c)
        BY <2>3, <4>1
      <4>2. CASE ~S!NewPlan(c)
        <5>1. sub[call[c].sub].plan = call[c].plan
          BY <4>2 DEF S!NewPlan
        <5>2. call[c].sub \in S!Subs /\ call[c].plan \in Plans
              /\ (S!Live(call[c].sub)
                    \/ (call[c].sub = c /\ sub[c].state = "unused"))
          BY <1>0, <2>1 DEF Buying, Writing
        <5>3. CASE S!Live(call[c].sub)
          BY <5>1, <5>2, <5>3 DEF SInv, S!NoDangling
        <5>4. CASE call[c].sub = c /\ sub[c].state = "unused"
          <6>1. sub[c].plan = None /\ None \notin Plans
            BY <5>2, <5>4 DEF SInv, RowsComplete, S!NoSub,
                              S!SubscriptionAssumption
          <6> QED
            BY <5>1, <5>2, <5>4, <6>1
        <5> QED
          BY <5>2, <5>3, <5>4
      <4> QED
        BY <4>1, <4>2
    <3>2. ASSUME NEW row, row.step = "held", row.op = call[c].op,
                 row.sub = call[c].sub, row.plan = call[c].plan,
                 row.price = call[c].price
          PROVE  CallFits(c, row)
      <4>1. \A d \in Calls : d # c /\ call[d].step \in Writing =>
              call[d].sub # row.sub
        BY <2>1, <3>2 DEF SInv, Purchases, Writing
      <4>2. /\ call[c].step \in Buying /\ call[c].step \in Writing
            /\ S!Exists(price[call[c].price])
        BY <2>1 DEF Buying, Writing, SInv, Checked
      <4>3. sub[row.sub].plan = row.plan \/ ~S!PlanLocked(row.plan)
        BY <2>1, <3>2 DEF S!NewPlan
      <4> QED
        BY <1>0, <3>1, <3>2, <4>1, <4>2, <4>3
        DEF CallFits, Buying, Writing
    <3> QED
      BY <1>1, <2>1, <2>3, <3>2, CallGoes
  <2> QED
    BY <1>4, <2>2, <2>3 DEF S!CheckPlan
<1> QED
  BY <1>2, <1>3, <1>4

LEMMA OtherCallSteps ==
  ASSUME SInv, NEW c \in Calls,
         \/ \E op \in {"create", "change"}, s \in S!Subs, p \in Plans,
               q \in Prices : S!Select(c, op, s, p, q)
         \/ \E p \in Plans : S!BeginDelete(c, p)
         \/ S!LockPlan(c)
         \/ \E d \in Calls : S!ResolveDeadlock(c, d)
         \/ S!Fail(c)
  PROVE  SInv'
<1>1. ASSUME NEW op \in {"create", "change"}, NEW s \in S!Subs,
             NEW p \in Plans, NEW q \in Prices, S!Select(c, op, s, p, q)
      PROVE  SInv'
  <2> DEFINE row ==
        [step |-> IF S!Validates(p, q) THEN "valid" ELSE "done",
         op |-> op, sub |-> s, plan |-> p, price |-> q]
  <2>1. /\ call[c].step = "idle"
        /\ \/ op = "create" /\ s = c
           \/ op = "change" /\ S!Live(s)
        /\ call' = [call EXCEPT ![c] = row]
        /\ plan' = plan /\ price' = price /\ sub' = sub /\ edits' = edits
    BY <1>1 DEF S!Select
  <2>2. /\ row \in CallRow /\ row.op = op /\ row.sub = s
        /\ row.plan = p /\ row.price = q
        /\ row.step = IF S!Validates(p, q) THEN "valid" ELSE "done"
    BY DEF CallRow
  <2> HIDE DEF row
  <2>3. CallFits(c, row)
    <3>1. CASE S!Validates(p, q)
      <4>1. sub[c].state = "unused"
        BY <2>1 DEF SInv, RowsComplete
      <4> QED
        BY <2>1, <2>2, <3>1, <4>1
        DEF CallFits, Buying, Writing, S!Validates
    <3>2. CASE ~S!Validates(p, q)
      BY <2>2, <3>2 DEF CallFits, Buying, Writing
    <3> QED
      BY <3>1, <3>2
  <2> QED
    BY <2>1, <2>2, <2>3, CallMoves
<1>2. ASSUME NEW p \in Plans, S!BeginDelete(c, p)
      PROVE  SInv'
  <2> DEFINE row == [S!Idle EXCEPT !.step = "begun", !.op = "delete",
                                   !.plan = p]
  <2>1. /\ call' = [call EXCEPT ![c] = row]
        /\ plan' = plan /\ price' = price /\ sub' = sub /\ edits' = edits
    BY <1>2 DEF S!BeginDelete
  <2>2. row \in CallRow /\ row.step = "begun" /\ row.plan = p
    BY DEF S!Idle, CallRow
  <2> HIDE DEF row
  <2>3. CallFits(c, row)
    BY <2>2 DEF CallFits, Buying, Writing
  <2> QED
    BY <2>1, <2>2, <2>3, CallMoves
<1>3. CASE S!LockPlan(c)
  <2>1. /\ call[c].step = "begun" /\ ~S!PlanShared(call[c].plan)
        /\ plan' = plan /\ price' = price /\ sub' = sub /\ edits' = edits
        /\ S!Goto(c, "locked") \/ S!Goto(c, "done")
    BY <1>3 DEF S!LockPlan, S!Waits
  <2>2. call[c].plan \in Plans
    BY <2>1 DEF SInv, Deletions
  <2>3. ASSUME NEW row, row.step = "locked", row.plan = call[c].plan
        PROVE  CallFits(c, row)
    BY <2>1, <2>2, <2>3 DEF CallFits, Buying, Writing
  <2>4. "locked" \in Later
    BY DEF Later
  <2>5. CASE S!Goto(c, "locked")
    BY <2>1, <2>3, <2>4, <2>5, CallGoes
  <2> QED
    BY <2>1, <2>5, Done
<1>4. ASSUME NEW d \in Calls, S!ResolveDeadlock(c, d)
      PROVE  SInv'
  BY <1>4, Done DEF S!ResolveDeadlock
<1>5. CASE S!Fail(c)
  BY <1>5, Done DEF S!Fail
<1> QED
  BY <1>1, <1>2, <1>3, <1>4, <1>5

LEMMA CommitStep ==
  ASSUME S!SubscriptionAssumption, SInv, NEW c \in Calls, S!CommitTenant(c)
  PROVE  SInv'
<1> DEFINE s == call[c].sub
           row == [plan |-> call[c].plan, price |-> call[c].price,
                   state |-> "live"]
           new == [call[c] EXCEPT !.step = "done"]
<1>0. /\ plan \in [Plans -> PlanRow] /\ price \in [Prices -> PriceRow]
      /\ sub \in [S!Subs -> SubRow] /\ call \in [Calls -> CallRow]
      /\ edits \in 0..EditLimit
      /\ \A q \in Prices : S!Exists(price[q]) =>
           price[q].plan # None /\ price[q].months # 0
      /\ \A t \in S!Subs : S!Live(t) =>
           None \notin {sub[t].plan, sub[t].price}
  BY CallTypes
<1>1. /\ call[c].step = "held"
      /\ sub' = [sub EXCEPT ![s] = row]
      /\ call' = [call EXCEPT ![c] = new]
      /\ plan' = plan /\ price' = price /\ edits' = edits
  BY <1>0 DEF S!CommitTenant, S!Goto
<1>2. /\ s \in S!Subs /\ call[c].plan \in Plans /\ call[c].price \in Prices
      /\ price[call[c].price].plan = call[c].plan
      /\ S!Exists(price[call[c].price]) /\ S!Exists(plan[call[c].plan])
      /\ \/ s = c /\ sub[c].state = "unused"
         \/ S!Live(s)
  BY <1>1 DEF SInv, Purchases, Checked, Buying, Writing
<1>3. /\ row \in SubRow /\ row.plan = call[c].plan
      /\ row.price = call[c].price /\ row.state = "live"
  BY <1>2 DEF SubRow
<1>4. new \in CallRow /\ new.step = "done"
  BY <1>0 DEF CallRow
<1>5. \A d \in Calls : d # c /\ call[d].step \in Writing => call[d].sub # s
  BY <1>1 DEF SInv, Purchases, Writing
<1> HIDE DEF s, row, new
<1>6. /\ sub' \in [S!Subs -> SubRow] /\ sub'[s] = row
      /\ \A t \in S!Subs : t # s => sub'[t] = sub[t]
      /\ call' \in [Calls -> CallRow] /\ call'[c] = new
      /\ \A d \in Calls : d # c => call'[d] = call[d]
  BY <1>0, <1>1, <1>2, <1>3, <1>4
<1>7. \A d \in Calls : d \in S!Subs
  BY DEF S!Subs
<1>8. \A d \in Calls : d # c /\ sub[d].state = "unused" => d # s
  BY <1>2 DEF S!Live
<1>9. S!TypeOK'
  <2>1. \A t \in S!Subs : sub'[t].state = "live" =>
          None \notin {sub'[t].plan, sub'[t].price}
    <3>1. None \notin {row.plan, row.price}
      BY <1>2, <1>3 DEF S!SubscriptionAssumption
    <3> QED
      BY <1>0, <1>6, <3>1 DEF S!Live
  <2> QED
    BY <1>0, <1>1, <1>6, <2>1, NewRowTypes
<1>10. S!NoDangling'
  <2>1. ASSUME NEW t \in S!Subs, sub'[t].state = "live"
        PROVE  /\ S!Exists(plan[sub'[t].plan])
               /\ S!Exists(price[sub'[t].price])
               /\ price[sub'[t].price].plan = sub'[t].plan
    <3>1. CASE t = s
      BY <1>2, <1>3, <1>6, <3>1
    <3>2. CASE t # s
      BY <1>6, <2>1, <3>2 DEF SInv, S!NoDangling, S!Live
    <3> QED
      BY <3>1, <3>2
  <2> QED
    BY <1>1, <2>1 DEF S!NoDangling, S!Live, S!Exists
<1>11. RowsComplete'
  BY <1>1, <1>3, <1>4, <1>6, <1>7, <1>8 DEF SInv, RowsComplete, S!NoSub
<1>12. Purchases'
  <2>1. ASSUME NEW d \in Calls, call'[d].step \in Buying
        PROVE  /\ call'[d].sub \in S!Subs
               /\ call'[d].plan \in Plans /\ call'[d].price \in Prices
               /\ price[call'[d].price].plan = call'[d].plan
               /\ price[call'[d].price].status # "unused"
               /\ \/ /\ call'[d].op = "create" /\ call'[d].sub = d
                     /\ sub'[d].state = "unused"
                  \/ /\ call'[d].op = "change"
                     /\ call'[d].step \in Writing =>
                          sub'[call'[d].sub].state = "live"
    <3>1. d # c /\ call'[d] = call[d]
      BY <1>4, <1>6, <2>1 DEF Buying
    <3> QED
      BY <1>3, <1>6, <1>7, <1>8, <2>1, <3>1 DEF SInv, Purchases, S!Live
  <2>2. ASSUME NEW d \in Calls, NEW e \in Calls,
               call'[d].step \in Writing, call'[e].step \in Writing,
               call'[d].sub = call'[e].sub
        PROVE  d = e
    <3>1. d # c /\ e # c /\ call'[d] = call[d] /\ call'[e] = call[e]
      BY <1>4, <1>6, <2>2 DEF Writing
    <3> QED
      BY <2>2, <3>1 DEF SInv, Purchases
  <2> QED
    BY <1>1, <2>1, <2>2 DEF Purchases, S!Live
<1>13. Checked'
  BY <1>1, <1>4, <1>6 DEF SInv, Checked, S!Exists
<1>14. Deletions'
  <2>1. \A d \in Calls : call'[d].step \in {"begun", "locked"} =>
          call'[d].plan \in Plans
    BY <1>4, <1>6 DEF SInv, Deletions
  <2>2. ASSUME NEW d \in Calls, NEW e \in Calls,
               call'[d].step = "held", call'[e].step = "locked",
               call'[d].plan = call'[e].plan
        PROVE  sub'[call'[d].sub].plan = call'[d].plan
    <3>1. d # c /\ e # c /\ call'[d] = call[d] /\ call'[e] = call[e]
      BY <1>4, <1>6, <2>2
    <3>2. call[d].sub \in S!Subs /\ call[d].sub # s
      BY <1>5, <2>2, <3>1 DEF SInv, Purchases, Buying, Writing
    <3> QED
      BY <1>6, <2>2, <3>1, <3>2 DEF SInv, Deletions, S!NewPlan
  <2> QED
    BY <2>1, <2>2 DEF Deletions, S!NewPlan
<1> QED
  BY <1>9, <1>10, <1>11, <1>12, <1>13, <1>14 DEF SInv

(* Plans and prices are written; a row that goes is shared by no call and  *)
(* belongs to no subscription.  The calls stay where they are, but for one *)
(* that ends.                                                              *)
LEMMA RowsChange ==
  ASSUME S!SubscriptionAssumption, SInv,
         plan' \in [Plans -> PlanRow], price' \in [Prices -> PriceRow],
         sub' = sub, call' \in [Calls -> CallRow], edits' \in 0..EditLimit,
         \A c \in Calls : \/ call'[c] = call[c]
                          \/ call'[c].step = "done",
         \A q \in Prices : S!Exists(price'[q]) =>
           price'[q].plan \in Plans /\ price'[q].months \in Terms,
         \A q \in Prices : price[q].status # "unused" =>
           price'[q].status # "unused" /\ price'[q].plan = price[q].plan,
         \A q \in Prices : price'[q].status # "unused" =>
           price'[q].plan \in Plans,
         \A p \in Plans : S!Exists(plan[p]) /\ ~S!Exists(plan'[p]) =>
           /\ \A s \in S!Subs : S!Live(s) => sub[s].plan # p
           /\ ~S!PlanShared(p),
         \A q \in Prices : S!Exists(price[q]) /\ ~S!Exists(price'[q]) =>
           /\ \A s \in S!Subs : S!Live(s) => sub[s].price # q
           /\ ~S!PriceShared(q)
  PROVE  SInv'
<1>0. /\ plan \in [Plans -> PlanRow] /\ price \in [Prices -> PriceRow]
      /\ sub \in [S!Subs -> SubRow] /\ call \in [Calls -> CallRow]
      /\ \A t \in S!Subs : S!Live(t) =>
           None \notin {sub[t].plan, sub[t].price}
  BY CallTypes
<1>1. None \notin Plans /\ None \notin Prices /\ 0 \notin Terms
  BY DEF S!SubscriptionAssumption
<1>2. S!TypeOK'
  <2>1. \A t \in S!Subs : sub'[t].state = "live" =>
          None \notin {sub'[t].plan, sub'[t].price}
    BY <1>0 DEF S!Live
  <2>2. \A q \in Prices : S!Exists(price'[q]) =>
          price'[q].plan # None /\ price'[q].months # 0
    BY <1>1
  <2>3. sub' \in [S!Subs -> SubRow]
    BY <1>0
  <2> QED
    BY <2>1, <2>2, <2>3, NewRowTypes
<1>3. S!NoDangling'
  <2>1. ASSUME NEW s \in S!Subs, S!Live(s)
        PROVE  /\ S!Exists(plan'[sub[s].plan])
               /\ S!Exists(price'[sub[s].price])
               /\ price'[sub[s].price].plan = sub[s].plan
    <3>1. /\ S!Exists(plan[sub[s].plan]) /\ S!Exists(price[sub[s].price])
          /\ price[sub[s].price].plan = sub[s].plan
      BY <2>1 DEF SInv, S!NoDangling
    <3>2. sub[s].plan \in Plans /\ sub[s].price \in Prices
      BY <1>0, <2>1 DEF SubRow
    <3>3. price[sub[s].price].status # "unused"
      BY <3>1 DEF S!Exists
    <3> QED
      BY <2>1, <3>1, <3>2, <3>3
  <2> QED
    BY <2>1 DEF S!NoDangling, S!Live, S!Exists
<1>4. RowsComplete'
  BY DEF SInv, RowsComplete
<1>5. Purchases'
  <2>1. ASSUME NEW d \in Calls, call'[d].step \in Buying
        PROVE  /\ call'[d].sub \in S!Subs
               /\ call'[d].plan \in Plans /\ call'[d].price \in Prices
               /\ price'[call'[d].price].plan = call'[d].plan
               /\ price'[call'[d].price].status # "unused"
               /\ \/ /\ call'[d].op = "create" /\ call'[d].sub = d
                     /\ sub[d].state = "unused"
                  \/ /\ call'[d].op = "change"
                     /\ call'[d].step \in Writing => S!Live(call'[d].sub)
    <3>1. call'[d] = call[d]
      BY <2>1 DEF Buying
    <3> QED
      BY <2>1, <3>1 DEF SInv, Purchases
  <2>2. ASSUME NEW d \in Calls, NEW e \in Calls,
               call'[d].step \in Writing, call'[e].step \in Writing,
               call'[d].sub = call'[e].sub
        PROVE  d = e
    <3>1. call'[d] = call[d] /\ call'[e] = call[e]
      BY <2>2 DEF Writing
    <3> QED
      BY <2>2, <3>1 DEF SInv, Purchases
  <2> QED
    BY <2>1, <2>2 DEF Purchases, S!Live
<1>6. Checked'
  <2>1. ASSUME NEW c \in Calls, call'[c].step \in {"priced", "held"}
        PROVE  S!Exists(price'[call'[c].price])
    <3>1. /\ call'[c] = call[c] /\ call[c].step \in {"priced", "held"}
          /\ call[c].step \in Buying /\ call[c].step \in Writing
      BY <2>1 DEF Buying, Writing
    <3>2. /\ call[c].price \in Prices /\ S!Exists(price[call[c].price])
          /\ call[c].sub \in S!Subs
          /\ \/ call[c].sub = c /\ sub[c].state = "unused"
             \/ S!Live(call[c].sub)
      BY <3>1 DEF SInv, Checked, Purchases
    <3>3. SUFFICES ASSUME ~S!Exists(price'[call[c].price]) PROVE FALSE
      BY <3>1
    <3>4. ~S!NewPrice(c)
      BY <3>1, <3>2, <3>3 DEF S!PriceShared
    <3>5. sub[call[c].sub].price = call[c].price
      BY <3>4 DEF S!NewPrice
    <3>6. CASE S!Live(call[c].sub)
      BY <3>2, <3>3, <3>5, <3>6
    <3>7. CASE call[c].sub = c /\ sub[c].state = "unused"
      BY <1>1, <3>2, <3>5, <3>7 DEF SInv, RowsComplete, S!NoSub
    <3> QED
      BY <3>2, <3>6, <3>7
  <2>2. ASSUME NEW c \in Calls, call'[c].step = "held"
        PROVE  S!Exists(plan'[call'[c].plan])
    <3>1. /\ call'[c] = call[c] /\ call[c].step = "held"
          /\ call[c].step \in Buying /\ call[c].step \in Writing
      BY <2>2 DEF Buying, Writing
    <3>2. /\ call[c].plan \in Plans /\ S!Exists(plan[call[c].plan])
          /\ call[c].sub \in S!Subs
          /\ \/ call[c].sub = c /\ sub[c].state = "unused"
             \/ S!Live(call[c].sub)
      BY <3>1 DEF SInv, Checked, Purchases
    <3>3. SUFFICES ASSUME ~S!Exists(plan'[call[c].plan]) PROVE FALSE
      BY <3>1
    <3>4. ~S!NewPlan(c)
      BY <3>1, <3>2, <3>3 DEF S!PlanShared
    <3>5. sub[call[c].sub].plan = call[c].plan
      BY <3>4 DEF S!NewPlan
    <3>6. CASE S!Live(call[c].sub)
      BY <3>2, <3>3, <3>5, <3>6
    <3>7. CASE call[c].sub = c /\ sub[c].state = "unused"
      BY <1>1, <3>2, <3>5, <3>7 DEF SInv, RowsComplete, S!NoSub
    <3> QED
      BY <3>2, <3>6, <3>7
  <2> QED
    BY <2>1, <2>2 DEF Checked, S!Exists
<1>7. Deletions'
  <2>1. ASSUME NEW c \in Calls, call'[c].step \in {"begun", "locked"}
        PROVE  call'[c].plan \in Plans
    BY <2>1 DEF SInv, Deletions
  <2>2. ASSUME NEW d \in Calls, NEW e \in Calls,
               call'[d].step = "held", call'[e].step = "locked",
               call'[d].plan = call'[e].plan
        PROVE  sub[call'[d].sub].plan = call'[d].plan
    BY <2>2 DEF SInv, Deletions, S!NewPlan
  <2> QED
    BY <2>1, <2>2 DEF Deletions, S!NewPlan
<1> QED
  BY <1>2, <1>3, <1>4, <1>5, <1>6, <1>7 DEF SInv

LEMMA CascadeStep ==
  ASSUME S!SubscriptionAssumption, SInv, NEW c \in Calls, S!Cascade(c)
  PROVE  SInv'
<1> DEFINE p == call[c].plan
<1>0. /\ plan \in [Plans -> PlanRow] /\ price \in [Prices -> PriceRow]
      /\ call \in [Calls -> CallRow] /\ edits \in 0..EditLimit
  BY CallTypes
<1>1. /\ call[c].step = "locked" /\ S!Goto(c, "done")
      /\ sub' = sub /\ edits' = edits
      /\ \A q \in S!PricesOf(p) : ~S!PriceShared(q)
  BY DEF S!Cascade, S!Waits
<1>2. CASE plan' = plan /\ price' = price
  BY <1>1, <1>2, Done
<1>3. CASE /\ ~S!Subscribed(p)
           /\ plan' = [plan EXCEPT ![p].status = "deleted"]
           /\ price' = [q \in Prices |->
                IF q \in S!PricesOf(p)
                THEN [price[q] EXCEPT !.status = "deleted"] ELSE price[q]]
  <2>1. p \in Plans
    BY <1>1 DEF SInv, Deletions
  <2>2. /\ plan' \in [Plans -> PlanRow]
        /\ \A r \in Plans : r # p => plan'[r] = plan[r]
    BY <1>0, <1>3, <2>1 DEF PlanRow, S!Status
  <2>3. /\ price' \in [Prices -> PriceRow]
        /\ \A q \in Prices : \/ price'[q] = price[q]
                            \/ /\ q \in S!PricesOf(p)
                               /\ price'[q].status = "deleted"
                               /\ price'[q].plan = price[q].plan
    BY <1>0, <1>3 DEF PriceRow, S!Status
  <2>4. /\ call' \in [Calls -> CallRow]
        /\ \A d \in Calls : call'[d] = call[d] \/ call'[d].step = "done"
    <3> DEFINE new == [call[c] EXCEPT !.step = "done"]
    <3>1. new \in CallRow /\ new.step = "done"
      BY <1>0 DEF CallRow
    <3>2. call' = [call EXCEPT ![c] = new]
      BY <1>0, <1>1 DEF S!Goto
    <3> HIDE DEF new
    <3> QED
      BY <1>0, <3>1, <3>2
  <2>5. \A s \in S!Subs : S!Live(s) =>
          sub[s].plan # p /\ sub[s].price \notin S!PricesOf(p)
    BY <1>3 DEF S!Subscribed
  <2>6. ~S!PlanShared(p)
    BY <1>1 DEF SInv, Deletions, S!PlanShared
  <2> HIDE DEF p
  <2>7. \A q \in Prices : S!Exists(price'[q]) =>
          price'[q].plan \in Plans /\ price'[q].months \in Terms
    <3>1. ASSUME NEW q \in Prices, S!Exists(price'[q])
          PROVE  price'[q].plan \in Plans /\ price'[q].months \in Terms
      <4>1. price'[q] = price[q] /\ S!Exists(price[q])
        BY <2>3, <3>1 DEF S!Exists
      <4>2. price[q].plan # None /\ price[q].months # 0
        BY <4>1, CallTypes
      <4> QED
        BY <1>0, <4>1, <4>2 DEF PriceRow
    <3> QED
      BY <3>1
  <2>8. \A q \in Prices : price[q].status # "unused" =>
          price'[q].status # "unused" /\ price'[q].plan = price[q].plan
    BY <2>3
  <2>9. \A q \in Prices : price'[q].status # "unused" =>
          price'[q].plan \in Plans
    BY <2>3 DEF SInv, RowsComplete, S!PricesOf, S!Exists
  <2>10. \A r \in Plans : S!Exists(plan[r]) /\ ~S!Exists(plan'[r]) => r = p
    BY <2>2
  <2>11. \A q \in Prices : S!Exists(price[q]) /\ ~S!Exists(price'[q]) =>
           q \in S!PricesOf(p)
    BY <2>3
  <2>12. \A q \in S!PricesOf(p) : ~S!PriceShared(q)
    BY <1>1 DEF p
  <2> QED
    BY <1>0, <1>1, <2>2, <2>3, <2>4, <2>5, <2>6, <2>7, <2>8, <2>9, <2>10,
       <2>11, <2>12, RowsChange
<1> QED
  BY <1>2, <1>3 DEF S!Cascade

LEMMA TenantGoes ==
  ASSUME S!SubscriptionAssumption, SInv, NEW s \in S!Subs, S!DeleteTenant(s)
  PROVE  SInv'
<1> DEFINE row == [sub[s] EXCEPT !.state = "deleted"]
<1>0. /\ plan \in [Plans -> PlanRow] /\ price \in [Prices -> PriceRow]
      /\ sub \in [S!Subs -> SubRow] /\ call \in [Calls -> CallRow]
      /\ \A q \in Prices : S!Exists(price[q]) =>
           price[q].plan # None /\ price[q].months # 0
      /\ \A t \in S!Subs : S!Live(t) =>
           None \notin {sub[t].plan, sub[t].price}
  BY CallTypes
<1>1. /\ S!Live(s) /\ ~S!SubLocked(s) /\ sub' = [sub EXCEPT ![s] = row]
      /\ plan' = plan /\ price' = price /\ call' = call
      /\ edits' \in 0..EditLimit
  <2>1. EditLimit \in Nat /\ edits \in 0..EditLimit
    BY CallTypes DEF S!SubscriptionAssumption
  <2>2. edits < EditLimit /\ edits' = edits + 1
    BY DEF S!DeleteTenant, S!Edit
  <2>3. edits' \in 0..EditLimit
    BY <2>1, <2>2
  <2> QED
    BY <1>0, <2>3 DEF S!DeleteTenant
<1>2. /\ row \in SubRow /\ row.state = "deleted"
      /\ row.plan = sub[s].plan /\ row.price = sub[s].price
  BY <1>0 DEF SubRow
<1> HIDE DEF row
<1>3. /\ sub' \in [S!Subs -> SubRow] /\ sub'[s] = row
      /\ \A t \in S!Subs : t # s => sub'[t] = sub[t]
  BY <1>0, <1>1, <1>2
<1>4. \A d \in Calls : call[d].step \in Writing => call[d].sub # s
  BY <1>1 DEF S!SubLocked, Writing
<1>5. \A d \in Calls : d \in S!Subs /\ (sub[d].state = "unused" => d # s)
  BY <1>1 DEF S!Subs, S!Live
<1>6. S!TypeOK'
  <2>1. \A t \in S!Subs : sub'[t].state = "live" =>
          None \notin {sub'[t].plan, sub'[t].price}
    BY <1>0, <1>2, <1>3 DEF S!Live
  <2> QED
    BY <1>0, <1>1, <1>3, <2>1, NewRowTypes
<1>7. S!NoDangling'
  BY <1>1, <1>2, <1>3 DEF SInv, S!NoDangling, S!Live, S!Exists
<1>8. RowsComplete'
  BY <1>1, <1>2, <1>3, <1>5 DEF SInv, RowsComplete, S!NoSub
<1>9. Purchases'
  <2>1. \A d \in Calls : call[d].step \in Buying /\ call[d].op = "create"
          /\ call[d].sub = d /\ sub[d].state = "unused"
        => sub'[d].state = "unused"
    BY <1>3, <1>5
  <2>2. \A d \in Calls : call[d].step \in Buying /\ call[d].step \in Writing
          /\ S!Live(call[d].sub) => sub'[call[d].sub].state = "live"
    <3>1. \A d \in Calls : call[d].step \in Buying => call[d].sub \in S!Subs
      BY DEF SInv, Purchases
    <3> QED
      BY <1>3, <1>4, <3>1 DEF S!Live
  <2> QED
    BY <1>1, <2>1, <2>2 DEF SInv, Purchases, S!Live
<1>10. Checked'
  BY <1>1 DEF SInv, Checked, S!Exists
<1>11. Deletions'
  <2>1. ASSUME NEW d \in Calls
        PROVE  \/ sub'[call[d].sub].plan = sub[call[d].sub].plan
               \/ call[d].step # "held"
    <3>1. call[d].step = "held" => call[d].sub \in S!Subs /\ call[d].sub # s
      BY <1>4 DEF SInv, Purchases, Buying, Writing
    <3> QED
      BY <1>3, <3>1
  <2> QED
    BY <1>1, <2>1 DEF SInv, Deletions, S!NewPlan
<1> QED
  BY <1>6, <1>7, <1>8, <1>9, <1>10, <1>11 DEF SInv

LEMMA EditCounts ==
  ASSUME S!SubscriptionAssumption, SInv, S!Edit
  PROVE  edits' \in 0..EditLimit
<1>1. EditLimit \in Nat /\ edits \in 0..EditLimit
  BY CallTypes DEF S!SubscriptionAssumption
<1>2. edits < EditLimit /\ edits' = edits + 1
  BY DEF S!Edit
<1> QED
  BY <1>1, <1>2

LEMMA PricesThere ==
  ASSUME SInv
  PROVE  /\ \A q \in Prices : S!Exists(price[q]) =>
              price[q].plan \in Plans /\ price[q].months \in Terms
         /\ \A q \in Prices : price[q].status # "unused" =>
              price[q].plan \in Plans
<1>1. /\ price \in [Prices -> PriceRow]
      /\ \A q \in Prices : S!Exists(price[q]) =>
           price[q].plan # None /\ price[q].months # 0
  BY CallTypes
<1>2. \A q \in Prices : /\ price[q].plan \in Plans \union {None}
                       /\ price[q].months \in Terms \union {0}
  BY <1>1 DEF PriceRow
<1>3. \A q \in Prices : price[q].status # "unused" => price[q].plan \in Plans
  BY DEF SInv, RowsComplete
<1> QED
  BY <1>1, <1>2, <1>3

LEMMA PlanEdits ==
  ASSUME S!SubscriptionAssumption, SInv, NEW p \in Plans,
         NEW name \in S!Names,
         \/ S!CreatePlan(p, name)
         \/ \E status \in {"active", "inactive"} :
              S!UpdatePlan(p, name, status)
  PROVE  SInv'
<1>0. /\ plan \in [Plans -> PlanRow] /\ price \in [Prices -> PriceRow]
      /\ call \in [Calls -> CallRow]
  BY CallTypes
<1>1. /\ S!Edit /\ price' = price /\ sub' = sub /\ call' = call
  BY DEF S!CreatePlan, S!UpdatePlan
<1>2. PICK row \in PlanRow : /\ plan' = [plan EXCEPT ![p] = row]
                            /\ row.status \in {"active", "inactive"}
  <2>1. CASE S!CreatePlan(p, name)
    <3> DEFINE row == [name |-> name, key |-> None, status |-> "active"]
    <3>1. row \in PlanRow /\ row.status = "active"
      BY DEF PlanRow, S!Status
    <3> QED
      BY <2>1, <3>1 DEF S!CreatePlan
  <2>2. ASSUME NEW status \in {"active", "inactive"},
               S!UpdatePlan(p, name, status)
        PROVE  \E row \in PlanRow : /\ plan' = [plan EXCEPT ![p] = row]
                                    /\ row.status \in {"active", "inactive"}
    <3> DEFINE row == [[plan[p] EXCEPT !.name = name] EXCEPT !.status = status]
    <3>1. row \in PlanRow /\ row.status = status
      BY <1>0 DEF PlanRow, S!Status
    <3>2. plan' = [plan EXCEPT ![p] = row]
      BY <1>0, <2>2 DEF S!UpdatePlan
    <3> HIDE DEF row
    <3> QED
      BY <3>1, <3>2
  <2> QED
    BY <2>1, <2>2
<1>3. /\ plan' \in [Plans -> PlanRow]
      /\ \A r \in Plans : S!Exists(plan[r]) => S!Exists(plan'[r])
  BY <1>0, <1>2 DEF S!Exists
<1>4. edits' \in 0..EditLimit
  BY <1>1, EditCounts
<1> QED
  BY <1>0, <1>1, <1>3, <1>4, PricesThere, RowsChange

PriceWritten(q, row) ==
  /\ price' = [price EXCEPT ![q] = row]
  /\ row.status # "unused"
  /\ row.plan \in Plans
  /\ price[q].status # "unused" => row.plan = price[q].plan
  /\ \/ S!Exists(row) /\ row.months \in Terms
     \/ /\ row.status = "deleted"
        /\ \A s \in S!Subs : S!Live(s) => sub[s].price # q
        /\ ~S!PriceShared(q)

LEMMA PriceEdits ==
  ASSUME S!SubscriptionAssumption, SInv, NEW q \in Prices,
         \/ \E p \in Plans, months \in Terms : S!CreatePricing(q, p, months)
         \/ \E months \in Terms, status \in {"active", "inactive"} :
              S!UpdatePricing(q, months, status)
         \/ S!DeletePricing(q)
  PROVE  SInv'
<1>0. /\ plan \in [Plans -> PlanRow] /\ price \in [Prices -> PriceRow]
      /\ call \in [Calls -> CallRow]
  BY CallTypes
<1>1. /\ S!Edit /\ plan' = plan /\ sub' = sub /\ call' = call
  BY DEF S!CreatePricing, S!UpdatePricing, S!DeletePricing
<1>2. PICK row \in PriceRow : PriceWritten(q, row)
  <2>1. ASSUME NEW p \in Plans, NEW months \in Terms,
               S!CreatePricing(q, p, months)
        PROVE  \E row \in PriceRow : PriceWritten(q, row)
    <3> DEFINE row == [plan |-> p, months |-> months, status |-> "active"]
    <3>1. /\ row \in PriceRow /\ row.status = "active" /\ row.plan = p
          /\ row.months = months
      BY DEF PriceRow, S!Status
    <3>2. price[q].status = "unused" /\ price' = [price EXCEPT ![q] = row]
      BY <2>1 DEF S!CreatePricing
    <3> HIDE DEF row
    <3> QED
      BY <3>1, <3>2 DEF S!Exists, PriceWritten
  <2>2. ASSUME NEW months \in Terms, NEW status \in {"active", "inactive"},
               S!UpdatePricing(q, months, status)
        PROVE  \E row \in PriceRow : PriceWritten(q, row)
    <3> DEFINE row == [[price[q] EXCEPT !.months = months]
                         EXCEPT !.status = status]
    <3>1. /\ row \in PriceRow /\ row.status = status
          /\ row.plan = price[q].plan /\ row.months = months
      BY <1>0 DEF PriceRow, S!Status
    <3>2. S!Exists(price[q]) /\ price' = [price EXCEPT ![q] = row]
      BY <1>0, <2>2 DEF S!UpdatePricing
    <3>3. price[q].plan \in Plans
      BY <3>2, PricesThere
    <3> HIDE DEF row
    <3> QED
      BY <3>1, <3>2, <3>3 DEF S!Exists, PriceWritten
  <2>3. CASE S!DeletePricing(q)
    <3> DEFINE row == [price[q] EXCEPT !.status = "deleted"]
    <3>1. /\ row \in PriceRow /\ row.status = "deleted"
          /\ row.plan = price[q].plan
      BY <1>0 DEF PriceRow, S!Status
    <3>2. /\ S!Exists(price[q]) /\ price' = [price EXCEPT ![q] = row]
          /\ ~S!PriceShared(q)
          /\ \A s \in S!Subs : S!Live(s) => sub[s].price # q
      BY <1>0, <2>3 DEF S!DeletePricing
    <3>3. price[q].plan \in Plans
      BY <3>2, PricesThere
    <3> HIDE DEF row
    <3> QED
      BY <3>1, <3>2, <3>3 DEF PriceWritten
  <2> QED
    BY <2>1, <2>2, <2>3
<1>3. /\ price' \in [Prices -> PriceRow] /\ price'[q] = row
      /\ \A r \in Prices : r # q => price'[r] = price[r]
  BY <1>0, <1>2 DEF PriceWritten
<1>4. edits' \in 0..EditLimit
  BY <1>1, EditCounts
<1>5. \A r \in Prices : S!Exists(price'[r]) =>
        price'[r].plan \in Plans /\ price'[r].months \in Terms
  BY <1>2, <1>3, PricesThere DEF S!Exists, PriceWritten
<1>6. \A r \in Prices : price'[r].status # "unused" =>
        price'[r].plan \in Plans
  BY <1>2, <1>3, PricesThere DEF PriceWritten
<1>7. \A r \in Prices : S!Exists(price[r]) /\ ~S!Exists(price'[r]) =>
        /\ \A s \in S!Subs : S!Live(s) => sub[s].price # r
        /\ ~S!PriceShared(r)
  BY <1>2, <1>3 DEF PriceWritten
<1>8. \A r \in Prices : price[r].status # "unused" =>
        price'[r].status # "unused" /\ price'[r].plan = price[r].plan
  BY <1>2, <1>3 DEF PriceWritten
<1> QED
  BY <1>0, <1>1, <1>3, <1>4, <1>5, <1>6, <1>7, <1>8, RowsChange

LEMMA SubscriptionStep ==
  ASSUME S!SubscriptionAssumption, SInv, [S!Next]_S!vars
  PROVE  SInv'
<1>1. CASE UNCHANGED S!vars
  BY <1>1 DEF S!vars, SInv, S!TypeOK, S!NoDangling, RowsComplete, Purchases,
              Checked, Deletions, S!Exists, S!Live, S!NewPlan
<1>2. ASSUME NEW c \in Calls, S!Serve(c) PROVE SInv'
  BY <1>2, PurchaseSteps, OtherCallSteps, CommitStep, CascadeStep DEF S!Serve
<1> QED
  BY <1>1, <1>2, OtherCallSteps, PlanEdits, PriceEdits, TenantGoes, Zenon
  DEF S!Next

(* A plan that is there keeps its key.                                     *)
LEMMA KeysKept ==
  ASSUME SInv, [S!Next]_S!vars, NEW p \in Plans, S!Exists(plan[p])
  PROVE  plan'[p].key = plan[p].key
<1>0. plan \in [Plans -> PlanRow]
  BY CallTypes
<1>1. CASE plan' = plan
  BY <1>1
<1>2. ASSUME NEW r \in Plans, NEW name \in S!Names, S!CreatePlan(r, name)
      PROVE  plan'[p].key = plan[p].key
  <2>1. r # p
    BY <1>2 DEF S!CreatePlan, S!Exists
  <2> QED
    BY <1>0, <1>2, <2>1 DEF S!CreatePlan
<1>3. ASSUME NEW r \in Plans, NEW name \in S!Names, NEW status,
             S!UpdatePlan(r, name, status)
      PROVE  plan'[p].key = plan[p].key
  BY <1>0, <1>3 DEF S!UpdatePlan, PlanRow
<1>4. ASSUME NEW c \in Calls, S!Cascade(c)
      PROVE  plan'[p].key = plan[p].key
  BY <1>0, <1>4 DEF S!Cascade, PlanRow
<1>5. ASSUME NEW c \in Calls, S!Serve(c)
      PROVE  plan'[p].key = plan[p].key
  BY <1>1, <1>4, <1>5
  DEF S!Serve, S!WriteTenant, S!CheckPrice, S!CheckPlan, S!CommitTenant,
      S!LockPlan
<1> QED
  BY <1>1, <1>2, <1>3, <1>5
  DEF S!Next, S!vars, S!Select, S!BeginDelete, S!ResolveDeadlock, S!Fail,
      S!CreatePricing, S!UpdatePricing, S!DeletePricing, S!DeleteTenant

LEMMA RolesShown ==
  ASSUME S!SubscriptionAssumption, SInv
  PROVE  S!ShownCoversEnforced
<1>1. ASSUME NEW s \in S!Subs, S!Live(s), plan[sub[s].plan].key # None
      PROVE  S!ShownRole(s) = S!EnforcedRole(s)
  BY <1>1 DEF S!ShownRole, S!EnforcedRole
<1>2. ASSUME NEW s \in S!Subs
      PROVE  S!IsAtLeastSubscription(S!ShownRole(s), S!EnforcedRole(s))
  <2> DEFINE Ranks == {"free_user", "paid_user", "premium_paid_user"}
  <2>1. DOMAIN S!SubscriptionRank = Ranks
    BY DEF S!SubscriptionRank
  <2>2. /\ \A r \in Ranks : S!SubscriptionRank[r] \in Nat
        /\ \A r \in Ranks : S!SubscriptionRank[r] >=
                                S!SubscriptionRank["free_user"]
    BY DEF S!SubscriptionRank
  <2>3. \A key : S!RoleKeyToRole(key) \in Ranks
    BY <2>1 DEF S!RoleKeyToRole
  <2>4. \A name : S!PlanNameToRole(name) \in Ranks
    BY DEF S!PlanNameToRole
  <2>5. S!RoleKeyToRole(None) = "free_user"
    BY <2>1 DEF S!RoleKeyToRole, S!SubscriptionAssumption
  <2>6. CASE plan[sub[s].plan].key # None
    <3>1. /\ S!ShownRole(s) = S!EnforcedRole(s)
          /\ S!EnforcedRole(s) \in Ranks
      BY <2>3, <2>6 DEF S!ShownRole, S!EnforcedRole
    <3> HIDE DEF Ranks
    <3> QED
      BY <2>2, <3>1 DEF S!IsAtLeastSubscription
  <2>7. CASE plan[sub[s].plan].key = None
    <3>1. S!ShownRole(s) \in Ranks /\ S!EnforcedRole(s) = "free_user"
      BY <2>4, <2>5, <2>7 DEF S!ShownRole, S!EnforcedRole
    <3> HIDE DEF Ranks
    <3> QED
      BY <2>2, <3>1 DEF S!IsAtLeastSubscription
  <2> QED
    BY <2>6, <2>7
<1> QED
  BY <1>1, <1>2 DEF S!ShownCoversEnforced

(* A call that waits does so, at the last, for one that does not wait or   *)
(* that PostgreSQL takes out of a deadlock.                                *)
LEMMA SomeCallGoesOn ==
  ASSUME SInv PROVE S!SomebodyProceeds
<1> DEFINE GoesOn(c) == S!UnderWay(c) /\ (~S!Waits(c) \/ \E d \in Calls : S!Deadlocked(c, d))
<1>1. \A c \in Calls : call[c].step \in
        {"idle", "begun", "valid", "written", "priced", "held", "locked", "done"}
  BY CallTypes DEF CallRow, SInv
<1>2. ASSUME NEW c \in Calls, call[c].step \in {"written", "held"} PROVE GoesOn(c)
  BY <1>2 DEF S!UnderWay, S!Waits
<1>3. ASSUME NEW c \in Calls, call[c].step = "priced" PROVE GoesOn(c)
  BY <1>3 DEF S!UnderWay, S!Waits, S!PlanLocked, S!Deadlocked
<1>4. ASSUME NEW c \in Calls, call[c].step = "locked" PROVE \E d \in Calls : GoesOn(d)
  <2>1. CASE S!Waits(c)
    <3>1. PICK d \in Calls : call[d].step \in {"priced", "held"}
      BY <1>4, <2>1 DEF S!Waits, S!PriceShared
    <3> QED
      BY <1>2, <1>3, <3>1
  <2> QED
    BY <1>4, <2>1 DEF S!UnderWay
<1>5. ASSUME NEW c \in Calls, call[c].step = "begun" PROVE \E d \in Calls : GoesOn(d)
  <2>1. CASE S!Waits(c)
    <3>1. PICK d \in Calls : call[d].step \in {"held", "locked"}
      BY <1>5, <2>1 DEF S!Waits, S!PlanShared, S!PlanLocked
    <3> QED
      BY <1>2, <1>4, <3>1
  <2> QED
    BY <1>5, <2>1 DEF S!UnderWay
<1>6. ASSUME NEW c \in Calls, call[c].step = "valid" PROVE \E d \in Calls : GoesOn(d)
  <2>1. CASE S!Waits(c)
    <3>1. PICK d \in Calls : call[d].step \in {"written", "priced", "held"}
      BY <1>6, <2>1 DEF S!Waits, S!SubLocked
    <3> QED
      BY <1>2, <1>3, <3>1
  <2> QED
    BY <1>6, <2>1 DEF S!UnderWay
<1>7. ASSUME NEW c \in Calls, S!UnderWay(c) PROVE \E d \in Calls : GoesOn(d)
  BY <1>1, <1>2, <1>3, <1>4, <1>5, <1>6, <1>7 DEF S!UnderWay
<1> QED
  BY <1>7 DEF S!SomebodyProceeds

(* Whatever purchases, changes and deletions overlap, and whatever the     *)
(* administrator edits, a subscription has its plan and its price, which   *)
(* is one of the plan's; its members' role is not above the one that is    *)
(* shown and changes with the plan only; what is offered is accepted; and  *)
(* of calls under way, one does not wait.                                  *)
THEOREM SubscriptionsKeep ==
  ASSUME S!SubscriptionAssumption PROVE S!Spec => SubscriptionsStand
<1>1. S!Init => SInv
  BY SubscriptionInit
<1>2. SInv /\ [S!Next]_S!vars => SInv'
  BY SubscriptionStep
<1>3. SInv => S!TypeOK /\ S!NoDangling /\ S!ShownCoversEnforced
  BY RolesShown DEF SInv
<1>4. SInv => S!OffersAreValid /\ S!SomebodyProceeds
  BY SomeCallGoesOn DEF S!OffersAreValid, S!Offers, S!Validates
<1>5. SInv /\ [S!Next]_S!vars => [S!SameRole]_S!vars
  <2>1. ASSUME SInv, [S!Next]_S!vars, NEW s \in S!Subs, S!Live(s),
               sub'[s] = sub[s]
        PROVE  S!EnforcedRole(s)' = S!EnforcedRole(s)
    <3>1. sub[s].plan \in Plans /\ S!Exists(plan[sub[s].plan])
      <4>1. sub \in [S!Subs -> SubRow] /\ sub[s].plan # None
        BY <2>1, CallTypes
      <4> QED
        BY <2>1, <4>1 DEF SubRow, SInv, S!NoDangling
    <3>2. plan'[sub[s].plan].key = plan[sub[s].plan].key
      BY <2>1, <3>1, KeysKept
    <3> QED
      BY <2>1, <3>2 DEF S!EnforcedRole
  <2> QED
    BY <2>1 DEF S!SameRole
<1> QED
  BY <1>1, <1>2, <1>3, <1>4, <1>5, PTL
  DEF S!Spec, SubscriptionsStand, S!SubscriptionsStand
=============================================================================
