---------------------------- MODULE Subscription ----------------------------
(***************************************************************************)
(* Plans, their prices and the subscriptions (tenants) to them: users take *)
(* out and change a subscription while the administrator renames, prices,  *)
(* withdraws and deletes plans.                                            *)
(*                                                                         *)
(* createTenant, updateTenantPlan and deletePlan are transactions whose    *)
(* steps are the statements and foreign-key checks that may wait for a     *)
(* row; the other statements are one action each.  A call runs once, and   *)
(* the subscription it creates bears its name.  Amounts, currencies and    *)
(* dates are left out: nothing reads the date a subscription expires.      *)
(***************************************************************************)
EXTENDS Naturals

CONSTANTS
  Plans, Prices,        \* rows there may ever be
  SeedPlan, SeedPrice,  \* the plan "Basic" of the migration, and its price
  Calls,                \* createTenant, updateTenantPlan and deletePlan
  OldSub,               \* a subscription to SeedPlan taken out before
  Terms,                \* durations in months
  EditLimit,            \* bound on the statements of the administrator
  None

VARIABLES
  plan,   \* [Plans]: name, role_key (None is NULL) and status
  price,  \* [Prices]: plan_id, duration_months and status
  sub,    \* [Subs]: plan_id, pricing_id and state of the tenant
  call,   \* [Calls]: what the call does, and where it is
  edits   \* statements of the administrator so far

vars == <<plan, price, sub, call, edits>>

(* What the theorem assumes of the constants: the migration's rows are     *)
(* rows, and the old subscription is none that a call creates.             *)
SubscriptionAssumption ==
  /\ SeedPlan \in Plans /\ SeedPrice \in Prices /\ OldSub \notin Calls
  /\ Terms \subseteq Nat \ {0} /\ 1 \in Terms
  /\ EditLimit \in Nat
  /\ None \notin Plans \union Prices \union
                {"free_user", "paid_user", "premium_paid_user"}

Subs == Calls \union {OldSub}
Names == {"Basic", "Advanced", "Other"}
Roles == {"free_user", "paid_user", "premium_paid_user"}
Status == {"unused", "active", "inactive", "deleted"}

NoPlan == [name |-> "Other", key |-> None, status |-> "unused"]
NoPrice == [plan |-> None, months |-> 0, status |-> "unused"]
NoSub == [plan |-> None, price |-> None, state |-> "unused"]
Idle == [step |-> "idle", op |-> "none", sub |-> None, plan |-> None, price |-> None]

Exists(row) == row.status \in {"active", "inactive"}
Live(s) == sub[s].state = "live"

(* The types of the variables; a row that is there has its columns.        *)
TypeOK ==
  /\ plan \in [Plans -> [name : Names, key : Roles \union {None}, status : Status]]
  /\ price \in [Prices ->
       [plan : Plans \union {None}, months : Terms \union {0}, status : Status]]
  /\ sub \in [Subs -> [plan : Plans \union {None}, price : Prices \union {None},
                       state : {"unused", "live", "deleted"}]]
  /\ call \in [Calls ->
       [step : {"idle", "begun", "valid", "written", "priced", "held", "locked", "done"},
        op : {"none", "create", "change", "delete"}, sub : Subs \union {None},
        plan : Plans \union {None}, price : Prices \union {None}]]
  /\ edits \in 0..EditLimit
  /\ \A q \in Prices : Exists(price[q]) => price[q].plan # None /\ price[q].months # 0
  /\ \A s \in Subs : Live(s) => None \notin {sub[s].plan, sub[s].price}

Init ==
  /\ plan = [p \in Plans |-> IF p = SeedPlan
       THEN [name |-> "Basic", key |-> "paid_user", status |-> "active"] ELSE NoPlan]
  /\ price = [q \in Prices |-> IF q = SeedPrice
       THEN [plan |-> SeedPlan, months |-> 1, status |-> "active"] ELSE NoPrice]
  /\ sub = [s \in Subs |-> IF s = OldSub
       THEN [plan |-> SeedPlan, price |-> SeedPrice, state |-> "live"] ELSE NoSub]
  /\ call = [c \in Calls |-> Idle]
  /\ edits = 0

Goto(c, step) == call' = [call EXCEPT ![c].step = step]

-----------------------------------------------------------------------------
(* Rows that open transactions hold.  A foreign key is checked, and the    *)
(* row it refers to shared, only where the column has changed.             *)

NewPrice(c) == sub[call[c].sub].price # call[c].price
NewPlan(c) == sub[call[c].sub].plan # call[c].plan

PriceShared(q) ==
  \E c \in Calls : call[c].step \in {"priced", "held"} /\ call[c].price = q /\ NewPrice(c)
PlanShared(p) ==
  \E c \in Calls : call[c].step = "held" /\ call[c].plan = p /\ NewPlan(c)
PlanLocked(p) == \E c \in Calls : call[c].step = "locked" /\ call[c].plan = p
SubLocked(s) ==
  \E c \in Calls : call[c].step \in {"written", "priced", "held"} /\ call[c].sub = s

PricesOf(p) == {q \in Prices : price[q].plan = p /\ Exists(price[q])}

(* What the next statement of a call waits for: an UPDATE for another, the *)
(* check of a plan for its deletion, DELETE FROM plans for who shares or   *)
(* deletes the row, and its cascade for who shares one of the prices.      *)
WaitsBroken(c) ==  \* a deletion waits for a plan that is gone already, too
  \/ call[c].step = "valid" /\ SubLocked(call[c].sub)
  \/ call[c].step = "priced" /\ NewPlan(c) /\ PlanLocked(call[c].plan)
  \/ /\ call[c].step = "begun"
     /\ \/ PlanShared(call[c].plan) \/ PlanLocked(call[c].plan)
        \/ ~Exists(plan[call[c].plan])
  \/ call[c].step = "locked" /\ \E q \in PricesOf(call[c].plan) : PriceShared(q)

Waits(c) ==
  \/ call[c].step = "valid" /\ SubLocked(call[c].sub)
  \/ call[c].step = "priced" /\ NewPlan(c) /\ PlanLocked(call[c].plan)
  \/ call[c].step = "begun" /\ (PlanShared(call[c].plan) \/ PlanLocked(call[c].plan))
  \/ call[c].step = "locked" /\ \E q \in PricesOf(call[c].plan) : PriceShared(q)

-----------------------------------------------------------------------------
(* createTenant and updateTenantPlan.                                      *)

(* The pair that is asked for: the price is one of the plan, and active.   *)
Validates(p, q) == price[q].plan = p /\ price[q].status = "active"

(* What listPlans offers: active prices of active plans.                   *)
Offers(p, q) ==
  plan[p].status = "active" /\ price[q].plan = p /\ price[q].status = "active"

OffersBroken(p, q) ==  \* the condition on the price in WHERE left out
  plan[p].status = "active" /\ price[q].plan = p /\ Exists(price[q])

(* The transaction begins and reads the price, without a lock on it.       *)
Select(c, op, s, p, q) ==
  /\ call[c].step = "idle"
  /\ \/ op = "create" /\ s = c
     \/ op = "change" /\ Live(s)
  /\ call' = [call EXCEPT ![c] =
       [step |-> IF Validates(p, q) THEN "valid" ELSE "done",
        op |-> op, sub |-> s, plan |-> p, price |-> q]]
  /\ UNCHANGED <<plan, price, sub, edits>>

(* The INSERT or UPDATE of the tenant's row; an UPDATE of a row that is    *)
(* gone changes nothing and is committed.                                  *)
WriteTenant(c) ==
  /\ call[c].step = "valid"
  /\ ~Waits(c)
  /\ Goto(c, IF call[c].op = "change" /\ ~Live(call[c].sub) THEN "done" ELSE "written")
  /\ UNCHANGED <<plan, price, sub, edits>>

(* The checks of the foreign keys at the end of the statement, pricing_id  *)
(* first.                                                                  *)
CheckPrice(c) ==
  /\ call[c].step = "written"
  /\ Goto(c, IF NewPrice(c) /\ ~Exists(price[call[c].price]) THEN "done" ELSE "priced")
  /\ UNCHANGED <<plan, price, sub, edits>>

CheckPlan(c) ==
  /\ call[c].step = "priced"
  /\ ~Waits(c)
  /\ Goto(c, IF NewPlan(c) /\ ~Exists(plan[call[c].plan]) THEN "done" ELSE "held")
  /\ UNCHANGED <<plan, price, sub, edits>>

CommitTenantBroken(c) ==  \* plan_id not written
  /\ call[c].step = "held"
  /\ sub' = [sub EXCEPT ![call[c].sub].price = call[c].price,
                         ![call[c].sub].state = "live"]
  /\ Goto(c, "done")
  /\ UNCHANGED <<plan, price, edits>>

CommitTenant(c) ==
  /\ call[c].step = "held"
  /\ sub' = [sub EXCEPT ![call[c].sub] =
       [plan |-> call[c].plan, price |-> call[c].price, state |-> "live"]]
  /\ Goto(c, "done")
  /\ UNCHANGED <<plan, price, edits>>

-----------------------------------------------------------------------------
(* deletePlan.                                                             *)

BeginDelete(c, p) ==
  /\ call[c].step = "idle"
  /\ call' = [call EXCEPT ![c] = [Idle EXCEPT !.step = "begun", !.op = "delete", !.plan = p]]
  /\ UNCHANGED <<plan, price, sub, edits>>

(* DELETE FROM plans holds the row, if it is there.                        *)
LockPlan(c) ==
  /\ call[c].step = "begun"
  /\ ~Waits(c)
  /\ Goto(c, IF Exists(plan[call[c].plan]) THEN "locked" ELSE "done")
  /\ UNCHANGED <<plan, price, sub, edits>>

Subscribed(p) ==
  \E s \in Subs : Live(s) /\ (sub[s].plan = p \/ sub[s].price \in PricesOf(p))

(* The cascade to the prices: the plan and the prices go, or all stays as  *)
(* it is because of a subscription.                                        *)
CascadeBroken(c) ==  \* tenants.plan_id and pricing_id without a foreign key
  LET p == call[c].plan IN
  /\ call[c].step = "locked"
  /\ ~Waits(c)
  /\ plan' = [plan EXCEPT ![p].status = "deleted"]
  /\ price' = [q \in Prices |->
       IF q \in PricesOf(p) THEN [price[q] EXCEPT !.status = "deleted"] ELSE price[q]]
  /\ Goto(c, "done")
  /\ UNCHANGED <<sub, edits>>

Cascade(c) ==
  LET p == call[c].plan IN
  /\ call[c].step = "locked"
  /\ ~Waits(c)
  /\ \/ Subscribed(p) /\ UNCHANGED <<plan, price>>
     \/ /\ ~Subscribed(p)
        /\ plan' = [plan EXCEPT ![p].status = "deleted"]
        /\ price' = [q \in Prices |->
             IF q \in PricesOf(p) THEN [price[q] EXCEPT !.status = "deleted"]
             ELSE price[q]]
  /\ Goto(c, "done")
  /\ UNCHANGED <<sub, edits>>

(* The call wants the plan that the deletion holds, and the deletion a     *)
(* price that the call shares: PostgreSQL ends one of them.                *)
Deadlocked(c, d) ==
  /\ call[c].step = "priced" /\ NewPlan(c)
  /\ call[d].step = "locked" /\ call[d].plan = call[c].plan

ResolveDeadlock(c, d) ==
  /\ Deadlocked(c, d)
  /\ Goto(c, "done") \/ Goto(d, "done")
  /\ UNCHANGED <<plan, price, sub, edits>>

(* The client goes away or a statement fails: nothing is kept.             *)
Fail(c) ==
  /\ call[c].step \notin {"idle", "done"}
  /\ Goto(c, "done")
  /\ UNCHANGED <<plan, price, sub, edits>>

-----------------------------------------------------------------------------
(* The administrator's other statements, and deleteTenant.                 *)

Edit == edits < EditLimit /\ edits' = edits + 1

CreatePlan(p, name) ==
  /\ Edit
  /\ plan[p].status = "unused"
  /\ plan' = [plan EXCEPT ![p] = [name |-> name, key |-> None, status |-> "active"]]
  /\ UNCHANGED <<price, sub, call>>

(* What is left empty is kept; role_key is never written.                  *)
UpdatePlanBroken(p, name, status) ==  \* role_key set along with the name
  /\ Edit
  /\ Exists(plan[p]) /\ ~PlanLocked(p)
  /\ plan' = [plan EXCEPT ![p] =
       [name |-> name, status |-> status,
        key |-> IF name = "Advanced" THEN "premium_paid_user" ELSE "free_user"]]
  /\ UNCHANGED <<price, sub, call>>

UpdatePlan(p, name, status) ==
  /\ Edit
  /\ Exists(plan[p]) /\ ~PlanLocked(p)
  /\ plan' = [plan EXCEPT ![p].name = name, ![p].status = status]
  /\ UNCHANGED <<price, sub, call>>

(* UNIQUE (plan_id, duration_months).                                      *)
Free(p, months) ==
  \A q \in Prices : ~(Exists(price[q]) /\ price[q].plan = p /\ price[q].months = months)

CreatePricing(q, p, months) ==
  /\ Edit
  /\ price[q].status = "unused"
  /\ Exists(plan[p]) /\ ~PlanLocked(p)
  /\ Free(p, months)
  /\ price' = [price EXCEPT ![q] = [plan |-> p, months |-> months, status |-> "active"]]
  /\ UNCHANGED <<plan, sub, call>>

(* The duration is part of a key: changing it waits for who shares the row.*)
UpdatePricing(q, months, status) ==
  /\ Edit
  /\ Exists(price[q])
  /\ months # price[q].months => ~PriceShared(q) /\ Free(price[q].plan, months)
  /\ price' = [price EXCEPT ![q].months = months, ![q].status = status]
  /\ UNCHANGED <<plan, sub, call>>

DeletePricing(q) ==
  /\ Edit
  /\ Exists(price[q]) /\ ~PriceShared(q)
  /\ \A s \in Subs : Live(s) => sub[s].price # q
  /\ price' = [price EXCEPT ![q].status = "deleted"]
  /\ UNCHANGED <<plan, sub, call>>

DeleteTenant(s) ==
  /\ Edit
  /\ Live(s) /\ ~SubLocked(s)
  /\ sub' = [sub EXCEPT ![s].state = "deleted"]
  /\ UNCHANGED <<plan, price, call>>

-----------------------------------------------------------------------------
Serve(c) ==
  \/ WriteTenant(c) \/ CheckPrice(c) \/ CheckPlan(c) \/ CommitTenant(c)
  \/ LockPlan(c) \/ Cascade(c)

Next ==
  \/ \E c \in Calls :
       \/ \E op \in {"create", "change"}, s \in Subs, p \in Plans, q \in Prices :
            Select(c, op, s, p, q)
       \/ \E p \in Plans : BeginDelete(c, p)
       \/ Serve(c)
       \/ \E d \in Calls : ResolveDeadlock(c, d)
       \/ Fail(c)
  \/ \E p \in Plans, name \in Names :
       \/ CreatePlan(p, name)
       \/ \E status \in {"active", "inactive"} : UpdatePlan(p, name, status)
  \/ \E q \in Prices, months \in Terms :
       \/ \E p \in Plans : CreatePricing(q, p, months)
       \/ \E status \in {"active", "inactive"} : UpdatePricing(q, months, status)
  \/ \E q \in Prices : DeletePricing(q)
  \/ \E s \in Subs : DeleteTenant(s)

Spec == Init /\ [][Next]_vars

-----------------------------------------------------------------------------
(* The roles that plans give.                                              *)

SubscriptionRank == [free_user |-> 1, paid_user |-> 2, premium_paid_user |-> 3]

IsAtLeastSubscription(role, required) ==
  SubscriptionRank[role] >= SubscriptionRank[required]

RoleKeyToRole(key) ==
  IF key \in DOMAIN SubscriptionRank THEN key ELSE "free_user"

PlanNameToRole(name) ==
  CASE name = "Basic" -> "paid_user"
    [] name = "Advanced" -> "premium_paid_user"
    [] OTHER -> "free_user"

(* The role the middleware gives the members' requests.                    *)
EnforcedRoleBroken(s) == PlanNameToRole(plan[sub[s].plan].name)

EnforcedRole(s) == RoleKeyToRole(plan[sub[s].plan].key)

(* The role the list of subscriptions shows: a plan without a key is       *)
(* judged by its name.                                                     *)
ShownRole(s) ==
  IF plan[sub[s].plan].key # None THEN RoleKeyToRole(plan[sub[s].plan].key)
  ELSE PlanNameToRole(plan[sub[s].plan].name)

-----------------------------------------------------------------------------
(* Whatever deletions, changes and purchases overlap, a subscription's     *)
(* price and plan exist, and the price is one of the plan's.               *)
NoDangling ==
  \A s \in Subs : Live(s) =>
    /\ Exists(plan[sub[s].plan]) /\ Exists(price[sub[s].price])
    /\ price[sub[s].price].plan = sub[s].plan

(* Nothing an administrator does to plans and prices changes what the      *)
(* subscribers may do: only another plan does.                             *)
SameRole ==
  \A s \in Subs :
    Live(s) /\ sub'[s] = sub[s] => EnforcedRole(s)' = EnforcedRole(s)

(* The role that is enforced never exceeds the one that is shown, and is   *)
(* the same for a plan with a key, renamed or not.                         *)
ShownCoversEnforced ==
  \A s \in Subs : Live(s) =>
    /\ IsAtLeastSubscription(ShownRole(s), EnforcedRole(s))
    /\ plan[sub[s].plan].key # None => ShownRole(s) = EnforcedRole(s)

(* What is offered can be bought as long as it is offered.                 *)
OffersAreValid ==
  \A p \in Plans, q \in Prices : Offers(p, q) => Validates(p, q)

(* Nobody waits for nobody: while calls are under way, one of them does    *)
(* not have to wait, or PostgreSQL ends a deadlock between two.            *)
UnderWay(c) == call[c].step \notin {"idle", "done"}

SomebodyProceeds ==
  (\E c \in Calls : UnderWay(c)) =>
    \E c \in Calls : /\ UnderWay(c)
                     /\ ~Waits(c) \/ \E d \in Calls : Deadlocked(c, d)

(* All of that: what a subscriber has bought stands, whatever others do.   *)
SubscriptionsStand ==
  /\ [](TypeOK /\ NoDangling /\ ShownCoversEnforced)
  /\ [](OffersAreValid /\ SomebodyProceeds)
  /\ [][SameRole]_vars
=============================================================================
