------------------------------ MODULE Tenancy -------------------------------
(* The two sides of a tenant: its members (Membership) and the             *)
(* subscription that it is to a plan (Subscription).  They share the       *)
(* tenants by name only, and no variable.                                  *)
EXTENDS Membership

CONSTANTS Plans, Prices, SeedPlan, SeedPrice, Calls, OldSub, Terms, EditLimit

VARIABLES plan, price, sub, call, edits

S == INSTANCE Subscription

(* What a subscriber has bought stands, whatever others buy, change, edit  *)
(* or delete at the same time (Subscription).                              *)
SubscriptionsStand == S!SubscriptionsStand
=============================================================================
