---------------------------- MODULE MCTenancy -------------------------------
(* Small instances of Membership and of Subscription, the two sides of a   *)
(* tenant, for TLC.  They share no state: a behaviour is one of either,    *)
(* and the other's variables keep their initial values.                    *)
EXTENDS Tenancy, TLC

VARIABLE part

records == <<plan, price, sub, call, edits>>

ASSUME SubscriptionAssumption == S!SubscriptionAssumption

MCInit == part \in {"members", "plans"} /\ Init /\ S!Init

MCNext ==
  /\ UNCHANGED part
  /\ \/ part = "members" /\ Next /\ UNCHANGED records
     \/ part = "plans" /\ S!Next /\ UNCHANGED vars

MCSpec == MCInit /\ [][MCNext]_<<part, vars, records>> /\ Fairness
=============================================================================
