-------------------------- MODULE MCRequestSession --------------------------
(* Small instances of RequestSession and of EventStream, the stream of one *)
(* such request, for TLC.  They share no state: a behaviour is one of      *)
(* either, and the other's variables keep their initial values.            *)
EXTENDS RequestStream, TLC

VARIABLE part

events == <<stream, channel, sent, dropped, stored, shown, left>>

ASSUME StreamAssumption == E!StreamAssumption

MCInit == part \in {"requests", "events"} /\ Init /\ E!Init

MCNext ==
  /\ UNCHANGED part
  /\ \/ part = "requests" /\ Next /\ UNCHANGED events
     \/ part = "events" /\ E!Next /\ UNCHANGED vars

MCSpec ==
  MCInit /\ [][MCNext]_<<part, vars, events>> /\ Fairness /\ E!Fairness
=============================================================================
