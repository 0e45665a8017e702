--------------------------- MODULE RequestStream ----------------------------
(* The two sides of a request that runs the agent: the database session it *)
(* holds meanwhile (RequestSession), and the events on their way to its    *)
(* client (EventStream).  They share no variable: the first goes on        *)
(* whatever the client reads, since the handler drains the channel.        *)
EXTENDS RequestSession

CONSTANTS Capacity, MaxRefused, MaxMessages

VARIABLES stream, channel, sent, dropped, stored, shown, left

E == INSTANCE EventStream WITH run <- stream

(* What a client is shown is so, and what it is not shown was dropped      *)
(* (EventStream).                                                          *)
StreamHolds == E!StreamHolds

(* Nobody waits forever: not a request, though runs that hold every        *)
(* connection call their own server, and not a run, though its client does *)
(* not read its events or goes away.                                       *)
NobodyWaitsForever == EveryRequestServed /\ E!RunsEnd
=============================================================================
