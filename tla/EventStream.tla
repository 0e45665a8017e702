----------------------------- MODULE EventStream -----------------------------
(***************************************************************************)
(* The events of an agent run on their way to the client.                  *)
(*                                                                         *)
(* SendMessage makes a buffered channel, starts the run in a goroutine     *)
(* that closes the channel when Run returns, and writes to the client what *)
(* comes out of the channel until it is closed and empty.  The run drops   *)
(* an event that the channel has no room for rather than wait.  A write to *)
(* a client that does not read blocks; one to a client that is gone        *)
(* returns at once, its error ignored.                                     *)
(*                                                                         *)
(* One request after another; each run has an event per project tool that  *)
(* is refused when tools are loaded, one that they are loaded, one per     *)
(* message, and one at its end.                                            *)
(***************************************************************************)
EXTENDS Naturals, Sequences

CONSTANTS
  Capacity,    \* of the channel: 16
  MaxRefused,  \* the bound on the tools that the scope refuses
  MaxMessages  \* the bound on the messages of a run, refused tools included

VARIABLES
  run,      \* "idle", "loading", "running", "ended" or "closed"
  channel,  \* the events in the channel, by number and kind
  sent,     \* how many events the run has emitted
  dropped,  \* the numbers of those that found the channel full
  stored,   \* the numbers of those whose message is stored
  shown,    \* the events written to the client that it can read
  left      \* has the client gone away

(* What the theorem assumes of the bounds: the tools that are refused are  *)
(* among the messages.                                                     *)
StreamAssumption ==
  /\ Capacity \in Nat /\ MaxRefused \in Nat /\ MaxMessages \in Nat
  /\ MaxRefused <= MaxMessages

vars == <<run, channel, sent, dropped, stored, shown, left>>

(* Of the tool messages, "tool" has the result of a tool that was carried  *)
(* out and "tool_unsaved" an error in its place, since it could not be     *)
(* stored.  "tool_denied" says that the tool is unknown or forbidden.      *)
Kinds == {"loaded", "assistant", "tool", "tool_unsaved", "tool_denied",
          "error", "done"}

StreamTypeOK ==
  /\ run \in {"idle", "loading", "running", "ended", "closed"}
  /\ channel \in Seq([n : 1..sent, kind : Kinds])
  /\ Len(channel) <= Capacity
  /\ sent \in 0..(MaxMessages + 2)
  /\ dropped \subseteq 1..sent
  /\ stored \subseteq 1..sent
  /\ left \in BOOLEAN

Init ==
  /\ run = "idle"
  /\ channel = <<>>
  /\ sent = 0
  /\ dropped = {}
  /\ stored = {}
  /\ shown = <<>>
  /\ left = FALSE

-----------------------------------------------------------------------------
EmitBroken(kind) ==  \* waits for room
  /\ Len(channel) < Capacity
  /\ sent' = sent + 1
  /\ channel' = Append(channel, [n |-> sent + 1, kind |-> kind])
  /\ UNCHANGED dropped

EmitOverfull(kind) ==
  /\ sent' = sent + 1
  /\ LET e == [n |-> sent + 1, kind |-> kind]
     IN  IF Len(channel) <= Capacity
           THEN channel' = Append(channel, e) /\ UNCHANGED dropped
           ELSE channel' = channel /\ dropped' = dropped \union {sent + 1}

Emit(kind) ==
  /\ sent' = sent + 1
  /\ LET e == [n |-> sent + 1, kind |-> kind]
     IN  IF Len(channel) < Capacity
           THEN channel' = Append(channel, e) /\ UNCHANGED dropped
           ELSE channel' = channel /\ dropped' = dropped \union {sent + 1}

(* Everything before the run has been answered with JSON, if it failed.    *)
StartStream ==
  /\ run = "idle"
  /\ run' = "loading"
  /\ channel' = <<>> /\ sent' = 0
  /\ dropped' = {} /\ stored' = {} /\ shown' = <<>>
  /\ left' = FALSE

(* The project tools: an error for each that is refused, which does not    *)
(* end the run, and then one event that they are loaded.                   *)
ToolRefused ==
  /\ run = "loading"
  /\ sent < MaxRefused
  /\ Emit("error")
  /\ UNCHANGED <<run, stored, shown, left>>

ToolsLoaded ==
  /\ run = "loading"
  /\ Emit("loaded")
  /\ run' = "running"
  /\ UNCHANGED <<stored, shown, left>>

(* A message is stored, then its event is emitted.  An answer that cannot  *)
(* be stored ends the run.                                                 *)
AnswerBroken ==  \* one that cannot be stored is shown all the same
  /\ run = "running"
  /\ sent <= MaxMessages
  /\ Emit("assistant")
  /\ stored' \in {stored, stored \union {sent + 1}}
  /\ UNCHANGED <<run, shown, left>>

Answer ==
  /\ run = "running"
  /\ sent <= MaxMessages
  /\ ~left
  /\ Emit("assistant")
  /\ stored' = stored \union {sent + 1}
  /\ UNCHANGED <<run, shown, left>>

(* One message for each call of an answer.  The message of a denied tool   *)
(* is shown as it is, the error of its storing ignored.                    *)
Storings == IF left THEN {stored} ELSE {stored, stored \union {sent + 1}}

ToolMessageBroken ==  \* a result that cannot be stored is shown as it is
  /\ run = "running"
  /\ sent <= MaxMessages
  /\ Emit("tool") \/ Emit("tool_denied")
  /\ stored' \in Storings
  /\ UNCHANGED <<run, shown, left>>

ToolMessage ==
  /\ run = "running"
  /\ sent <= MaxMessages
  /\ \/ ~left /\ Emit("tool") /\ stored' = stored \union {sent + 1}
     \/ Emit("tool_unsaved") /\ UNCHANGED stored
     \/ Emit("tool_denied") /\ stored' \in Storings
  /\ UNCHANGED <<run, shown, left>>

(* Each return of Run comes after an event that says why: the profile, the *)
(* tools, the model or a store failed, or the run is done.                 *)
Return ==
  /\ \/ run = "loading" /\ sent = 0 /\ Emit("error")
     \/ run = "running" /\ (Emit("error") \/ Emit("done"))
  /\ run' = "ended"
  /\ UNCHANGED <<stored, shown, left>>

Close ==
  /\ run = "ended"
  /\ run' = "closed"
  /\ UNCHANGED <<channel, sent, dropped, stored, shown, left>>

-----------------------------------------------------------------------------
(* The handler: the client reads, or is gone.                              *)
Write ==
  /\ channel # <<>>
  /\ channel' = Tail(channel)
  /\ shown' = IF left THEN shown ELSE Append(shown, Head(channel))
  /\ UNCHANGED <<run, sent, dropped, stored, left>>

EndStreamBroken ==  \* ends with the run, whatever is left in the channel
  /\ run = "closed"
  /\ run' = "idle"
  /\ channel' = <<>>
  /\ UNCHANGED <<sent, dropped, stored, shown, left>>

EndStream ==
  /\ run = "closed"
  /\ channel = <<>>
  /\ run' = "idle"
  /\ UNCHANGED <<channel, sent, dropped, stored, shown, left>>

(* The client closes the connection: the context of the run is cancelled,  *)
(* so that nothing can be stored any more.                                 *)
Leave ==
  /\ run # "idle"
  /\ ~left
  /\ left' = TRUE
  /\ UNCHANGED <<run, channel, sent, dropped, stored, shown>>

-----------------------------------------------------------------------------
RunStep == ToolRefused \/ ToolsLoaded \/ Answer \/ ToolMessage \/ Return \/ Close

Next == StartStream \/ RunStep \/ Write \/ EndStream \/ Leave

(* The run goes on, since its calls have timeouts and its budget is        *)
(* finite; the handler goes on unless the client does not read.            *)
Fairness ==
  /\ WF_vars(RunStep)
  /\ WF_vars(left /\ Write)
  /\ WF_vars(EndStream)

Spec == Init /\ [][Next]_vars /\ Fairness

-----------------------------------------------------------------------------
(* What the client is shown as an answer or as the result of a tool that   *)
(* was carried out is in the session when the client reads it there, and   *)
(* what it is shown comes in the order in which it was stored.  That a     *)
(* tool is unknown or forbidden it is told even if no message in the       *)
(* session says so (executeToolCalls).                                     *)
ShownIsStored ==
  /\ \A i \in DOMAIN shown :
       shown[i].kind \in {"assistant", "tool"} => shown[i].n \in stored
  /\ \A i, j \in DOMAIN shown : i < j => shown[i].n < shown[j].n

(* When the stream ends, a client that stayed has been shown every event   *)
(* that was not dropped, and unless the last one was, it has been told how *)
(* the run ended, and of no end before it.                                 *)
OutcomeShown ==
  run = "idle" /\ sent > 0 /\ ~left =>
    /\ { shown[i].n : i \in DOMAIN shown } = (1..sent) \ dropped
    /\ \A i \in DOMAIN shown : shown[i].kind = "done" => shown[i].n = sent
    /\ sent \notin dropped => shown[Len(shown)].kind \in {"error", "done"}

(* All of that: a client that is slow or gone misses events, and is never  *)
(* shown what is not so.                                                   *)
StreamHolds == StreamTypeOK /\ ShownIsStored /\ OutcomeShown

(* A client that does not read keeps no run from ending, and one that goes *)
(* away keeps no request open.                                             *)
RunsEnd == /\ (run = "loading") ~> (run \in {"closed", "idle"})
           /\ left ~> (run = "idle")
=============================================================================
