---------------------------- MODULE AgentSession ----------------------------
(***************************************************************************)
(* One agent session: its stored transcript and the SendMessage requests   *)
(* that read and extend it.                                                *)
(*                                                                         *)
(* A request stores the user's message, reads the history (the oldest      *)
(* HistoryLimit messages) and runs the agent: it shows the model a prompt, *)
(* stores the answer, carries out the tool calls of the answer one by one, *)
(* stores each result, extends the prompt it keeps in memory and consults  *)
(* the model again, until an answer has no calls, the guardrail halts the  *)
(* run or the iteration budget is used up.  Every store is a statement of  *)
(* its own: nothing makes a request atomic, and nothing makes two requests *)
(* on a session take turns.                                                *)
(*                                                                         *)
(* `Faults` says what may go wrong: "overlap", requests run concurrently;  *)
(* "disconnect", the client closes the stream, which cancels the context   *)
(* of the run; "unsaved", a tool message cannot be stored (the error is    *)
(* ignored); "crash", the server stops.                                    *)
(***************************************************************************)
EXTENDS Naturals, Sequences, FiniteSets

CONSTANTS
  Requests,       \* SendMessage requests, each handled once
  MaxIterations,  \* budget of model consultations of a run
  MaxCalls,       \* bound on the tool calls of one answer
  HistoryLimit,   \* LIMIT of the history query
  Faults          \* which of the faults above may happen

ASSUME SessionAssumption ==
  /\ MaxIterations \in Nat \ {0}
  /\ MaxCalls \in Nat
  /\ HistoryLimit \in Nat

VARIABLES
  status,      \* "absent" or the session's status column
  transcript,  \* the stored messages by creation time
  pc,          \* [Requests]: where the request is
  prompt,      \* [Requests]: llmMessages, without the system prompt
  iter,        \* [Requests]: consultations of the model so far
  calls,       \* [Requests]: tool calls of the last answer
  made,        \* [Requests]: how many of them have been carried out
  gone,        \* [Requests]: has the client disconnected
  calm         \* has none of the faults happened yet

vars == <<status, transcript, pc, prompt, iter, calls, made, gone, calm>>

-----------------------------------------------------------------------------
(* Messages.  A tool message is the result of the n-th call of an answer;  *)
(* n is the number of calls of an assistant message.                       *)
Message == [kind : {"system", "user", "assistant", "tool"},
            req : Requests, iter : Nat, n : Nat]

SystemMessage(q) == [kind |-> "system", req |-> q, iter |-> 0, n |-> 0]
UserMessage(q) == [kind |-> "user", req |-> q, iter |-> 0, n |-> 0]
Answer(q, i, k) == [kind |-> "assistant", req |-> q, iter |-> i, n |-> k]
ToolResult(q, i, j) == [kind |-> "tool", req |-> q, iter |-> i, n |-> j]

NotSystem(m) == m.kind # "system"

Working(q) == pc[q] \notin {"idle", "ended"}

TypeOK ==
  /\ status \in {"absent", "active", "archived", "deleted"}
  /\ transcript \in Seq(Message)
  /\ pc \in [Requests -> {"idle", "loading", "consulting", "saving",
                          "calling", "ended"}]
  /\ prompt \in [Requests -> Seq(Message)]
  /\ iter \in [Requests -> 0..MaxIterations]
  /\ calls \in [Requests -> 0..MaxCalls]
  /\ made \in [Requests -> 0..MaxCalls]
  /\ gone \in [Requests -> BOOLEAN]
  /\ calm \in BOOLEAN

Init ==
  /\ status = "absent"
  /\ transcript = <<>>
  /\ pc = [q \in Requests |-> "idle"]
  /\ prompt = [q \in Requests |-> <<>>]
  /\ iter = [q \in Requests |-> 0]
  /\ calls = [q \in Requests |-> 0]
  /\ made = [q \in Requests |-> 0]
  /\ gone = [q \in Requests |-> FALSE]
  /\ calm = TRUE

-----------------------------------------------------------------------------
(* The session's own handlers.                                             *)

(* Creates the row and then stores the system message, whose failure is    *)
(* ignored.                                                                *)
CreateSession ==
  /\ status = "absent"
  /\ status' = "active"
  /\ transcript' \in {<<>>} \union { <<SystemMessage(q)>> : q \in Requests }
  /\ UNCHANGED <<pc, prompt, iter, calls, made, gone, calm>>

(* Both read the row and write it back with another status, whatever the   *)
(* status was.                                                             *)
ArchiveSession ==
  /\ status # "absent"
  /\ status' = "archived"
  /\ UNCHANGED <<transcript, pc, prompt, iter, calls, made, gone, calm>>

DeleteSession ==
  /\ status # "absent"
  /\ status' = "deleted"
  /\ UNCHANGED <<transcript, pc, prompt, iter, calls, made, gone, calm>>

-----------------------------------------------------------------------------
(* SendMessage up to the start of the run.                                 *)

(* The user's message is stored before anything is known of the session    *)
(* but that it exists (the foreign key); its status is not looked at.      *)
SaveUserMessage(q) ==
  /\ pc[q] = "idle"
  /\ status # "absent"
  /\ LET alone == \A r \in Requests : ~Working(r)
     IN  /\ alone \/ "overlap" \in Faults
         /\ calm' = (calm /\ alone)
  /\ transcript' = Append(transcript, UserMessage(q))
  /\ pc' = [pc EXCEPT ![q] = "loading"]
  /\ UNCHANGED <<status, prompt, iter, calls, made, gone>>

(* The messages but for the system's, in their order.                      *)
Nth(S, n) == CHOOSE p \in S : Cardinality({ o \in S : o <= p }) = n

Conversation(s) ==
  LET kept == { p \in DOMAIN s : NotSystem(s[p]) }
  IN  [n \in 1..Cardinality(kept) |-> s[Nth(kept, n)]]

(* ORDER BY created_at ASC LIMIT, and no second system message.            *)
HistoryBroken ==  \* the limit applied before the new message is counted
  Conversation(SubSeq(transcript, 1, Len(transcript) - 1))

History ==
  LET last == IF Len(transcript) < HistoryLimit THEN Len(transcript)
                                                ELSE HistoryLimit
  IN  Conversation(SubSeq(transcript, 1, last))

LoadHistory(q) ==
  /\ pc[q] = "loading"
  /\ ~gone[q]
  /\ prompt' = [prompt EXCEPT ![q] = History]
  /\ pc' = [pc EXCEPT ![q] = "consulting"]
  /\ UNCHANGED <<status, transcript, iter, calls, made, gone, calm>>

-----------------------------------------------------------------------------
(* The run.                                                                *)

(* The model answers with k tool calls.  Consulting it uses up one unit of *)
(* the budget, of which there is one left at the head of the loop.         *)
Chat(q, k) ==
  /\ pc[q] = "consulting"
  /\ ~gone[q]
  /\ iter' = [iter EXCEPT ![q] = @ + 1]
  /\ calls' = [calls EXCEPT ![q] = k]
  /\ pc' = [pc EXCEPT ![q] = "saving"]
  /\ UNCHANGED <<status, transcript, prompt, made, gone, calm>>

SaveAnswerBroken(q) ==  \* goes on when the answer could not be stored
  /\ pc[q] = "saving"
  /\ ~gone[q]
  /\ transcript' \in {transcript, Append(transcript, Answer(q, iter[q], calls[q]))}
  /\ made' = [made EXCEPT ![q] = 0]
  /\ pc' = [pc EXCEPT ![q] = IF calls[q] = 0 THEN "ended" ELSE "calling"]
  /\ UNCHANGED <<status, prompt, iter, calls, gone, calm>>

SaveAnswer(q) ==
  /\ pc[q] = "saving"
  /\ ~gone[q]
  /\ transcript' = Append(transcript, Answer(q, iter[q], calls[q]))
  /\ made' = [made EXCEPT ![q] = 0]
  /\ pc' = [pc EXCEPT ![q] = IF calls[q] = 0 THEN "ended" ELSE "calling"]
  /\ UNCHANGED <<status, prompt, iter, calls, gone, calm>>

(* One tool call: unknown, denied, failed (a timeout included) or not, it  *)
(* has a result.  The result is stored if it can be.                       *)
CallTool(q) ==
  /\ pc[q] = "calling"
  /\ made[q] < calls[q]
  /\ made' = [made EXCEPT ![q] = @ + 1]
  /\ \/ /\ ~gone[q]
        /\ transcript' = Append(transcript,
                                ToolResult(q, iter[q], made[q] + 1))
        /\ UNCHANGED calm
     \/ /\ gone[q] \/ "unsaved" \in Faults
        /\ calm' = FALSE
        /\ UNCHANGED transcript
  /\ UNCHANGED <<status, pc, prompt, iter, calls, gone>>

ResultsOf(q) == [j \in 1..calls[q] |-> ToolResult(q, iter[q], j)]

(* The answer and its results join the prompt; then the run ends if the    *)
(* guardrail halted it or the budget is used up.                           *)
FinishBatchBroken(q) ==  \* the results do not reach the prompt
  /\ pc[q] = "calling"
  /\ made[q] = calls[q]
  /\ prompt' = [prompt EXCEPT ![q] = Append(@, Answer(q, iter[q], calls[q]))]
  /\ \/ pc' = [pc EXCEPT ![q] = "ended"]
     \/ /\ iter[q] < MaxIterations
        /\ pc' = [pc EXCEPT ![q] = "consulting"]
  /\ UNCHANGED <<status, transcript, iter, calls, made, gone, calm>>

FinishBatchUnbounded(q) ==  \* the budget is not looked at again
  /\ pc[q] = "calling"
  /\ made[q] = calls[q]
  /\ prompt' = [prompt EXCEPT ![q] =
                  Append(@, Answer(q, iter[q], calls[q])) \o ResultsOf(q)]
  /\ pc' \in { [pc EXCEPT ![q] = "ended"], [pc EXCEPT ![q] = "consulting"] }
  /\ UNCHANGED <<status, transcript, iter, calls, made, gone, calm>>

FinishBatch(q) ==
  /\ pc[q] = "calling"
  /\ made[q] = calls[q]
  /\ prompt' = [prompt EXCEPT ![q] =
                  Append(@, Answer(q, iter[q], calls[q])) \o ResultsOf(q)]
  /\ \/ pc' = [pc EXCEPT ![q] = "ended"]
     \/ /\ iter[q] < MaxIterations
        /\ pc' = [pc EXCEPT ![q] = "consulting"]
  /\ UNCHANGED <<status, transcript, iter, calls, made, gone, calm>>

(* The model's provider answers with an error, its client times out after  *)
(* 120 s, or the context is cancelled.                                     *)
ChatFails(q) ==
  /\ pc[q] = "consulting"
  /\ pc' = [pc EXCEPT ![q] = "ended"]
  /\ UNCHANGED <<status, transcript, prompt, iter, calls, made, gone, calm>>

(* Loading something or storing the answer fails.                          *)
StoreFails(q) ==
  /\ pc[q] \in {"loading", "saving"}
  /\ pc' = [pc EXCEPT ![q] = "ended"]
  /\ UNCHANGED <<status, transcript, prompt, iter, calls, made, gone, calm>>

Disconnect(q) ==
  /\ "disconnect" \in Faults
  /\ Working(q)
  /\ ~gone[q]
  /\ gone' = [gone EXCEPT ![q] = TRUE]
  /\ calm' = FALSE
  /\ UNCHANGED <<status, transcript, pc, prompt, iter, calls, made>>

Crash ==
  /\ "crash" \in Faults
  /\ \E q \in Requests : Working(q)
  /\ pc' = [q \in Requests |-> IF Working(q) THEN "ended" ELSE pc[q]]
  /\ calm' = FALSE
  /\ UNCHANGED <<status, transcript, prompt, iter, calls, made, gone>>

-----------------------------------------------------------------------------
RequestStep(q) ==
  \/ SaveUserMessage(q)
  \/ LoadHistory(q)
  \/ \E k \in 0..MaxCalls : Chat(q, k)
  \/ SaveAnswer(q)
  \/ CallTool(q)
  \/ FinishBatch(q)
  \/ ChatFails(q)
  \/ StoreFails(q)
  \/ Disconnect(q)

Next ==
  \/ CreateSession
  \/ ArchiveSession
  \/ DeleteSession
  \/ \E q \in Requests : RequestStep(q)
  \/ Crash

Spec == Init /\ [][Next]_vars

-----------------------------------------------------------------------------
(* An assistant message with tool calls is followed by their results, in   *)
(* order, and a result by nothing but such a message: what chat-completion *)
(* providers require of a conversation.                                    *)
WellFormed(s) ==
  \A p \in DOMAIN s :
    /\ s[p].kind = "assistant" =>
         \A j \in 1..s[p].n :
           /\ p + j \in DOMAIN s
           /\ s[p + j] = ToolResult(s[p].req, s[p].iter, j)
    /\ s[p].kind = "tool" =>
         /\ s[p].n < p
         /\ LET a == s[p - s[p].n]
            IN  /\ a.kind = "assistant"
                /\ a.req = s[p].req /\ a.iter = s[p].iter /\ s[p].n <= a.n

(* Every prompt shown to the model is a well-formed conversation, those    *)
(* read back from the transcript of earlier requests included.             *)
PromptsWellFormed ==
  \A q \in Requests : pc[q] = "consulting" => WellFormed(prompt[q])

(* It is one as long as requests take turns and none was cut short in the  *)
(* middle of its tool calls: a run that fails, is halted or runs out of    *)
(* budget leaves a conversation that the next request can go on with.      *)
CalmPromptsWellFormed == calm => PromptsWellFormed

(* The model is shown the message it is asked to answer.                   *)
OwnMessageShown ==
  \A q \in Requests :
    pc[q] = "consulting" =>
      \E p \in DOMAIN prompt[q] : prompt[q][p] = UserMessage(q)

(* The session can be resumed: whatever the model is shown is in the       *)
(* stored transcript, in the same order, however requests overlap, break   *)
(* off or crash, so that the next request is shown it as well.             *)
PromptsAreStored ==
  \A q \in Requests :
    \A a, b \in DOMAIN prompt[q] :
      pc[q] = "consulting" /\ ~gone[q] /\ a < b => \E c, d \in DOMAIN transcript :
                 /\ c < d
                 /\ transcript[c] = prompt[q][a]
                 /\ transcript[d] = prompt[q][b]

(* In the stored transcript a tool result comes after the answer that made *)
(* the call, and no call has two results.                                  *)
ResultsFollowCalls ==
  \A p \in DOMAIN transcript :
    transcript[p].kind = "tool" =>
      /\ \E o \in 1..(p - 1) :
           /\ transcript[o].kind = "assistant"
           /\ transcript[o].req = transcript[p].req
           /\ transcript[o].iter = transcript[p].iter
           /\ transcript[p].n <= transcript[o].n
      /\ \A r \in DOMAIN transcript :
           transcript[r] = transcript[p] => r = p

(* All of that: the stored session is what the next request can go on with. *)
Resumable == PromptsAreStored /\ ResultsFollowCalls
=============================================================================
