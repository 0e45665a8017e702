------------------------------ MODULE AgentRun ------------------------------
(***************************************************************************)
(* One agent run: the loop that consults the model within an iteration     *)
(* budget and carries out its tool calls under the guardrail.              *)
(*                                                                         *)
(* The guardrail counts failures per call signature (tool and arguments)   *)
(* and per tool.  A success zeroes the counts of its signature and of its  *)
(* tool, a failure that brings a count to its threshold halts the run; but *)
(* the loop looks at that only after the last call of the answer.          *)
(***************************************************************************)
EXTENDS Integers, Sequences

CONSTANTS
  Calls,              \* signatures: tool name and arguments
  ToolOf,             \* [Calls -> Tools]: the tool a signature calls
  Tools,              \* tools a model may name
  Usable,             \* tools that are registered and that GodScope allows
  MaxIterations,      \* iteration budget, 30 unless GodScope says otherwise
  MaxBatch,           \* bound on the tool calls of one answer
  ExactThreshold,     \* exactFailureThreshold, 3
  SameToolThreshold,  \* sameToolFailureThreshold, 5
  NoProgressThreshold \* noProgressThreshold, 3, which nothing reads

ASSUME RunAssumption ==
  /\ ToolOf \in [Calls -> Tools]
  /\ Usable \subseteq Tools
  /\ MaxIterations \in Nat \ {0}
  /\ MaxBatch \in Nat
  /\ ExactThreshold \in Nat \ {0}
  /\ SameToolThreshold \in Nat \ {0}
  /\ NoProgressThreshold \in Nat \ {0}

VARIABLES
  pc,      \* "consulting", "calling" or "ended"
  state,   \* run.State: "executing" or "completed"
  used,    \* IterationBudget.Used
  batch,   \* calls of the last answer still to be carried out
  exact,   \* ExactFailureCounts
  same,    \* SameToolFailureCounts
  worked,  \* tools a call of which has succeeded in this run
  stale,   \* [Calls]: equal results in a row of the call, up to the threshold
  reached  \* budget_reached of the final event

counters == <<exact, same, worked, stale>>
vars == <<pc, state, used, batch, counters, reached>>

Outcomes == {"fails", "repeats", "succeeds"}

TypeOK ==
  /\ pc \in {"consulting", "calling", "ended"}
  /\ state \in {"executing", "completed"}
  /\ used \in 0..MaxIterations
  /\ batch \in Seq(Calls)
  /\ exact \in [Calls -> Nat]
  /\ same \in [Tools -> Nat]
  /\ worked \in SUBSET Tools
  /\ stale \in [Calls -> Nat]
  /\ reached \in BOOLEAN

Init ==
  /\ pc = "consulting"
  /\ state = "executing"
  /\ used = 0
  /\ batch = <<>>
  /\ exact = [c \in Calls |-> 0]
  /\ same = [t \in Tools |-> 0]
  /\ worked = {}
  /\ stale = [c \in Calls |-> 0]
  /\ reached = FALSE

-----------------------------------------------------------------------------
(* The guardrail.                                                          *)

(* The counts after a call c with the given outcome.                       *)
ExactAfterBroken(c, outcome) ==  \* a success takes one failure back
  [exact EXCEPT ![c] = IF outcome = "fails" THEN @ + 1 ELSE @ - 1]

ExactAfter(c, outcome) ==
  [exact EXCEPT ![c] = IF outcome = "fails" THEN @ + 1 ELSE 0]

SameAfter(c, outcome) ==
  [same EXCEPT ![ToolOf[c]] = IF outcome = "fails" THEN @ + 1 ELSE 0]

(* AfterCall's decision on the new counts.  A warning is given before the  *)
(* count of the tool is looked at, and hides it.                           *)
HaltsBroken(e, n) ==  \* the threshold itself is let through
  \/ e > ExactThreshold
  \/ e # ExactThreshold - 1 /\ n >= SameToolThreshold

HaltsExactOnly(e, n) ==  \* failures of a tool are not added up
  e >= ExactThreshold

Halts(e, n) ==
  \/ e >= ExactThreshold
  \/ e # ExactThreshold - 1 /\ n >= SameToolThreshold

-----------------------------------------------------------------------------
(* The loop.                                                               *)

(* The model answers with tool calls, or with none and the run completes.  *)
ConsultBroken(answer) ==  \* the budget is looked at but not consumed
  /\ pc = "consulting"
  /\ used < MaxIterations
  /\ batch' = answer
  /\ pc' = IF answer = <<>> THEN "ended" ELSE "calling"
  /\ state' = IF answer = <<>> THEN "completed" ELSE state
  /\ UNCHANGED <<used, counters, reached>>

Consult(answer) ==
  /\ pc = "consulting"
  /\ used < MaxIterations
  /\ used' = used + 1
  /\ batch' = answer
  /\ pc' = IF answer = <<>> THEN "ended" ELSE "calling"
  /\ state' = IF answer = <<>> THEN "completed" ELSE state
  /\ UNCHANGED <<counters, reached>>

(* The model's provider or the store fails: the run is abandoned.          *)
ConsultFails ==
  /\ pc = "consulting"
  /\ pc' = "ended"
  /\ UNCHANGED <<state, used, batch, counters, reached>>

(* A call of a tool that is not registered or not allowed has an error for *)
(* a result and does not reach the guardrail.                              *)
Refuse ==
  /\ pc = "calling"
  /\ batch # <<>>
  /\ ToolOf[Head(batch)] \notin Usable
  /\ batch' = Tail(batch)
  /\ UNCHANGED <<pc, state, used, counters, reached>>

(* How often in a row a call has had its result, as far as it matters.     *)
Repetitions(n, outcome) ==
  IF outcome = "fails" THEN 0
  ELSE IF outcome = "repeats"
       THEN (IF n < NoProgressThreshold THEN n + 1 ELSE n)
       ELSE 1

(* Any other call is carried out: it fails, or succeeds with a new result  *)
(* or with the one it gave the last time.  The done tool is one of them:   *)
(* declaring the task done has no effect on the run.                       *)
Execute(outcome) ==
  /\ pc = "calling"
  /\ batch # <<>>
  /\ LET c == Head(batch)
         t == ToolOf[c]
     IN  /\ t \in Usable
         /\ exact' = ExactAfter(c, outcome)
         /\ same' = SameAfter(c, outcome)
         /\ state' = IF Halts(exact'[c], same'[t]) THEN "completed" ELSE state
         /\ worked' = IF outcome = "fails" THEN worked ELSE worked \union {t}
         /\ stale' = [stale EXCEPT ![c] = Repetitions(@, outcome)]
  /\ batch' = Tail(batch)
  /\ UNCHANGED <<pc, used, reached>>

(* Every call of the answer has its result.  The loop goes on if the run   *)
(* is not completed and the budget allows.                                 *)
FinishBatchBroken ==  \* the decision to halt is not looked at
  /\ pc = "calling"
  /\ batch = <<>>
  /\ pc' = IF used = MaxIterations THEN "ended" ELSE "consulting"
  /\ reached' = (used = MaxIterations)
  /\ UNCHANGED <<state, used, batch, counters>>

FinishBatch ==
  /\ pc = "calling"
  /\ batch = <<>>
  /\ IF state = "completed" \/ used = MaxIterations
     THEN pc' = "ended" /\ reached' = (state # "completed")
     ELSE pc' = "consulting" /\ UNCHANGED reached
  /\ UNCHANGED <<state, used, batch, counters>>

Answers == UNION { [1..n -> Calls] : n \in 0..MaxBatch }

Next ==
  \/ \E answer \in Answers : Consult(answer)
  \/ ConsultFails
  \/ Refuse
  \/ \E outcome \in Outcomes : Execute(outcome)
  \/ FinishBatch

Spec == Init /\ [][Next]_vars

(* The provider's client has a timeout, and so has a tool's; the loop runs. *)
(* That the model ever answers is not assumed.                             *)
Fairness ==
  /\ WF_vars(ConsultFails)
  /\ WF_vars(Refuse)
  /\ WF_vars(\E outcome \in Outcomes : Execute(outcome))
  /\ WF_vars(FinishBatch)

FairSpec == Spec /\ Fairness

-----------------------------------------------------------------------------
(* The model is not consulted again once a call has failed ExactThreshold  *)
(* times in a row with the same arguments, wherever in an answer it did.   *)
RepeatedFailureStops ==
  pc = "consulting" => \A c \in Calls : exact[c] < ExactThreshold

(* A tool that has never worked is not called on and on with ever other    *)
(* arguments: warnings put off the halt, but by so many failures only, as  *)
(* long as ExactThreshold is at least 3.                                   *)
FailingToolStops ==
  pc = "consulting" =>
    \A t \in Tools \ worked :
      same[t] <= (SameToolThreshold - 1) * (ExactThreshold - 1)

(* A budget that is reported as used up was used up, and by a run that was *)
(* not halted; a completed run has no call left to do.                     *)
HonestEnd ==
  /\ reached => used = MaxIterations /\ state = "executing"
  /\ pc = "ended" /\ state = "completed" => ~reached /\ batch = <<>>

(* The run ends, whatever the model answers, or does not, and the tools do. *)
RunEnds == <>(pc = "ended")

(* No-progress detection: a call that keeps giving the same result does    *)
(* not go on.                                                              *)
NoProgressStops ==
  pc = "consulting" => \A c \in Calls : stale[c] < NoProgressThreshold
=============================================================================
