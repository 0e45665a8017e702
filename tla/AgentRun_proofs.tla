-------------------------- MODULE AgentRun_proofs --------------------------
(***************************************************************************)
(* Proofs, for any tools, calls, thresholds and budget, of the safety      *)
(* properties of AgentRun.                                                 *)
(***************************************************************************)
EXTENDS AgentRun, FiniteSetTheorems, TLAPS

-----------------------------------------------------------------------------
(* The inductive invariant: while the guardrail lets the run go on, no     *)
(* call has reached its threshold; and the model is consulted only by a    *)
(* run that goes on and has carried out every call.                        *)
Going ==
  /\ state = "executing" => \A c \in Calls : exact[c] < ExactThreshold
  /\ pc = "consulting" => state = "executing" /\ batch = <<>>
  /\ reached => pc = "ended"

Inv == TypeOK /\ Going /\ HonestEnd

USE RunAssumption

(* An answer is a sequence of calls.                                       *)
LEMMA AnswerType == ASSUME NEW answer \in Answers PROVE answer \in Seq(Calls)
  BY DEF Answers

(* The start of a run.                                                     *)
LEMMA InitInv == Init => Inv
<1> SUFFICES ASSUME Init PROVE Inv
  OBVIOUS
<1>1. used \in 0..MaxIterations /\ batch \in Seq(Calls)
  BY DEF Init
<1>2. TypeOK
  BY <1>1 DEF Init, TypeOK
<1>3. Going /\ HonestEnd
  BY DEF Init, Going, HonestEnd
<1> QED
  BY <1>2, <1>3 DEF Inv

(* Every step preserves the invariant.                                     *)
LEMMA NextInv == Inv /\ [Next]_vars => Inv'
<1> SUFFICES ASSUME Inv, [Next]_vars PROVE Inv'
  OBVIOUS
<1> USE DEF Inv, counters
<1>1. ASSUME NEW answer \in Answers, Consult(answer) PROVE Inv'
  <2>1. TypeOK'
    BY <1>1, AnswerType DEF Consult, TypeOK
  <2>2. Going' /\ HonestEnd'
    BY <1>1 DEF Consult, TypeOK, Going, HonestEnd
  <2> QED
    BY <2>1, <2>2
<1>2. CASE ConsultFails
  BY <1>2 DEF ConsultFails, TypeOK, Going, HonestEnd
<1>3. CASE Refuse
  <2>1. Tail(batch) \in Seq(Calls)
    BY <1>3 DEF Refuse, TypeOK
  <2> QED
    BY <1>3, <2>1 DEF Refuse, TypeOK, Going, HonestEnd
<1>4. ASSUME NEW outcome \in Outcomes, Execute(outcome) PROVE Inv'
  <2> DEFINE c == Head(batch)
             t == ToolOf[c]
  <2>1. c \in Calls /\ t \in Tools /\ Tail(batch) \in Seq(Calls)
    BY <1>4 DEF Execute, TypeOK
  <2>2. /\ exact' = ExactAfter(c, outcome)
        /\ same' = SameAfter(c, outcome)
        /\ state' = IF Halts(exact'[c], same'[t]) THEN "completed" ELSE state
        /\ worked' = IF outcome = "fails" THEN worked ELSE worked \union {t}
        /\ stale' = [stale EXCEPT ![c] = Repetitions(stale[c], outcome)]
        /\ batch' = Tail(batch)
        /\ pc = "calling"
        /\ UNCHANGED <<pc, used, reached>>
    BY <1>4 DEF Execute
  <2> HIDE DEF c, t
  <2>3. exact' \in [Calls -> Nat] /\ same' \in [Tools -> Nat]
    <3>1. exact' \in [Calls -> Nat]
      BY <2>1, <2>2 DEF ExactAfter, TypeOK
    <3>2. same' = [same EXCEPT ![t] = IF outcome = "fails" THEN @ + 1 ELSE 0]
      BY <2>2 DEF SameAfter, c, t
    <3>3. same' \in [Tools -> Nat]
      BY <2>1, <3>2 DEF TypeOK
    <3> QED
      BY <3>1, <3>3
  <2>4. stale' \in [Calls -> Nat]
    <3>1. stale[c] \in Nat
      BY <2>1 DEF TypeOK
    <3>2. Repetitions(stale[c], outcome) \in Nat
      BY <3>1, RunAssumption DEF Repetitions
    <3> QED
      BY <2>1, <2>2, <3>2 DEF TypeOK
  <2>5. TypeOK'
    BY <2>1, <2>2, <2>3, <2>4 DEF TypeOK
  <2>6. state' = "executing" => \A d \in Calls : exact'[d] < ExactThreshold
    <3> SUFFICES ASSUME state' = "executing", NEW d \in Calls
                 PROVE  exact'[d] < ExactThreshold
      OBVIOUS
    <3>1. state = "executing" /\ ~Halts(exact'[c], same'[t])
      BY <2>2
    <3>2. CASE d = c
      BY <3>1, <3>2, <2>1, <2>3 DEF Halts
    <3>3. CASE d # c
      BY <3>1, <3>3, <2>1, <2>2 DEF ExactAfter, Going, TypeOK
    <3> QED
      BY <3>2, <3>3
  <2>7. Going' /\ HonestEnd'
    BY <2>2, <2>6 DEF Going, HonestEnd
  <2> QED
    BY <2>5, <2>7
<1>5. CASE FinishBatch
  BY <1>5 DEF FinishBatch, TypeOK, Going, HonestEnd
<1>6. CASE UNCHANGED vars
  BY <1>6 DEF vars, TypeOK, Going, HonestEnd
<1> QED
  BY <1>1, <1>2, <1>3, <1>4, <1>5, <1>6 DEF Next

(* The inductive invariant holds in every reachable state.                 *)
THEOREM Invariance == Spec => []Inv
  BY InitInv, NextInv, PTL DEF Spec

(* Every variable keeps its type; in particular no count of failures falls *)
(* below zero and no run consumes more than its budget.                    *)
THEOREM TypeCorrect == Spec => []TypeOK
<1>1. Inv => TypeOK
  BY DEF Inv
<1> QED
  BY <1>1, Invariance, PTL

(* The model is not consulted again after ExactThreshold failures in a row *)
(* of the same call.                                                       *)
THEOREM RepeatedFailureStopsHolds == Spec => []RepeatedFailureStops
<1>1. Inv => RepeatedFailureStops
  BY DEF Inv, Going, RepeatedFailureStops
<1> QED
  BY <1>1, Invariance, PTL

(* budget_reached is reported by a run that used up its budget and that    *)
(* the guardrail did not halt, and by no other.                            *)
THEOREM HonestEndHolds == Spec => []HonestEnd
<1>1. Inv => HonestEnd
  BY DEF Inv
<1> QED
  BY <1>1, Invariance, PTL

-----------------------------------------------------------------------------
(* How far warnings put off the halt.  Of the calls of a tool, those that  *)
(* have failed, and those that are one failure from their own threshold.   *)
Failed(t) == { c \in Calls : ToolOf[c] = t /\ exact[c] >= 1 }
Nearly(t) == { c \in Calls : ToolOf[c] = t /\ exact[c] = ExactThreshold - 1 }

(* A failure beyond the tool's threshold is let through for bringing one   *)
(* more call next to its own; and such a call has failed twice at least.   *)
Counted(t) ==
  /\ IsFiniteSet(Failed(t))
  /\ same[t] >= Cardinality(Failed(t)) + Cardinality(Nearly(t))
  /\ same[t] <= (SameToolThreshold - 1) + Cardinality(Nearly(t))

Warned == state = "executing" => \A t \in Tools \ worked : Counted(t)

LEMMA NearlyFinite ==
  ASSUME NEW t, ExactThreshold >= 2, IsFiniteSet(Failed(t)), TypeOK
  PROVE  /\ IsFiniteSet(Nearly(t))
         /\ Cardinality(Nearly(t)) \in Nat
         /\ Cardinality(Failed(t)) \in Nat
         /\ Cardinality(Nearly(t)) <= Cardinality(Failed(t))
<1>1. Nearly(t) \subseteq Failed(t)
  BY DEF Nearly, Failed, TypeOK
<1>2. /\ IsFiniteSet(Nearly(t))
      /\ Cardinality(Nearly(t)) <= Cardinality(Failed(t))
  BY <1>1, FS_Subset
<1> QED
  BY <1>2, FS_CardinalityType

(* One call's failure, the run going on: it is the first of this call, or  *)
(* the one that brings it next to its threshold, or neither.               *)
LEMMA CountedAfterFailure ==
  ASSUME TypeOK, TypeOK', ExactThreshold >= 3,
         NEW c \in Calls, NEW t \in Tools, t = ToolOf[c], Counted(t),
         exact' = [exact EXCEPT ![c] = exact[c] + 1],
         same'[t] = same[t] + 1,
         exact'[c] < ExactThreshold,
         ~Halts(exact'[c], same'[t])
  PROVE  Counted(t)'
<1>0. /\ exact[c] \in Nat /\ same[t] \in Nat
      /\ exact'[c] = exact[c] + 1
      /\ \A d \in Calls : d # c => exact'[d] = exact[d]
  BY DEF TypeOK
<1>1. /\ IsFiniteSet(Failed(t)) /\ IsFiniteSet(Nearly(t))
      /\ Cardinality(Nearly(t)) \in Nat /\ Cardinality(Failed(t)) \in Nat
  BY NearlyFinite DEF Counted
<1>2. CASE exact[c] = 0
  <2>1. c \notin Failed(t) /\ Failed(t)' = Failed(t) \union {c}
    BY <1>0, <1>2 DEF Failed
  <2>2. Nearly(t)' = Nearly(t)
    BY <1>0, <1>2 DEF Nearly
  <2>3. /\ IsFiniteSet(Failed(t)')
        /\ Cardinality(Failed(t)') = Cardinality(Failed(t)) + 1
    BY <1>1, <2>1, FS_AddElement
  <2>4. same'[t] <= SameToolThreshold - 1
    BY <1>0, <1>2 DEF Halts
  <2> QED
    BY <1>0, <1>1, <2>2, <2>3, <2>4 DEF Counted
<1>3. CASE exact[c] > 0 /\ exact[c] + 1 < ExactThreshold - 1
  <2>1. Failed(t)' = Failed(t)
    BY <1>0, <1>3 DEF Failed
  <2>2. Nearly(t)' = Nearly(t)
    BY <1>0, <1>3 DEF Nearly
  <2>3. same'[t] <= SameToolThreshold - 1
    BY <1>0, <1>3 DEF Halts
  <2> QED
    BY <1>0, <1>1, <2>1, <2>2, <2>3 DEF Counted
<1>4. CASE exact[c] > 0 /\ exact[c] + 1 = ExactThreshold - 1
  <2>1. Failed(t)' = Failed(t)
    BY <1>0, <1>4 DEF Failed
  <2>2. c \notin Nearly(t) /\ Nearly(t)' = Nearly(t) \union {c}
    BY <1>0, <1>4 DEF Nearly
  <2>3. Cardinality(Nearly(t)') = Cardinality(Nearly(t)) + 1
    <3>1. Cardinality(Nearly(t) \union {c}) = Cardinality(Nearly(t)) + 1
      BY <1>1, <2>2, FS_AddElement
    <3> QED
      BY <2>2, <3>1
  <2> QED
    BY <1>0, <1>1, <2>1, <2>3 DEF Counted
<1> QED
  BY <1>0, <1>2, <1>3, <1>4

(* What a step does not count stays counted.                               *)
LEMMA CountedUnchanged ==
  ASSUME NEW t, Counted(t), same'[t] = same[t],
         \A c \in Calls : ToolOf[c] = t => exact'[c] = exact[c]
  PROVE  Counted(t)'
<1>1. Failed(t)' = Failed(t) /\ Nearly(t)' = Nearly(t)
  BY DEF Failed, Nearly
<1> QED
  BY <1>1 DEF Counted

LEMMA WarnedInit == ASSUME ExactThreshold >= 3, Init PROVE Warned
<1> SUFFICES ASSUME NEW t \in Tools PROVE Counted(t)
  BY DEF Warned
<1>1. same[t] = 0 /\ Failed(t) = {} /\ Nearly(t) = {}
  BY DEF Init, Failed, Nearly
<1> QED
  BY <1>1, FS_EmptySet DEF Counted

LEMMA WarnedNext ==
  ASSUME ExactThreshold >= 3, Inv, Inv', Warned, [Next]_vars
  PROVE  Warned'
<1> SUFFICES ASSUME state' = "executing", NEW t \in Tools, t \notin worked'
             PROVE  Counted(t)'
  BY DEF Warned
<1>1. ASSUME UNCHANGED counters, state = "executing" PROVE Counted(t)'
  BY <1>1, CountedUnchanged DEF Warned, counters
<1>2. ASSUME NEW outcome \in Outcomes, Execute(outcome) PROVE Counted(t)'
  <2> DEFINE c == Head(batch)
  <2>1. /\ c \in Calls /\ ToolOf[c] \in Tools
        /\ exact' = ExactAfter(c, outcome)
        /\ same' = SameAfter(c, outcome)
        /\ state' = IF Halts(exact'[c], same'[ToolOf[c]]) THEN "completed"
                                                        ELSE state
        /\ worked' = IF outcome = "fails" THEN worked
                                         ELSE worked \union {ToolOf[c]}
    BY <1>2 DEF Execute, Inv, TypeOK
  <2> HIDE DEF c
  <2>2. state = "executing" /\ ~Halts(exact'[c], same'[ToolOf[c]])
    BY <2>1
  <2>3. t \notin worked /\ Counted(t)
    BY <2>1, <2>2 DEF Warned
  <2>4. CASE ToolOf[c] = t
    <3>1. outcome = "fails"
      BY <2>1, <2>4
    <3>2. exact' = [exact EXCEPT ![c] = exact[c] + 1]
      BY <2>1, <3>1 DEF ExactAfter
    <3>3. same'[t] = same[t] + 1
      BY <2>1, <2>4, <3>1 DEF SameAfter, Inv, TypeOK
    <3>4. exact'[c] < ExactThreshold
      BY <2>1 DEF Inv, Going
    <3> QED
      BY <2>1, <2>2, <2>3, <2>4, <3>2, <3>3, <3>4, CountedAfterFailure DEF Inv
  <2>5. CASE ToolOf[c] # t
    <3>1. \A d \in Calls : ToolOf[d] = t => exact'[d] = exact[d]
      BY <2>1, <2>5 DEF ExactAfter, Inv, TypeOK
    <3>2. same'[t] = same[t]
      BY <2>1, <2>5 DEF SameAfter, Inv, TypeOK
    <3> QED
      BY <2>3, <3>1, <3>2, CountedUnchanged
  <2> QED
    BY <2>4, <2>5
<1>3. ASSUME NEW answer \in Answers, Consult(answer) PROVE Counted(t)'
  BY <1>1, <1>3 DEF Consult, Inv, Going
<1>4. CASE ConsultFails \/ Refuse \/ FinishBatch \/ UNCHANGED vars
  BY <1>1, <1>4 DEF ConsultFails, Refuse, FinishBatch, vars, counters
<1> QED
  BY <1>2, <1>3, <1>4 DEF Next

(* Of a times b the double of a is no more, when b is 2 at least.          *)
LEMMA DoubleAtMost ==
  ASSUME NEW a \in Nat, NEW b \in Nat, b >= 2 PROVE 2 * a <= a * b
<1>1. a * b = a * 2 + a * (b - 2)
  OBVIOUS
<1>2. a * (b - 2) >= 0
  OBVIOUS
<1> QED
  BY <1>1, <1>2

(* A tool that never works is given up after a number of failures that the *)
(* thresholds bound, whatever arguments it is called with: warnings put    *)
(* the halt off by one failure for every two counted against it.           *)
THEOREM FailingToolStopsHolds ==
  ASSUME ExactThreshold >= 3 PROVE Spec => []FailingToolStops
<1>1. Inv /\ Warned => FailingToolStops
  <2> SUFFICES ASSUME Inv, Warned, pc = "consulting", NEW t \in Tools \ worked
               PROVE  same[t] <= (SameToolThreshold - 1) * (ExactThreshold - 1)
    BY DEF FailingToolStops
  <2>1. Counted(t)
    BY DEF Warned, Inv, Going
  <2>2. /\ Cardinality(Nearly(t)) \in Nat /\ Cardinality(Failed(t)) \in Nat
        /\ Cardinality(Nearly(t)) <= Cardinality(Failed(t))
    BY <2>1, NearlyFinite DEF Counted, Inv
  <2>3. same[t] \in Nat /\ same[t] <= 2 * (SameToolThreshold - 1)
    BY <2>1, <2>2 DEF Counted, Inv, TypeOK
  <2>4. 2 * (SameToolThreshold - 1) <=
          (SameToolThreshold - 1) * (ExactThreshold - 1)
    BY DoubleAtMost
  <2>5. (SameToolThreshold - 1) * (ExactThreshold - 1) \in Int
    OBVIOUS
  <2> QED
    BY <2>2, <2>3, <2>4, <2>5
<1>2. ASSUME Init PROVE Warned
  BY <1>2, WarnedInit
<1>3. Inv /\ Inv' /\ Warned /\ [Next]_vars => Warned'
  BY WarnedNext
<1> QED
  BY <1>1, <1>2, <1>3, Invariance, PTL DEF Spec

-----------------------------------------------------------------------------
(* How long a run is.  The steps that are left at most: an answer and the  *)
(* step that ends it, for every iteration of the budget, and a call of the *)
(* answer each; then what is left of the answer at hand.                   *)
Pending ==
  CASE pc = "consulting" -> 1
    [] pc = "calling" -> Len(batch) + 2
    [] OTHER -> 0

Left == (MaxIterations - used) * (MaxBatch + 2) + Pending

LEMMA PerIteration ==
  ASSUME NEW n \in Nat, NEW w \in Nat
  PROVE  n * w \in Nat /\ (n > 0 => n * w = (n - 1) * w + w)
  OBVIOUS

LEMMA AnswerLength ==
  ASSUME NEW answer \in Answers
  PROVE  Len(answer) \in Nat /\ Len(answer) <= MaxBatch
<1>1. PICK n \in 0..MaxBatch : answer \in [1..n -> Calls]
  BY DEF Answers
<1>2. n \in Nat /\ DOMAIN answer = 1..n
  BY <1>1
<1>3. answer \in Seq(Calls)
  BY AnswerType
<1>4. Len(answer) = n
  BY <1>2, <1>3
<1> QED
  BY <1>1, <1>2, <1>4

LEMMA BudgetLeft ==
  ASSUME NEW n \in 0..MaxIterations
  PROVE  (MaxIterations - n) * (MaxBatch + 2) \in Nat
<1>1. MaxIterations - n \in Nat /\ MaxBatch + 2 \in Nat
  OBVIOUS
<1> QED
  BY <1>1, PerIteration

LEMMA PendingType == TypeOK => Pending \in Nat
  BY DEF TypeOK, Pending

LEMMA PendingTypeNext == ASSUME TypeOK' PROVE Pending' \in Nat
<1>1. Len(batch') \in Nat
  <2>1. batch' \in Seq(Calls)
    BY DEF TypeOK
  <2> QED
    BY <2>1
<1> QED
  BY <1>1 DEF Pending

LEMMA LeftType == TypeOK => Left \in Nat
  BY BudgetLeft, PendingType DEF TypeOK, Left

LEMMA LeftTypeNext == ASSUME TypeOK' PROVE Left' \in Nat
<1>1. used' \in 0..MaxIterations
  BY DEF TypeOK
<1>2. (MaxIterations - used') * (MaxBatch + 2) \in Nat
  BY <1>1, BudgetLeft
<1> QED
  BY <1>2, PendingTypeNext DEF Left

LEMMA SmallerSum ==
  ASSUME NEW a \in Nat, NEW m \in Nat, NEW n \in Nat, m < n
  PROVE  a + m < a + n
  OBVIOUS

LEMMA SmallerProduct ==
  ASSUME NEW a \in Nat, NEW w \in Nat, NEW m \in Nat, m <= w
  PROVE  a + m < (a + w) + 1
  OBVIOUS

(* A step within an iteration uses up what the answer at hand has left.    *)
LEMMA Within ==
  ASSUME TypeOK, TypeOK', UNCHANGED used, Pending' < Pending
  PROVE  Left' < Left
<1> DEFINE rest == (MaxIterations - used) * (MaxBatch + 2)
<1>1. rest \in Nat
  <2>1. MaxIterations - used \in Nat /\ MaxBatch + 2 \in Nat
    BY DEF TypeOK
  <2> QED
    BY <2>1, PerIteration
<1>2. Left = rest + Pending /\ Left' = rest + Pending'
  BY DEF Left
<1>3. Pending \in Nat /\ Pending' \in Nat
  BY PendingType, PendingTypeNext
<1> QED
  BY <1>1, <1>2, <1>3, SmallerSum

(* An answer uses up an iteration, which has room for the longest one.     *)
LEMMA AnswerUsesIteration ==
  ASSUME TypeOK, TypeOK', NEW answer \in Answers, Consult(answer)
  PROVE  Left' < Left
<1> DEFINE n == MaxIterations - used
           w == MaxBatch + 2
<1>1. n \in Nat /\ n > 0 /\ w \in Nat
  BY DEF Consult, TypeOK
<1>2. MaxIterations - used' = n - 1
  BY DEF Consult, TypeOK
<1>3. Left = n * w + 1
  BY DEF Left, Pending, Consult
<1>4. Left' = (n - 1) * w + Pending'
  BY <1>2 DEF Left
<1>5. Pending' \in Nat /\ Pending' <= w
  <2>1. Len(answer) \in Nat /\ Len(answer) <= MaxBatch
    BY AnswerLength
  <2>2. batch' = answer /\ pc' \in {"ended", "calling"}
    BY DEF Consult
  <2> QED
    BY <2>1, <2>2 DEF Pending
<1>6. n * w = (n - 1) * w + w /\ n * w \in Nat /\ (n - 1) * w \in Nat
  <2>1. n * w \in Nat /\ n * w = (n - 1) * w + w
    BY <1>1, PerIteration
  <2>2. n - 1 \in Nat
    BY <1>1
  <2>3. (n - 1) * w \in Nat
    BY <1>1, <2>2, PerIteration
  <2> QED
    BY <2>1, <2>3
<1> DEFINE after == (n - 1) * w
<1>7. Left = (after + w) + 1 /\ Left' = after + Pending'
  BY <1>3, <1>4, <1>6
<1>8. after \in Nat /\ w \in Nat /\ Pending' \in Nat /\ Pending' <= w
  BY <1>1, <1>5, <1>6
<1> QED
  BY <1>7, <1>8, SmallerProduct

LEMMA EveryStepCounts ==
  ASSUME TypeOK, TypeOK', Next PROVE Left' < Left
<1>1. ASSUME NEW answer \in Answers, Consult(answer) PROVE Left' < Left
  BY <1>1, AnswerUsesIteration
<1>2. ASSUME UNCHANGED used, Pending' < Pending PROVE Left' < Left
  BY <1>2, Within
<1>3. ASSUME UNCHANGED <<pc, used>>, pc = "calling", batch # <<>>,
             batch' = Tail(batch)
      PROVE  Left' < Left
  <2>1. Len(batch') = Len(batch) - 1 /\ Len(batch) \in Nat
    BY <1>3 DEF TypeOK
  <2>2. Pending' < Pending
    BY <1>3, <2>1 DEF Pending
  <2> QED
    BY <1>2, <1>3, <2>2
<1>4. CASE ConsultFails
  BY <1>2, <1>4 DEF ConsultFails, Pending
<1>5. CASE Refuse
  BY <1>3, <1>5 DEF Refuse
<1>6. CASE \E outcome \in Outcomes : Execute(outcome)
  BY <1>3, <1>6 DEF Execute
<1>7. CASE FinishBatch
  <2>1. Len(batch) = 0 /\ UNCHANGED used /\ pc = "calling"
    BY <1>7 DEF FinishBatch
  <2>2. pc' \in {"consulting", "ended"}
    BY <1>7 DEF FinishBatch
  <2>3. Pending' < Pending
    BY <2>1, <2>2 DEF Pending
  <2> QED
    BY <1>2, <2>1, <2>3
<1> QED
  BY <1>1, <1>4, <1>5, <1>6, <1>7 DEF Next

(* A step that brings the end of a run nearer.                             *)
Shortens == Left \in Nat /\ Left' \in Nat /\ Left' < Left

(* A run ends after MaxIterations * (MaxBatch + 2) + 1 steps at the latest *)
(* if it does not stand still: each step takes from a number that is that  *)
(* large at the start and never negative.  The loop cannot go on for ever, *)
(* whatever the model answers and however the calls come out.              *)
THEOREM RunIsShort ==
  /\ Init => Left = MaxIterations * (MaxBatch + 2) + 1
  /\ Spec => [][Shortens]_vars
<1>1. Init => Left = MaxIterations * (MaxBatch + 2) + 1
  BY DEF Init, Left, Pending
<1>2. Inv /\ Inv' /\ [Next]_vars => [Shortens]_vars
  <2> SUFFICES ASSUME Inv, Inv', Next PROVE Shortens
    OBVIOUS
  <2>1. TypeOK /\ TypeOK'
    BY DEF Inv
  <2>2. Left \in Nat
    BY <2>1, LeftType
  <2>3. Left' \in Nat
    BY <2>1, LeftTypeNext
  <2>4. Left' < Left
    BY <2>1, EveryStepCounts
  <2> QED
    BY <2>2, <2>3, <2>4 DEF Shortens
<1>3. Spec => [][Shortens]_vars
  BY <1>2, Invariance, PTL DEF Spec
<1> QED
  BY <1>1, <1>3
=============================================================================
