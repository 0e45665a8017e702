------------------------ MODULE AgentSession_proofs -------------------------
(***************************************************************************)
(* Proofs, for any number of requests, any budget, any number of tool      *)
(* calls and any limit of the history query, of the safety properties of   *)
(* AgentSession.                                                           *)
(***************************************************************************)
EXTENDS AgentSession, FiniteSetTheorems, SequenceTheorems, TLAPS

-----------------------------------------------------------------------------
(* The inductive invariant.                                                *)

Running == {"consulting", "saving", "calling"}

(* A run starts with the whole budget and is never consulted without one;  *)
(* before there is a session, there are no messages and no requests.       *)
Counters ==
  /\ \A q \in Requests : pc[q] \in {"idle", "loading"} => iter[q] = 0
  /\ \A q \in Requests : pc[q] = "consulting" => iter[q] < MaxIterations
  /\ \A q \in Requests : pc[q] = "calling" => made[q] <= calls[q]
  /\ status = "absent" => /\ transcript = <<>>
                          /\ \A q \in Requests : pc[q] = "idle"

(* The system's message, if there is one, is the first.                    *)
SystemFirst(s) == \A p \in DOMAIN s : s[p].kind = "system" => p = 1

(* What is stored of a run is of iterations it has reached, and of the     *)
(* current one no more than it has carried out.                            *)
Reached(m) ==
  m.kind \in {"assistant", "tool"} =>
    /\ m.iter <= iter[m.req]
    /\ m.iter = iter[m.req] =>
         /\ pc[m.req] \notin {"idle", "loading", "saving"}
         /\ m.kind = "tool" /\ pc[m.req] = "calling" => m.n <= made[m.req]

StoredSoFar == \A p \in DOMAIN transcript : Reached(transcript[p])

(* The answer whose calls are carried out is stored, and so is the message *)
(* of the user that the run is for.                                        *)
Has(s, m) == \E p \in DOMAIN s : s[p] = m

AnswerStored ==
  \A q \in Requests :
    pc[q] = "calling" => Has(transcript, Answer(q, iter[q], calls[q]))

AskedStored ==
  \A q \in Requests : pc[q] # "idle" => Has(transcript, UserMessage(q))

(* The prompt a run will have when the batch it is in is over, as far as   *)
(* the batch has got.                                                      *)
MadeSoFar(q) == [j \in 1..made[q] |-> ToolResult(q, iter[q], j)]

Pending(q) ==
  IF pc[q] = "calling"
    THEN Append(prompt[q], Answer(q, iter[q], calls[q])) \o MadeSoFar(q)
    ELSE prompt[q]

Stored(s, t) ==
  /\ \A a \in DOMAIN s : \E c \in DOMAIN t : t[c] = s[a]
  /\ \A a, b \in DOMAIN s : a < b =>
       \E c, d \in DOMAIN t : c < d /\ t[c] = s[a] /\ t[d] = s[b]

(* All of it is stored, in that order, while the client is there.          *)
PendingStored ==
  \A q \in Requests :
    pc[q] \in Running /\ ~gone[q] => Stored(Pending(q), transcript)

(* The message to be answered was within the limit of the history query.   *)
OwnMessageKept ==
  Len(transcript) <= HistoryLimit =>
    \A q \in Requests : pc[q] \in Running =>
      Has(prompt[q], UserMessage(q))

(* As long as nothing has gone wrong, one request works at a time, the     *)
(* conversation it shows is the stored one, and that is well-formed but    *)
(* for the batch that is being carried out.                                *)
OneAtATime ==
  /\ \A q \in Requests : ~gone[q]
  /\ \A q, r \in Requests : Working(q) /\ Working(r) => q = r

ShownIsStored ==
  Len(transcript) <= HistoryLimit =>
    \A q \in Requests : pc[q] \in Running => Pending(q) = Conversation(transcript)

BatchIsLast(q) ==
  \E s \in Seq(Message) :
    /\ WellFormed(s)
    /\ transcript = Append(s, Answer(q, iter[q], calls[q])) \o MadeSoFar(q)

WholeBatches ==
  /\ (\A q \in Requests : pc[q] # "calling") => WellFormed(transcript)
  /\ \A q \in Requests : pc[q] = "calling" => BatchIsLast(q)

CalmRuns == calm => OneAtATime /\ ShownIsStored /\ WholeBatches

(* Its part about types.                                                   *)
TypeInv == TypeOK /\ Counters /\ SystemFirst(transcript)

(* Its part about what is stored.                                          *)
StoreInv == StoredSoFar /\ AnswerStored /\ AskedStored /\ ResultsFollowCalls
USE SessionAssumption

-----------------------------------------------------------------------------
(* Conversations.                                                          *)

(* The n-th element of an interval.                                        *)
LEMMA NthOfInterval ==
  ASSUME NEW a \in Nat, NEW b \in Nat, NEW S, S = a..b, a <= b + 1
  PROVE  /\ Cardinality(S) = b - a + 1
         /\ \A n \in 1..(b - a + 1) : Nth(S, n) = a + n - 1
<1>1. Cardinality(S) = b - a + 1
  BY FS_Interval
<1>2. ASSUME NEW n \in 1..(b - a + 1)
      PROVE  Nth(S, n) = a + n - 1
  <2> DEFINE Upto(p) == Cardinality({ o \in S : o <= p })
  <2>1. \A p \in S : Upto(p) = p - a + 1
    <3> TAKE p \in S
    <3>1. { o \in S : o <= p } = a..p
      OBVIOUS
    <3>2. Cardinality(a..p) = p - a + 1
      BY FS_Interval
    <3> QED
      BY <3>1, <3>2, Zenon
  <2>2. a + n - 1 \in S
    OBVIOUS
  <2>3. Nth(S, n) = CHOOSE p \in S : Upto(p) = n
    BY Zenon DEF Nth
  <2> HIDE DEF Upto
  <2>4. \A p \in S : Upto(p) = n <=> p = a + n - 1
    BY <2>1
  <2> QED
    BY <2>2, <2>3, <2>4, Zenon
<1> QED
  BY <1>1, <1>2

(* A conversation drops the first message if that is the system's.         *)
LEMMA ConversationDropsFirst ==
  ASSUME NEW s \in Seq(Message), SystemFirst(s)
  PROVE  /\ s # <<>> /\ s[1].kind = "system" => Conversation(s) = Tail(s)
         /\ ~(s # <<>> /\ s[1].kind = "system") => Conversation(s) = s
<1> DEFINE kept == { p \in DOMAIN s : NotSystem(s[p]) }
<1>0. Conversation(s) = [n \in 1..Cardinality(kept) |-> s[Nth(kept, n)]]
  BY DEF Conversation
<1>1. CASE s # <<>> /\ s[1].kind = "system"
  <2>1. kept = 2..Len(s)
    BY <1>1 DEF SystemFirst, NotSystem
  <2> HIDE DEF kept
  <2>2. /\ Cardinality(kept) = Len(s) - 1
        /\ \A n \in 1..(Len(s) - 1) : Nth(kept, n) = n + 1
    <3>1. 2 <= Len(s) + 1
      BY <1>1
    <3>2. /\ Cardinality(kept) = Len(s) - 2 + 1
          /\ \A n \in 1..(Len(s) - 2 + 1) : Nth(kept, n) = 2 + n - 1
      BY <2>1, <3>1, NthOfInterval
    <3> QED
      BY <3>2
  <2>4. Conversation(s) = [n \in 1..(Len(s) - 1) |-> s[n + 1]]
    BY <1>0, <2>2
  <2>5. Tail(s) = [n \in 1..(Len(s) - 1) |-> s[n + 1]]
    <3> DEFINE t == Tail(s)
    <3>1. /\ t \in Seq(Message) /\ Len(t) = Len(s) - 1
          /\ \A n \in 1..Len(t) : t[n] = s[n + 1]
      BY <1>1, HeadTailProperties
    <3> HIDE DEF t
    <3>2. t = [n \in 1..(Len(s) - 1) |-> s[n + 1]]
      BY <3>1
    <3> QED
      BY <3>2 DEF t
  <2> QED
    BY <2>4, <2>5, <1>1, Zenon
<1>2. CASE ~(s # <<>> /\ s[1].kind = "system")
  <2>1. kept = 1..Len(s)
    BY <1>2 DEF SystemFirst, NotSystem
  <2> HIDE DEF kept
  <2>2. /\ Cardinality(kept) = Len(s)
        /\ \A n \in 1..Len(s) : Nth(kept, n) = n
    <3>2. /\ Cardinality(kept) = Len(s) - 1 + 1
          /\ \A n \in 1..(Len(s) - 1 + 1) : Nth(kept, n) = 1 + n - 1
      BY <2>1, NthOfInterval
    <3> QED
      BY <3>2
  <2>4. Conversation(s) = [n \in 1..Len(s) |-> s[n]]
    BY <1>0, <2>2
  <2>5. s = [n \in 1..Len(s) |-> s[n]]
    OBVIOUS
  <2> QED
    BY <2>4, <2>5, <1>2, Zenon
<1> QED
  BY <1>1, <1>2

(* A new message joins the conversation at its end.                        *)
LEMMA ConversationGrows ==
  ASSUME NEW s \in Seq(Message), NEW m \in Message, SystemFirst(s),
         m.kind # "system"
  PROVE  /\ SystemFirst(Append(s, m))
         /\ Conversation(Append(s, m)) = Append(Conversation(s), m)
<1> DEFINE t == Append(s, m)
<1>1. /\ t \in Seq(Message) /\ t # <<>> /\ Len(t) = Len(s) + 1
      /\ t[Len(s) + 1] = m
      /\ \A p \in 1..Len(s) : t[p] = s[p]
  OBVIOUS
<1>2. SystemFirst(t)
  BY <1>1 DEF SystemFirst
<1>3. CASE s # <<>> /\ s[1].kind = "system"
  <2>1. t[1].kind = "system"
    BY <1>1, <1>3
  <2>2. Conversation(t) = Tail(t) /\ Conversation(s) = Tail(s)
    BY <1>1, <1>2, <1>3, <2>1, ConversationDropsFirst
  <2> QED
    BY <1>2, <1>3, <2>2
<1>4. CASE ~(s # <<>> /\ s[1].kind = "system")
  <2>1. t[1].kind # "system"
    BY <1>1, <1>4
  <2>2. Conversation(t) = t /\ Conversation(s) = s
    BY <1>1, <1>2, <1>4, <2>1, ConversationDropsFirst
  <2> QED
    BY <1>2, <2>2
<1> QED
  BY <1>3, <1>4

LEMMA ConversationType ==
  ASSUME NEW s \in Seq(Message), SystemFirst(s)
  PROVE  Conversation(s) \in Seq(Message)
<1>1. s # <<>> => Tail(s) \in Seq(Message)
  BY HeadTailProperties
<1> QED
  BY <1>1, ConversationDropsFirst

LEMMA HistoryType ==
  ASSUME TypeOK, SystemFirst(transcript)
  PROVE  /\ History \in Seq(Message)
         /\ Len(transcript) <= HistoryLimit => History = Conversation(transcript)
<1> DEFINE last == IF Len(transcript) < HistoryLimit THEN Len(transcript)
                                                     ELSE HistoryLimit
           s == SubSeq(transcript, 1, last)
<1>1. /\ transcript \in Seq(Message) /\ last \in 0..Len(transcript)
      /\ Len(transcript) <= HistoryLimit => last = Len(transcript)
  BY DEF TypeOK
<1> HIDE DEF last
<1>2. /\ s \in Seq(Message)
      /\ \A i \in DOMAIN s : i \in DOMAIN transcript /\ s[i] = transcript[i]
  BY <1>1
<1>3. SystemFirst(s)
  BY <1>2 DEF SystemFirst
<1>4. last = Len(transcript) => s = transcript
  BY <1>1, SubSeqFull
<1>5. History = Conversation(s)
  BY DEF History, last
<1> HIDE DEF s
<1> QED
  BY <1>1, <1>2, <1>3, <1>4, <1>5, ConversationType

-----------------------------------------------------------------------------
(* Messages and batches.                                                   *)
LEMMA MessageTypes ==
  ASSUME NEW q \in Requests, NEW i \in Nat, NEW n \in Nat
  PROVE  /\ SystemMessage(q) \in Message /\ SystemMessage(q).kind = "system"
         /\ UserMessage(q) \in Message /\ UserMessage(q).kind = "user"
         /\ Answer(q, i, n) \in Message /\ Answer(q, i, n).kind = "assistant"
         /\ Answer(q, i, n).req = q /\ Answer(q, i, n).iter = i /\ Answer(q, i, n).n = n
         /\ ToolResult(q, i, n) \in Message /\ ToolResult(q, i, n).kind = "tool"
         /\ ToolResult(q, i, n).req = q /\ ToolResult(q, i, n).iter = i
         /\ ToolResult(q, i, n).n = n
BY DEF Message, SystemMessage, UserMessage, Answer, ToolResult

LEMMA BatchTypes ==
  ASSUME NEW q \in Requests, NEW i \in Nat, NEW n \in Nat,
         NEW s, s = [j \in 1..n |-> ToolResult(q, i, j)]
  PROVE  /\ s \in Seq(Message) /\ Len(s) = n
         /\ \A j \in 1..n : s[j] = ToolResult(q, i, j)
<1>1. \A j \in 1..n : ToolResult(q, i, j) \in Message
  BY MessageTypes
<1>2. \A j \in 1..n : s[j] = ToolResult(q, i, j)
  OBVIOUS
<1>3. s \in [1..n -> Message]
  BY <1>1
<1> QED
  BY <1>2, <1>3

LEMMA TypesOfRequest ==
  ASSUME TypeOK, NEW q \in Requests
  PROVE  /\ transcript \in Seq(Message) /\ prompt[q] \in Seq(Message)
         /\ iter[q] \in Nat /\ calls[q] \in Nat /\ made[q] \in Nat
         /\ Answer(q, iter[q], calls[q]) \in Message
         /\ ResultsOf(q) \in Seq(Message) /\ Len(ResultsOf(q)) = calls[q]
         /\ MadeSoFar(q) \in Seq(Message) /\ Len(MadeSoFar(q)) = made[q]
         /\ \A j \in 1..calls[q] : ResultsOf(q)[j] = ToolResult(q, iter[q], j)
         /\ \A j \in 1..made[q] : MadeSoFar(q)[j] = ToolResult(q, iter[q], j)
<1>1. /\ transcript \in Seq(Message) /\ prompt[q] \in Seq(Message)
      /\ iter[q] \in Nat /\ calls[q] \in Nat /\ made[q] \in Nat
  BY DEF TypeOK
<1>2. /\ Answer(q, iter[q], calls[q]) \in Message
      /\ \A j \in Nat : ToolResult(q, iter[q], j) \in Message
  BY <1>1, MessageTypes
<1>3. /\ ResultsOf(q) \in Seq(Message) /\ Len(ResultsOf(q)) = calls[q]
      /\ \A j \in 1..calls[q] : ResultsOf(q)[j] = ToolResult(q, iter[q], j)
  BY <1>1, BatchTypes DEF ResultsOf
<1>4. /\ MadeSoFar(q) \in Seq(Message) /\ Len(MadeSoFar(q)) = made[q]
      /\ \A j \in 1..made[q] : MadeSoFar(q)[j] = ToolResult(q, iter[q], j)
  BY <1>1, BatchTypes DEF MadeSoFar
<1> QED
  BY <1>1, <1>2, <1>3, <1>4

-----------------------------------------------------------------------------
(* Types.                                                                  *)
LEMMA InitTypes == Init => TypeInv
BY DEF Init, TypeInv, TypeOK, Counters, SystemFirst

(* A message that is not the system's can always be stored.                *)
LEMMA Storing ==
  ASSUME NEW s \in Seq(Message), NEW m \in Message, SystemFirst(s),
         m.kind # "system"
  PROVE  Append(s, m) \in Seq(Message) /\ SystemFirst(Append(s, m))
BY ConversationGrows

LEMMA TypeStep == TypeInv /\ [Next]_vars => TypeInv'
<1> SUFFICES ASSUME TypeInv, [Next]_vars PROVE TypeInv'
  OBVIOUS
<1> USE DEF TypeInv, Counters
<1>0. TypeOK /\ SystemFirst(transcript)
  OBVIOUS
<1>1. ASSUME CreateSession PROVE TypeInv'
  <2>1. transcript' \in Seq(Message) /\ SystemFirst(transcript')
    <3>1. CASE transcript' = <<>>
      BY <3>1 DEF SystemFirst
    <3>2. ASSUME NEW q \in Requests, transcript' = <<SystemMessage(q)>>
          PROVE  transcript' \in Seq(Message) /\ SystemFirst(transcript')
      <4>1. SystemMessage(q) \in Message
        BY MessageTypes
      <4> QED
        BY <3>2, <4>1 DEF SystemFirst
    <3> QED
      BY <1>1, <3>1, <3>2 DEF CreateSession
  <2> QED
    BY <1>1, <2>1 DEF CreateSession, TypeOK
<1>2. ASSUME ArchiveSession \/ DeleteSession PROVE TypeInv'
  BY <1>2 DEF ArchiveSession, DeleteSession, TypeOK, SystemFirst
<1>3. ASSUME NEW q \in Requests, SaveUserMessage(q) PROVE TypeInv'
  <2>1. transcript' \in Seq(Message) /\ SystemFirst(transcript')
    BY <1>3, <1>0, MessageTypes, Storing DEF SaveUserMessage, TypeOK
  <2> QED
    BY <1>3, <2>1 DEF SaveUserMessage, TypeOK, Working
<1>4. ASSUME NEW q \in Requests, LoadHistory(q) PROVE TypeInv'
  <2>1. History \in Seq(Message)
    BY <1>0, HistoryType
  <2> QED
    BY <1>4, <2>1 DEF LoadHistory, TypeOK, SystemFirst
<1>5. ASSUME NEW q \in Requests, NEW k \in 0..MaxCalls, Chat(q, k) PROVE TypeInv'
  BY <1>5 DEF Chat, TypeOK, SystemFirst
<1>6. ASSUME NEW q \in Requests, SaveAnswer(q) PROVE TypeInv'
  <2>1. transcript' \in Seq(Message) /\ SystemFirst(transcript')
    <3>1. Answer(q, iter[q], calls[q]) \in Message
          /\ Answer(q, iter[q], calls[q]).kind # "system"
      BY <1>0, MessageTypes DEF TypeOK
    <3> QED
      BY <1>6, <1>0, <3>1, Storing DEF SaveAnswer, TypeOK
  <2> QED
    BY <1>6, <2>1 DEF SaveAnswer, TypeOK
<1>7. ASSUME NEW q \in Requests, CallTool(q) PROVE TypeInv'
  <2>1. transcript' \in Seq(Message) /\ SystemFirst(transcript')
    <3>1. ToolResult(q, iter[q], made[q] + 1) \in Message
          /\ ToolResult(q, iter[q], made[q] + 1).kind # "system"
      BY <1>0, MessageTypes DEF TypeOK
    <3> QED
      BY <1>7, <1>0, <3>1, Storing DEF CallTool, TypeOK
  <2>2. /\ made[q] < calls[q] /\ made' = [made EXCEPT ![q] = @ + 1]
        /\ calm' \in BOOLEAN /\ status # "absent"
        /\ UNCHANGED <<status, pc, prompt, iter, calls, gone>>
    BY <1>7 DEF CallTool, TypeOK
  <2> QED
    BY <2>1, <2>2 DEF TypeOK
<1>8. ASSUME NEW q \in Requests, FinishBatch(q) PROVE TypeInv'
  <2>1. Append(prompt[q], Answer(q, iter[q], calls[q])) \o ResultsOf(q) \in Seq(Message)
    BY <1>0, TypesOfRequest
  <2> QED
    BY <1>8, <2>1 DEF FinishBatch, TypeOK, SystemFirst
<1>9. ASSUME NEW q \in Requests, ChatFails(q) \/ StoreFails(q) PROVE TypeInv'
  BY <1>9 DEF ChatFails, StoreFails, TypeOK, SystemFirst
<1>10. ASSUME NEW q \in Requests, Disconnect(q) PROVE TypeInv'
  BY <1>10 DEF Disconnect, TypeOK, SystemFirst
<1>11. ASSUME Crash PROVE TypeInv'
  BY <1>11 DEF Crash, TypeOK, SystemFirst, Working
<1>12. ASSUME UNCHANGED vars PROVE TypeInv'
  BY <1>12 DEF vars, TypeOK, SystemFirst
<1> QED
  BY <1>1, <1>2, <1>3, <1>4, <1>5, <1>6, <1>7, <1>8, <1>9, <1>10, <1>11, <1>12
     DEF Next, RequestStep

(* A session, its messages and its requests always have values of their    *)
(* types; in particular no run consults the model more often than its      *)
(* budget allows.                                                          *)
THEOREM TypeCorrect == Spec => []TypeOK
<1>1. TypeInv => TypeOK
  BY DEF TypeInv
<1> QED
  BY <1>1, InitTypes, TypeStep, PTL DEF Spec

-----------------------------------------------------------------------------
(* What is stored stays where it is when a message is added.               *)
LEMMA AppendKeeps ==
  ASSUME NEW s \in Seq(Message), NEW m \in Message
  PROVE  /\ DOMAIN Append(s, m) = DOMAIN s \union {Len(s) + 1}
         /\ DOMAIN s = 1..Len(s) /\ Len(s) \in Nat /\ Len(Append(s, m)) = Len(s) + 1
         /\ \A p \in DOMAIN s : Append(s, m)[p] = s[p] /\ p < Len(s) + 1
         /\ Append(s, m)[Len(s) + 1] = m
OBVIOUS

LEMMA HasGrows ==
  ASSUME NEW s \in Seq(Message), NEW m \in Message
  PROVE  /\ Has(Append(s, m), m)
         /\ \A x : Has(s, x) => Has(Append(s, m), x)
BY AppendKeeps DEF Has

(* A result may be added once the answer that made the call is there, if   *)
(* it is not there itself.                                                 *)
Follows(s) ==
  \A p \in DOMAIN s :
    s[p].kind = "tool" =>
      /\ \E o \in 1..(p - 1) :
           /\ s[o].kind = "assistant"
           /\ s[o].req = s[p].req
           /\ s[o].iter = s[p].iter
           /\ s[p].n <= s[o].n
      /\ \A r \in DOMAIN s : s[r] = s[p] => r = p

LEMMA FollowsGrows ==
  ASSUME NEW s \in Seq(Message), NEW m \in Message, Follows(s),
         m.kind = "tool" =>
           /\ ~Has(s, m)
           /\ \E a \in Message : /\ Has(s, a) /\ a.kind = "assistant"
                                 /\ a.req = m.req /\ a.iter = m.iter /\ m.n <= a.n
  PROVE  Follows(Append(s, m))
<1> DEFINE t == Append(s, m)
<1>1. /\ DOMAIN t = DOMAIN s \union {Len(s) + 1}
      /\ DOMAIN s = 1..Len(s) /\ Len(s) \in Nat
      /\ \A p \in DOMAIN s : t[p] = s[p] /\ p < Len(s) + 1
      /\ t[Len(s) + 1] = m
  BY AppendKeeps
<1> HIDE DEF t
<1> SUFFICES ASSUME NEW p \in DOMAIN t, t[p].kind = "tool"
             PROVE  /\ \E o \in 1..(p - 1) :
                         /\ t[o].kind = "assistant"
                         /\ t[o].req = t[p].req
                         /\ t[o].iter = t[p].iter
                         /\ t[p].n <= t[o].n
                    /\ \A r \in DOMAIN t : t[r] = t[p] => r = p
  BY DEF Follows, t
<1>2. CASE p \in DOMAIN s
  <2>1. s[p].kind = "tool" /\ t[p] = s[p]
    BY <1>1, <1>2
  <2>2. PICK o \in 1..(p - 1) :
          /\ s[o].kind = "assistant" /\ s[o].req = s[p].req
          /\ s[o].iter = s[p].iter /\ s[p].n <= s[o].n
    BY <1>2, <2>1 DEF Follows
  <2>3. o \in DOMAIN s /\ t[o] = s[o]
    BY <1>1, <1>2
  <2>4. ASSUME NEW r \in DOMAIN t, t[r] = t[p] PROVE r = p
    <3>1. r # Len(s) + 1
      BY <1>1, <1>2, <2>1, <2>4 DEF Has
    <3> QED
      BY <1>1, <1>2, <2>1, <2>4, <3>1 DEF Follows
  <2> QED
    BY <2>1, <2>2, <2>3, <2>4
<1>3. CASE p = Len(s) + 1
  <2>1. t[p] = m
    BY <1>1, <1>3
  <2>2. PICK a \in Message : /\ Has(s, a) /\ a.kind = "assistant"
                            /\ a.req = m.req /\ a.iter = m.iter /\ m.n <= a.n
    BY <2>1
  <2>3. PICK o \in DOMAIN s : s[o] = a
    BY <2>2 DEF Has
  <2>4. o \in 1..(p - 1) /\ t[o] = a
    BY <1>1, <1>3, <2>3
  <2>5. ~Has(s, m)
    BY <2>1
  <2> QED
    BY <1>1, <1>3, <2>1, <2>2, <2>4, <2>5 DEF Has
<1> QED
  BY <1>1, <1>2, <1>3

-----------------------------------------------------------------------------
(* Results follow calls.                                                   *)
LEMMA InitStore == Init => StoreInv
BY DEF Init, StoreInv, StoredSoFar, AnswerStored, AskedStored, ResultsFollowCalls

(* What the store is asked to keep when a message m is added.              *)
LEMMA StoreGrows ==
  ASSUME TypeInv, StoreInv, NEW m \in Message, transcript' = Append(transcript, m),
         \A x \in Message : Reached(x) => Reached(x)',
         Reached(m)',
         m.kind = "tool" =>
           /\ ~Has(transcript, m)
           /\ \E a \in Message : /\ Has(transcript, a) /\ a.kind = "assistant"
                                 /\ a.req = m.req /\ a.iter = m.iter /\ m.n <= a.n,
         \A q \in Requests : pc'[q] = "calling" =>
           \/ m = Answer(q, iter'[q], calls'[q])
           \/ pc[q] = "calling" /\ iter'[q] = iter[q] /\ calls'[q] = calls[q],
         \A q \in Requests : pc'[q] # "idle" => pc[q] # "idle" \/ m = UserMessage(q)
  PROVE  StoreInv'
<1>0. transcript \in Seq(Message)
  BY DEF TypeInv, TypeOK
<1>1. StoredSoFar'
  <2>1. \A p \in DOMAIN transcript : transcript[p] \in Message /\ Reached(transcript[p])
    BY <1>0 DEF StoreInv, StoredSoFar
  <2>2. ASSUME NEW p \in DOMAIN transcript' PROVE Reached(transcript[p])'
    <3>1. CASE p \in DOMAIN transcript
      <4>1. transcript'[p] = transcript[p] /\ transcript[p] \in Message
        BY <1>0, <3>1, AppendKeeps
      <4> QED
        BY <2>1, <3>1, <4>1 DEF Reached
    <3>2. CASE p = Len(transcript) + 1
      BY <1>0, <3>2, AppendKeeps DEF Reached
    <3> QED
      BY <1>0, <3>1, <3>2, AppendKeeps
  <2> QED
    BY <2>2 DEF StoredSoFar
<1>2. AnswerStored'
  BY <1>0, HasGrows DEF StoreInv, AnswerStored, Answer
<1>3. AskedStored'
  BY <1>0, HasGrows DEF StoreInv, AskedStored, UserMessage
<1>4. ResultsFollowCalls'
  <2>1. Follows(transcript)
    BY DEF StoreInv, ResultsFollowCalls, Follows
  <2>2. Follows(Append(transcript, m))
    BY <1>0, <2>1, FollowsGrows
  <2> QED
    BY <2>2 DEF ResultsFollowCalls, Follows
<1> QED
  BY <1>1, <1>2, <1>3, <1>4 DEF StoreInv

(* What the store is asked to keep when nothing is added.                  *)
LEMMA StoreStays ==
  ASSUME TypeInv, StoreInv, transcript' = transcript,
         \A x \in Message : Reached(x) => Reached(x)',
         \A q \in Requests : pc'[q] = "calling" =>
           pc[q] = "calling" /\ iter'[q] = iter[q] /\ calls'[q] = calls[q],
         \A q \in Requests : pc'[q] # "idle" => pc[q] # "idle"
  PROVE  StoreInv'
<1>1. \A p \in DOMAIN transcript : transcript[p] \in Message /\ Reached(transcript[p])
  BY DEF TypeInv, TypeOK, StoreInv, StoredSoFar
<1>2. StoredSoFar'
  BY <1>1 DEF StoredSoFar, Reached
<1>3. AnswerStored' /\ AskedStored'
  BY DEF StoreInv, AnswerStored, AskedStored, Answer, UserMessage
<1>4. ResultsFollowCalls'
  BY DEF StoreInv, ResultsFollowCalls
<1> QED
  BY <1>2, <1>3, <1>4 DEF StoreInv

LEMMA StoreStep == TypeInv /\ StoreInv /\ [Next]_vars => StoreInv'
<1> SUFFICES ASSUME TypeInv, StoreInv, [Next]_vars PROVE StoreInv'
  OBVIOUS
<1>0. TypeOK /\ Counters
  BY DEF TypeInv
<1>a. \A x \in Message : x.req \in Requests /\ x.iter \in Nat /\ x.n \in Nat
  BY DEF Message
<1>1. ASSUME CreateSession PROVE StoreInv'
  <2>1. /\ \A p \in DOMAIN transcript' : transcript'[p].kind = "system"
        /\ \A q \in Requests : pc'[q] = "idle"
    BY <1>1, <1>0, MessageTypes DEF CreateSession, Counters
  <2> QED
    BY <2>1 DEF StoreInv, StoredSoFar, Reached, AnswerStored, AskedStored,
                ResultsFollowCalls
<1>2. ASSUME \/ ArchiveSession \/ DeleteSession \/ UNCHANGED vars PROVE StoreInv'
  <2>1. UNCHANGED <<transcript, pc, iter, calls, made>>
    BY <1>2 DEF ArchiveSession, DeleteSession, vars
  <2> QED
    BY <2>1, StoreStays DEF Reached
<1>3. ASSUME NEW q \in Requests, SaveUserMessage(q) PROVE StoreInv'
  <2> DEFINE m == UserMessage(q)
  <2>1. /\ m \in Message /\ m.kind = "user" /\ transcript' = Append(transcript, m)
        /\ pc[q] = "idle" /\ pc' = [pc EXCEPT ![q] = "loading"]
        /\ UNCHANGED <<iter, calls, made>>
    BY <1>3, <1>0, MessageTypes DEF SaveUserMessage
  <2>2. \A r \in Requests : pc'[r] # "idle" => pc[r] # "idle" \/ m = UserMessage(r)
    BY <1>0, <2>1 DEF TypeOK
  <2> HIDE DEF m
  <2>3. \A x \in Message : Reached(x) => Reached(x)'
    BY <1>0, <1>a, <2>1 DEF Reached, TypeOK
  <2>4. Reached(m)'
    BY <2>1 DEF Reached
  <2>5. \A r \in Requests : pc'[r] = "calling" =>
          pc[r] = "calling" /\ iter'[r] = iter[r] /\ calls'[r] = calls[r]
    BY <1>0, <2>1 DEF TypeOK
  <2> QED
    BY <2>1, <2>2, <2>3, <2>4, <2>5, StoreGrows
<1>4. ASSUME NEW q \in Requests,
             \/ LoadHistory(q) \/ FinishBatch(q) \/ ChatFails(q) \/ StoreFails(q)
             \/ Disconnect(q)
      PROVE  StoreInv'
  <2>1. /\ UNCHANGED <<transcript, iter, calls, made>>
        /\ \/ pc' = pc
           \/ /\ pc[q] \notin {"idle", "saving"}
              /\ pc' = [pc EXCEPT ![q] = "consulting"]
           \/ pc[q] # "idle" /\ pc' = [pc EXCEPT ![q] = "ended"]
    BY <1>4 DEF LoadHistory, FinishBatch, ChatFails, StoreFails, Disconnect
  <2>2. \A x \in Message : Reached(x) => Reached(x)'
    BY <1>0, <1>a, <2>1 DEF Reached, TypeOK
  <2> QED
    BY <1>0, <2>1, <2>2, StoreStays DEF TypeOK
<1>5. ASSUME NEW q \in Requests, NEW k \in 0..MaxCalls, Chat(q, k) PROVE StoreInv'
  <2>1. /\ UNCHANGED <<transcript, made>>
        /\ pc[q] = "consulting" /\ pc' = [pc EXCEPT ![q] = "saving"]
        /\ iter' = [iter EXCEPT ![q] = @ + 1] /\ calls' = [calls EXCEPT ![q] = k]
    BY <1>5 DEF Chat
  <2>2. \A x \in Message : Reached(x) => Reached(x)'
    BY <1>0, <1>a, <2>1 DEF Reached, TypeOK
  <2> QED
    BY <1>0, <2>1, <2>2, StoreStays DEF TypeOK
<1>6. ASSUME NEW q \in Requests, SaveAnswer(q) PROVE StoreInv'
  <2>1. PICK m \in Message :
          /\ m = Answer(q, iter[q], calls[q])
          /\ m.kind = "assistant" /\ m.req = q /\ m.iter = iter[q]
          /\ transcript' = Append(transcript, m)
    BY <1>6, <1>0, MessageTypes DEF SaveAnswer, TypeOK
  <2>2. /\ pc[q] = "saving" /\ made' = [made EXCEPT ![q] = 0]
        /\ \/ pc' = [pc EXCEPT ![q] = "calling"]
           \/ pc' = [pc EXCEPT ![q] = "ended"]
        /\ UNCHANGED <<iter, calls>>
    BY <1>6 DEF SaveAnswer
  <2>3. \A r \in Requests : pc'[r] = "calling" =>
          \/ m = Answer(r, iter'[r], calls'[r])
          \/ pc[r] = "calling" /\ iter'[r] = iter[r] /\ calls'[r] = calls[r]
    BY <1>0, <2>1, <2>2 DEF TypeOK, Answer
  <2>4. \A x \in Message : Reached(x) => Reached(x)'
    BY <1>0, <1>a, <2>2 DEF Reached, TypeOK
  <2>5. Reached(m)'
    BY <1>0, <2>1, <2>2 DEF Reached, TypeOK
  <2>6. \A r \in Requests : pc'[r] # "idle" => pc[r] # "idle"
    BY <1>0, <2>2 DEF TypeOK
  <2> QED
    BY <2>1, <2>3, <2>4, <2>5, <2>6, StoreGrows
<1>7. ASSUME NEW q \in Requests, CallTool(q) PROVE StoreInv'
  <2>1. /\ pc[q] = "calling" /\ made[q] < calls[q] /\ made' = [made EXCEPT ![q] = @ + 1]
        /\ UNCHANGED <<pc, iter, calls>>
        /\ made[q] \in Nat /\ calls[q] \in Nat /\ iter[q] \in Nat
    BY <1>7, <1>0 DEF CallTool, TypeOK
  <2>2. \A x \in Message : Reached(x) => Reached(x)'
    BY <1>0, <1>a, <2>1 DEF Reached, TypeOK
  <2>3. CASE transcript' = transcript
    BY <2>1, <2>2, <2>3, StoreStays
  <2>4. CASE transcript' = Append(transcript, ToolResult(q, iter[q], made[q] + 1))
    <3> DEFINE a == Answer(q, iter[q], calls[q])
    <3>1. PICK m \in Message :
            /\ m = ToolResult(q, iter[q], made[q] + 1)
            /\ m.kind = "tool" /\ m.req = q /\ m.iter = iter[q] /\ m.n = made[q] + 1
      BY <2>1, MessageTypes
    <3>2. /\ a \in Message /\ a.kind = "assistant" /\ a.req = q /\ a.iter = iter[q]
          /\ a.n = calls[q] /\ Has(transcript, a)
      BY <2>1, MessageTypes DEF StoreInv, AnswerStored
    <3> HIDE DEF a
    <3>3. Reached(m)'
      BY <1>0, <2>1, <3>1 DEF Reached, TypeOK
    <3>4. ~Reached(m)
      BY <1>0, <2>1, <3>1 DEF Reached, TypeOK
    <3>5. ~Has(transcript, m)
      BY <3>4 DEF StoreInv, StoredSoFar, Has
    <3>6. m.n <= a.n
      BY <2>1, <3>1, <3>2
    <3> QED
      BY <2>1, <2>2, <2>4, <3>1, <3>2, <3>3, <3>5, <3>6, StoreGrows
  <2> QED
    BY <1>7, <2>3, <2>4 DEF CallTool
<1>8. ASSUME Crash PROVE StoreInv'
  <2>1. /\ UNCHANGED <<transcript, iter, calls, made>>
        /\ \A q \in Requests : \/ pc[q] # "idle" /\ pc'[q] = "ended"
                               \/ pc[q] \in {"idle", "ended"} /\ pc'[q] = pc[q]
    BY <1>8 DEF Crash, Working
  <2>2. \A x \in Message : Reached(x) => Reached(x)'
    BY <1>0, <1>a, <2>1 DEF Reached
  <2> QED
    BY <2>1, <2>2, StoreStays
<1> QED
  BY <1>1, <1>2, <1>3, <1>4, <1>5, <1>6, <1>7, <1>8 DEF Next, RequestStep

(* In the stored transcript a tool result comes after the answer that made *)
(* the call, and no call has two results, however requests overlap, break  *)
(* off or crash.                                                           *)
THEOREM ResultsFollow == Spec => []ResultsFollowCalls
<1>1. StoreInv => ResultsFollowCalls
  BY DEF StoreInv
<1> QED
  BY <1>1, InitTypes, TypeStep, InitStore, StoreStep, PTL DEF Spec

-----------------------------------------------------------------------------
(* The message to be answered is shown.                                    *)
LEMMA ConcatKeeps ==
  ASSUME NEW s \in Seq(Message), NEW t \in Seq(Message)
  PROVE  /\ s \o t \in Seq(Message)
         /\ DOMAIN (s \o t) = 1..(Len(s) + Len(t)) /\ Len(s \o t) = Len(s) + Len(t)
         /\ DOMAIN s = 1..Len(s) /\ DOMAIN t = 1..Len(t)
         /\ Len(s) \in Nat /\ Len(t) \in Nat
         /\ \A p \in 1..Len(s) : (s \o t)[p] = s[p]
         /\ \A p \in 1..Len(t) : (s \o t)[Len(s) + p] = t[p]
OBVIOUS

LEMMA ConversationHas ==
  ASSUME NEW s \in Seq(Message), SystemFirst(s), NEW m \in Message,
         m.kind # "system", Has(s, m)
  PROVE  Has(Conversation(s), m)
<1>1. CASE s # <<>> /\ s[1].kind = "system"
  <2>1. PICK p \in DOMAIN s : s[p] = m
    BY DEF Has
  <2>2. p # 1 /\ p \in 1..Len(s)
    BY <1>1, <2>1
  <2> DEFINE t == Tail(s)
  <2>3. /\ t \in Seq(Message) /\ Len(t) = Len(s) - 1
        /\ \A i \in 1..Len(t) : t[i] = s[i + 1]
    BY <1>1, HeadTailProperties
  <2>4. Conversation(s) = t
    BY <1>1, ConversationDropsFirst
  <2> HIDE DEF t
  <2>5. p - 1 \in DOMAIN t /\ t[p - 1] = m
    BY <2>1, <2>2, <2>3
  <2> QED
    BY <2>4, <2>5 DEF Has
<1>2. CASE ~(s # <<>> /\ s[1].kind = "system")
  BY <1>2, ConversationDropsFirst
<1> QED
  BY <1>1, <1>2

(* Messages are never taken away.                                          *)
LEMMA TranscriptSteps ==
  ASSUME TypeInv, [Next]_vars
  PROVE  \/ CreateSession
         \/ transcript' = transcript
         \/ \E m \in Message : transcript' = Append(transcript, m)
<1>1. ASSUME NEW q \in Requests, RequestStep(q)
      PROVE  \/ transcript' = transcript
             \/ \E m \in Message : transcript' = Append(transcript, m)
  <2>1. /\ UserMessage(q) \in Message
        /\ Answer(q, iter[q], calls[q]) \in Message
        /\ ToolResult(q, iter[q], made[q] + 1) \in Message
    BY MessageTypes DEF TypeInv, TypeOK
  <2> QED
    BY <1>1, <2>1 DEF RequestStep, SaveUserMessage, LoadHistory, Chat, SaveAnswer,
       CallTool, FinishBatch, ChatFails, StoreFails, Disconnect
<1> QED
  BY <1>1 DEF Next, ArchiveSession, DeleteSession, Crash, vars

LEMMA TranscriptGrows ==
  ASSUME TypeInv, [Next]_vars
  PROVE  /\ Len(transcript) \in Nat /\ Len(transcript') \in Nat
         /\ Len(transcript) <= Len(transcript')
<1>1. transcript \in Seq(Message) /\ transcript' \in Seq(Message)
  BY TypeStep DEF TypeInv, TypeOK
<1>2. CreateSession => transcript = <<>>
  BY DEF CreateSession, TypeInv, Counters
<1> QED
  BY <1>1, <1>2, TranscriptSteps

LEMMA OwnStep ==
  TypeInv /\ StoreInv /\ OwnMessageKept /\ [Next]_vars => OwnMessageKept'
<1> SUFFICES ASSUME TypeInv, StoreInv, OwnMessageKept, [Next]_vars,
                    Len(transcript') <= HistoryLimit,
                    NEW r \in Requests, pc'[r] \in Running
             PROVE  Has(prompt'[r], UserMessage(r))
  BY DEF OwnMessageKept, UserMessage
<1>0. TypeOK /\ Counters /\ SystemFirst(transcript)
  BY DEF TypeInv
<1>1. Len(transcript) <= HistoryLimit
  BY TranscriptGrows
<1>2. pc[r] \in Running => Has(prompt[r], UserMessage(r))
  BY <1>1 DEF OwnMessageKept
<1>3. ASSUME NEW q \in Requests, LoadHistory(q) PROVE Has(prompt'[r], UserMessage(r))
  <2>1. Has(transcript, UserMessage(q))
    BY <1>3 DEF LoadHistory, StoreInv, AskedStored
  <2>2. Has(History, UserMessage(q))
    <3>1. UserMessage(q) \in Message /\ UserMessage(q).kind # "system"
      BY DEF UserMessage, Message
    <3> QED
      BY <1>0, <1>1, <2>1, <3>1, HistoryType, ConversationHas DEF TypeOK
  <2>3. CASE r = q
    BY <1>0, <1>3, <2>2, <2>3 DEF LoadHistory, TypeOK
  <2>4. CASE r # q
    BY <1>0, <1>2, <1>3, <2>4 DEF LoadHistory, TypeOK
  <2> QED
    BY <2>3, <2>4
<1>4. ASSUME NEW q \in Requests, FinishBatch(q) PROVE Has(prompt'[r], UserMessage(r))
  <2>1. Has(prompt[r], UserMessage(r))
    BY <1>0, <1>2, <1>4 DEF FinishBatch, TypeOK, Running
  <2>2. CASE r = q
    <3> DEFINE s == Append(prompt[q], Answer(q, iter[q], calls[q]))
               t == ResultsOf(q)
    <3>1. s \in Seq(Message) /\ t \in Seq(Message) /\ Has(s, UserMessage(q))
      BY <1>0, <2>1, <2>2, TypesOfRequest, HasGrows
    <3>2. prompt'[q] = s \o t
      BY <1>0, <1>4 DEF FinishBatch, TypeOK
    <3> HIDE DEF s, t
    <3>3. Has(s \o t, UserMessage(q))
      <4>1. PICK p \in 1..Len(s) : s[p] = UserMessage(q)
        BY <3>1 DEF Has
      <4>2. p \in DOMAIN (s \o t) /\ (s \o t)[p] = s[p]
        BY <3>1, <4>1
      <4> QED
        BY <4>1, <4>2 DEF Has
    <3> QED
      BY <2>2, <3>2, <3>3
  <2>3. CASE r # q
    BY <1>0, <1>4, <2>1, <2>3 DEF FinishBatch, TypeOK
  <2> QED
    BY <2>2, <2>3
<1>5. CASE UNCHANGED prompt /\ (pc'[r] \in Running => pc[r] \in Running)
  BY <1>2, <1>5
<1>6. ASSUME NEW q \in Requests,
             \/ SaveUserMessage(q) \/ (\E k \in 0..MaxCalls : Chat(q, k)) \/ SaveAnswer(q)
             \/ CallTool(q) \/ ChatFails(q) \/ StoreFails(q) \/ Disconnect(q)
      PROVE  UNCHANGED prompt /\ (pc'[r] \in Running => pc[r] \in Running)
  BY <1>0, <1>6 DEF SaveUserMessage, Chat, SaveAnswer, CallTool, ChatFails, StoreFails,
                    Disconnect, TypeOK, Running
<1>7. ASSUME CreateSession \/ ArchiveSession \/ DeleteSession \/ Crash \/ UNCHANGED vars
      PROVE  UNCHANGED prompt /\ (pc'[r] \in Running => pc[r] \in Running)
  BY <1>7 DEF CreateSession, ArchiveSession, DeleteSession, Crash, vars, Running, Working
<1> QED
  BY <1>3, <1>4, <1>5, <1>6, <1>7 DEF Next, RequestStep

(* The model is shown the message it is asked to answer, as long as the    *)
(* session has not outgrown the limit of the history query.                *)
THEOREM OwnShown == Spec => [](Len(transcript) <= HistoryLimit => OwnMessageShown)
<1>1. OwnMessageKept => (Len(transcript) <= HistoryLimit => OwnMessageShown)
  BY DEF OwnMessageKept, OwnMessageShown, Running, Has
<1>2. Init => OwnMessageKept
  BY DEF Init, OwnMessageKept, Running
<1> QED
  BY <1>1, <1>2, InitTypes, TypeStep, InitStore, StoreStep, OwnStep, PTL DEF Spec

-----------------------------------------------------------------------------
(* What a step does to a pending prompt.                                   *)
LEMMA ConcatAppend ==
  ASSUME NEW s \in Seq(Message), NEW t \in Seq(Message), NEW u \in Seq(Message),
         Len(u) = Len(t) + 1, \A j \in 1..Len(t) : u[j] = t[j]
  PROVE  s \o u = Append(s \o t, u[Len(t) + 1])
<1> DEFINE x == s \o u
           y == Append(s \o t, u[Len(t) + 1])
<1>0. Len(s) \in Nat /\ Len(t) \in Nat
  OBVIOUS
<1>1. /\ x \in Seq(Message) /\ Len(x) = Len(s) + Len(t) + 1
      /\ \A p \in 1..Len(s) : x[p] = s[p]
      /\ \A p \in 1..(Len(t) + 1) : x[Len(s) + p] = u[p]
  <2>1. /\ x \in Seq(Message) /\ Len(x) = Len(s) + Len(u)
        /\ \A p \in 1..Len(s) : x[p] = s[p]
        /\ \A p \in 1..Len(u) : x[Len(s) + p] = u[p]
    BY ConcatKeeps
  <2> HIDE DEF x
  <2> QED
    BY <1>0, <2>1
<1>2. /\ s \o t \in Seq(Message) /\ Len(s \o t) = Len(s) + Len(t)
      /\ \A p \in 1..Len(s) : (s \o t)[p] = s[p]
      /\ \A p \in 1..Len(t) : (s \o t)[Len(s) + p] = t[p]
  BY ConcatKeeps
<1>3. u[Len(t) + 1] \in Message
  OBVIOUS
<1>4. /\ y \in Seq(Message) /\ Len(y) = Len(s) + Len(t) + 1
      /\ \A p \in 1..(Len(s) + Len(t)) : y[p] = (s \o t)[p]
      /\ y[Len(s) + Len(t) + 1] = u[Len(t) + 1]
  BY <1>2, <1>3, AppendKeeps
<1>5. ASSUME NEW p \in 1..(Len(s) + Len(t) + 1) PROVE x[p] = y[p]
  <2>1. CASE p \in 1..Len(s)
    BY <1>1, <1>2, <1>4, <2>1
  <2>2. CASE p \in (Len(s) + 1)..(Len(s) + Len(t))
    <3>1. p - Len(s) \in 1..Len(t) /\ p = Len(s) + (p - Len(s))
      BY <2>2
    <3>2. x[p] = u[p - Len(s)]
      BY <1>1, <3>1
    <3>3. y[p] = t[p - Len(s)]
      BY <1>2, <1>4, <2>2, <3>1
    <3> QED
      BY <3>1, <3>2, <3>3
  <2>3. CASE p = Len(s) + Len(t) + 1
    <3>1. x[Len(s) + (Len(t) + 1)] = u[Len(t) + 1]
      BY <1>1
    <3> QED
      BY <1>4, <2>3, <3>1
  <2> QED
    BY <2>1, <2>2, <2>3
<1> HIDE DEF x, y
<1> QED
  BY <1>1, <1>4, <1>5, SeqEqual DEF x, y

LEMMA ConcatNothing ==
  ASSUME NEW s \in Seq(Message), NEW t \in Seq(Message), Len(t) = 0
  PROVE  s \o t = s
OBVIOUS

LEMMA PendingType ==
  ASSUME TypeOK, NEW q \in Requests
  PROVE  Pending(q) \in Seq(Message)
<1>1. Append(prompt[q], Answer(q, iter[q], calls[q])) \o MadeSoFar(q) \in Seq(Message)
  BY TypesOfRequest
<1> QED
  BY <1>1, TypesOfRequest DEF Pending

Goes(r) == /\ pc'[r] = pc[r] /\ prompt'[r] = prompt[r] /\ iter'[r] = iter[r]
           /\ calls'[r] = calls[r] /\ made'[r] = made[r]

LEMMA PendingSteps ==
  ASSUME TypeInv, [Next]_vars, NEW r \in Requests, pc'[r] \in Running
  PROVE  \/ /\ pc[r] \in Running /\ Pending(r)' = Pending(r)
            /\ \/ transcript' = transcript
               \/ \E q \in Requests \ {r} : RequestStep(q)
         \/ \E m \in Message :
              /\ pc[r] \in Running /\ m.kind # "system"
              /\ Pending(r)' = Append(Pending(r), m)
              /\ transcript' = Append(transcript, m)
         \/ LoadHistory(r) /\ Pending(r)' = History
         \/ CallTool(r) /\ transcript' = transcript
<1>0. TypeOK /\ TypeOK' /\ Counters
  BY TypeStep DEF TypeInv
<1> DEFINE Goal == \/ /\ pc[r] \in Running /\ Pending(r)' = Pending(r)
                      /\ \/ transcript' = transcript
                         \/ \E q \in Requests \ {r} : RequestStep(q)
                   \/ \E m \in Message :
                        /\ pc[r] \in Running /\ m.kind # "system"
                        /\ Pending(r)' = Append(Pending(r), m)
                        /\ transcript' = Append(transcript, m)
                   \/ LoadHistory(r) /\ Pending(r)' = History
                   \/ CallTool(r) /\ transcript' = transcript
<1>1. Goes(r) => pc[r] \in Running /\ Pending(r)' = Pending(r)
  BY DEF Goes, Pending, MadeSoFar, Answer, ToolResult, Running
<1>2. ASSUME NEW q \in Requests \ {r}, RequestStep(q) PROVE Goal
  <2>1. Goes(r)
    BY <1>0, <1>2 DEF RequestStep, SaveUserMessage, LoadHistory, Chat, SaveAnswer, CallTool,
       FinishBatch, ChatFails, StoreFails, Disconnect, TypeOK, Goes
  <2> QED
    BY <1>1, <1>2, <2>1
<1>3. ASSUME CreateSession \/ ArchiveSession \/ DeleteSession \/ Crash \/ UNCHANGED vars
      PROVE  Goal
  <2>1. Goes(r) /\ transcript' = transcript
    BY <1>0, <1>3 DEF CreateSession, ArchiveSession, DeleteSession, Crash, vars, Running,
                      Working, Goes, TypeOK, Counters
  <2> QED
    BY <1>1, <2>1
<1>4. ASSUME LoadHistory(r) PROVE Goal
  BY <1>0, <1>4 DEF LoadHistory, TypeOK, Pending
<1>5. ASSUME NEW k \in 0..MaxCalls, Chat(r, k) PROVE Goal
  BY <1>0, <1>5 DEF Chat, TypeOK, Pending, Running
<1>6. ASSUME SaveAnswer(r) PROVE Goal
  <2> DEFINE m == Answer(r, iter[r], calls[r])
  <2>1. /\ pc[r] = "saving" /\ pc'[r] = "calling" /\ made'[r] = 0
        /\ prompt'[r] = prompt[r] /\ iter'[r] = iter[r] /\ calls'[r] = calls[r]
        /\ transcript' = Append(transcript, m)
    BY <1>0, <1>6 DEF SaveAnswer, TypeOK, Running
  <2>2. /\ Pending(r) = prompt[r]
        /\ Pending(r)' = Append(prompt[r], m) \o MadeSoFar(r)'
    BY <2>1 DEF Pending, Answer
  <2>3. m \in Message /\ m.kind # "system"
    BY <1>0, TypesOfRequest DEF Answer
  <2>4. MadeSoFar(r)' \in Seq(Message) /\ Len(MadeSoFar(r)') = 0
    <3>1. MadeSoFar(r)' = [j \in 1..0 |-> ToolResult(r, iter[r], j)]
      BY <2>1 DEF MadeSoFar, ToolResult
    <3> QED
      BY <1>0, <3>1, BatchTypes DEF TypeOK
  <2>5. Append(prompt[r], m) \in Seq(Message)
    BY <1>0, <2>3 DEF TypeOK
  <2>6. Pending(r)' = Append(prompt[r], m)
    BY <2>2, <2>4, <2>5, ConcatNothing
  <2> QED
    BY <2>1, <2>2, <2>3, <2>6 DEF Running
<1>7. ASSUME CallTool(r) PROVE Goal
  <2>1. CASE transcript' = transcript
    BY <1>7, <2>1
  <2>2. CASE transcript' = Append(transcript, ToolResult(r, iter[r], made[r] + 1))
    <3> DEFINE m == ToolResult(r, iter[r], made[r] + 1)
               s == Append(prompt[r], Answer(r, iter[r], calls[r]))
               t == MadeSoFar(r)
               u == [j \in 1..(made[r] + 1) |-> ToolResult(r, iter[r], j)]
    <3>1. /\ pc[r] = "calling" /\ pc'[r] = "calling" /\ made'[r] = made[r] + 1
          /\ prompt'[r] = prompt[r] /\ iter'[r] = iter[r] /\ calls'[r] = calls[r]
      BY <1>0, <1>7 DEF CallTool, TypeOK
    <3>2. m \in Message /\ m.kind # "system" /\ s \in Seq(Message)
      <4>1. iter[r] \in Nat /\ made[r] + 1 \in Nat
        BY <1>0 DEF TypeOK
      <4>2. m \in Message /\ m.kind # "system"
        BY <4>1, MessageTypes
      <4> QED
        BY <1>0, <4>2, TypesOfRequest
    <3>3. MadeSoFar(r)' = u
      BY <3>1 DEF MadeSoFar, ToolResult
    <3>4. Pending(r) = s \o t /\ Pending(r)' = s \o u
      BY <3>1, <3>3 DEF Pending, Answer
    <3>5. /\ t \in Seq(Message) /\ Len(t) = made[r]
          /\ \A j \in 1..made[r] : t[j] = ToolResult(r, iter[r], j)
      BY <1>0, TypesOfRequest
    <3>6. /\ u \in Seq(Message) /\ Len(u) = made[r] + 1
          /\ \A j \in 1..(made[r] + 1) : u[j] = ToolResult(r, iter[r], j)
      <4>1. iter[r] \in Nat /\ made[r] + 1 \in Nat
        BY <1>0 DEF TypeOK
      <4> QED
        BY <4>1, BatchTypes
    <3>7. made[r] \in Nat
      BY <1>0 DEF TypeOK
    <3> HIDE DEF s, t, u
    <3>8. s \o u = Append(s \o t, u[Len(t) + 1])
      <4>1. Len(u) = Len(t) + 1 /\ \A j \in 1..Len(t) : u[j] = t[j]
        BY <3>5, <3>6, <3>7
      <4> QED
        BY <3>2, <3>5, <3>6, <4>1, ConcatAppend
    <3>9. u[Len(t) + 1] = m
      BY <3>5, <3>6, <3>7
    <3> QED
      BY <2>2, <3>1, <3>2, <3>4, <3>8, <3>9 DEF Running
  <2> QED
    BY <1>7, <2>1, <2>2 DEF CallTool
<1>8. ASSUME FinishBatch(r) PROVE Goal
  <2>1. /\ pc[r] = "calling" /\ pc'[r] # "calling" /\ made[r] = calls[r]
        /\ prompt'[r] = Append(prompt[r], Answer(r, iter[r], calls[r])) \o ResultsOf(r)
        /\ transcript' = transcript
    BY <1>0, <1>8 DEF FinishBatch, TypeOK
  <2> QED
    BY <2>1 DEF Pending, ResultsOf, MadeSoFar, Running
<1>9. ASSUME Disconnect(r) PROVE Goal
  BY <1>1, <1>9 DEF Disconnect, Goes
<1>10. ASSUME SaveUserMessage(r) \/ ChatFails(r) \/ StoreFails(r) PROVE FALSE
  BY <1>0, <1>10 DEF SaveUserMessage, ChatFails, StoreFails, TypeOK, Running
<1>11. ASSUME RequestStep(r) PROVE Goal
  BY <1>4, <1>5, <1>6, <1>7, <1>8, <1>9, <1>10, <1>11 DEF RequestStep
<1> QED
  BY <1>2, <1>3, <1>11 DEF Next

-----------------------------------------------------------------------------
(* Whatever the model is shown is stored.                                  *)
LEMMA StoredGrows ==
  ASSUME NEW s \in Seq(Message), NEW t \in Seq(Message), NEW m \in Message,
         Stored(s, t)
  PROVE  Stored(s, Append(t, m)) /\ Stored(Append(s, m), Append(t, m))
<1> DEFINE x == Append(s, m)
           y == Append(t, m)
<1>1. /\ DOMAIN x = DOMAIN s \union {Len(s) + 1}
      /\ Len(s) \in Nat /\ DOMAIN s = 1..Len(s) /\ x[Len(s) + 1] = m
      /\ \A p \in DOMAIN s : x[p] = s[p]
      /\ DOMAIN y = DOMAIN t \union {Len(t) + 1}
      /\ Len(t) \in Nat /\ DOMAIN t = 1..Len(t) /\ y[Len(t) + 1] = m
      /\ \A p \in DOMAIN t : y[p] = t[p] /\ p < Len(t) + 1
  BY AppendKeeps
<1> HIDE DEF x, y
<1>2. Stored(s, y)
  BY <1>1 DEF Stored
<1>3. Stored(x, y)
  <2>1. ASSUME NEW a \in DOMAIN x PROVE \E c \in DOMAIN y : y[c] = x[a]
    BY <1>1, <1>2 DEF Stored
  <2>2. ASSUME NEW a \in DOMAIN x, NEW b \in DOMAIN x, a < b
        PROVE  \E c, d \in DOMAIN y : c < d /\ y[c] = x[a] /\ y[d] = x[b]
    <3>1. CASE b \in DOMAIN s
      BY <1>1, <1>2, <2>2, <3>1 DEF Stored
    <3>2. CASE b = Len(s) + 1
      <4>1. PICK c \in DOMAIN t : t[c] = s[a]
        BY <1>1, <2>2, <3>2 DEF Stored
      <4> QED
        BY <1>1, <2>2, <3>2, <4>1
    <3> QED
      BY <1>1, <3>1, <3>2
  <2> QED
    BY <2>1, <2>2 DEF Stored
<1> QED
  BY <1>2, <1>3 DEF x, y

LEMMA HistoryStored ==
  ASSUME TypeOK, SystemFirst(transcript)
  PROVE  Stored(History, transcript)
<1> DEFINE last == IF Len(transcript) < HistoryLimit THEN Len(transcript)
                                                     ELSE HistoryLimit
           s == SubSeq(transcript, 1, last)
           t == Tail(s)
<1>1. transcript \in Seq(Message) /\ last \in 0..Len(transcript)
  BY DEF TypeOK
<1>2. History = Conversation(s)
  BY DEF History
<1> HIDE DEF last
<1>3. /\ s \in Seq(Message)
      /\ \A i \in DOMAIN s : i \in DOMAIN transcript /\ s[i] = transcript[i]
  BY <1>1
<1> HIDE DEF s
<1>4. SystemFirst(s) /\ DOMAIN s = 1..Len(s) /\ Len(s) \in Nat
  BY <1>3 DEF SystemFirst
<1>5. Stored(s, transcript)
  BY <1>3 DEF Stored
<1>6. CASE s # <<>> /\ s[1].kind = "system"
  <2>1. /\ t \in Seq(Message) /\ Len(t) = Len(s) - 1
        /\ \A i \in 1..Len(t) : t[i] = s[i + 1]
    BY <1>3, <1>6, HeadTailProperties
  <2>2. History = t
    BY <1>2, <1>3, <1>4, <1>6, ConversationDropsFirst
  <2> HIDE DEF t
  <2>3. \A i \in DOMAIN t : i + 1 \in DOMAIN transcript /\ t[i] = transcript[i + 1] /\ i \in Nat
    BY <1>3, <1>4, <2>1
  <2>4. Stored(t, transcript)
    BY <2>3 DEF Stored
  <2> QED
    BY <2>2, <2>4
<1>7. CASE ~(s # <<>> /\ s[1].kind = "system")
  <2>1. History = s
    BY <1>2, <1>3, <1>4, <1>7, ConversationDropsFirst
  <2> QED
    BY <1>5, <2>1
<1> QED
  BY <1>6, <1>7

LEMMA PendingStep ==
  ASSUME "unsaved" \notin Faults
  PROVE  TypeInv /\ PendingStored /\ [Next]_vars => PendingStored'
<1> SUFFICES ASSUME TypeInv, PendingStored, [Next]_vars,
                    NEW r \in Requests, pc'[r] \in Running, ~gone'[r]
             PROVE  Stored(Pending(r)', transcript')
  BY DEF PendingStored
<1>0. TypeOK /\ Counters /\ SystemFirst(transcript)
  BY DEF TypeInv
<1>1. transcript \in Seq(Message) /\ Pending(r) \in Seq(Message)
  BY <1>0, PendingType DEF TypeOK
<1>2. ~gone[r]
  <2>1. gone' = gone \/ \E q \in Requests : gone' = [gone EXCEPT ![q] = TRUE]
    BY DEF Next, RequestStep, CreateSession, ArchiveSession, DeleteSession, Crash, vars,
       SaveUserMessage, LoadHistory, Chat, SaveAnswer, CallTool, FinishBatch, ChatFails,
       StoreFails, Disconnect
  <2> QED
    BY <1>0, <2>1 DEF TypeOK
<1>3. pc[r] \in Running => Stored(Pending(r), transcript)
  BY <1>2 DEF PendingStored
<1>4. CASE pc[r] \in Running /\ Pending(r)' = Pending(r)
  <2>1. ~CreateSession
    BY <1>0, <1>4 DEF CreateSession, Counters, Running
  <2> QED
    BY <1>1, <1>3, <1>4, <2>1, TranscriptSteps, StoredGrows
<1>5. ASSUME NEW m \in Message, pc[r] \in Running, Pending(r)' = Append(Pending(r), m),
             transcript' = Append(transcript, m)
      PROVE  Stored(Pending(r)', transcript')
  BY <1>1, <1>3, <1>5, StoredGrows
<1>6. CASE LoadHistory(r) /\ Pending(r)' = History
  BY <1>0, <1>6, HistoryStored DEF LoadHistory
<1>7. ASSUME CallTool(r), transcript' = transcript PROVE FALSE
  <2>1. transcript' = Append(transcript, ToolResult(r, iter[r], made[r] + 1))
    BY <1>2, <1>7 DEF CallTool
  <2>2. ToolResult(r, iter[r], made[r] + 1) \in Message
    BY <1>0, MessageTypes DEF TypeOK
  <2> QED
    BY <1>1, <1>7, <2>1, <2>2, AppendKeeps
<1> QED
  BY <1>4, <1>5, <1>6, <1>7, PendingSteps

(* As long as every tool message of a client that is there can be stored,  *)
(* a session can be resumed: whatever the model is shown is stored, in the *)
(* same order, and every result follows its call, however requests         *)
(* overlap, break off or crash, and whatever the limit of the history.     *)
THEOREM SessionResumable ==
  ASSUME "unsaved" \notin Faults
  PROVE  Spec => []Resumable
<1>1. PendingStored /\ StoreInv => Resumable
  <2> SUFFICES ASSUME PendingStored, StoreInv PROVE PromptsAreStored
    BY DEF Resumable, StoreInv
  <2>1. \A q \in Requests : pc[q] = "consulting" /\ ~gone[q] => Stored(prompt[q], transcript)
    BY DEF PendingStored, Pending, Running
  <2> QED
    BY <2>1 DEF PromptsAreStored, Stored
<1>2. Init => PendingStored
  BY DEF Init, PendingStored, Running
<1> QED
  BY <1>1, <1>2, InitTypes, TypeStep, InitStore, StoreStep, PendingStep, PTL DEF Spec

-----------------------------------------------------------------------------
(* Well-formed conversations.                                              *)
LEMMA CallsAnswered ==
  ASSUME NEW s, WellFormed(s), NEW p \in DOMAIN s, s[p].kind = "assistant",
         NEW j \in 1..s[p].n
  PROVE  p + j \in DOMAIN s /\ s[p + j] = ToolResult(s[p].req, s[p].iter, j)
BY DEF WellFormed

LEMMA ResultsCalled ==
  ASSUME NEW s, WellFormed(s), NEW p \in DOMAIN s, s[p].kind = "tool"
  PROVE  /\ s[p].n < p
         /\ s[p - s[p].n].kind = "assistant"
         /\ s[p - s[p].n].req = s[p].req /\ s[p - s[p].n].iter = s[p].iter
         /\ s[p].n <= s[p - s[p].n].n
BY DEF WellFormed

LEMMA WellFormedAppend ==
  ASSUME NEW s \in Seq(Message), WellFormed(s), NEW m \in Message,
         m.kind \in {"user", "system"}
  PROVE  WellFormed(Append(s, m))
<1> DEFINE w == Append(s, m)
<1>1. /\ DOMAIN w = DOMAIN s \union {Len(s) + 1}
      /\ Len(s) \in Nat /\ DOMAIN s = 1..Len(s) /\ w[Len(s) + 1] = m
      /\ \A p \in DOMAIN s : w[p] = s[p] /\ s[p] \in Message
  BY AppendKeeps
<1>2. \A x \in Message : x.n \in Nat
  BY DEF Message
<1> HIDE DEF w
<1>3. ASSUME NEW p \in DOMAIN w, w[p].kind = "assistant", NEW j \in 1..w[p].n
      PROVE  p + j \in DOMAIN w /\ w[p + j] = ToolResult(w[p].req, w[p].iter, j)
  <2>1. p \in DOMAIN s /\ w[p] = s[p]
    BY <1>1, <1>3
  <2> QED
    BY <1>1, <1>3, <2>1, CallsAnswered
<1>4. ASSUME NEW p \in DOMAIN w, w[p].kind = "tool"
      PROVE  /\ w[p].n < p
             /\ w[p - w[p].n].kind = "assistant"
             /\ w[p - w[p].n].req = w[p].req /\ w[p - w[p].n].iter = w[p].iter
             /\ w[p].n <= w[p - w[p].n].n
  <2>1. p \in DOMAIN s /\ w[p] = s[p]
    BY <1>1, <1>4
  <2>2. /\ s[p].n < p
        /\ s[p - s[p].n].kind = "assistant"
        /\ s[p - s[p].n].req = s[p].req /\ s[p - s[p].n].iter = s[p].iter
        /\ s[p].n <= s[p - s[p].n].n
    BY <1>4, <2>1, ResultsCalled
  <2>3. p - s[p].n \in DOMAIN s
    BY <1>1, <1>2, <2>1, <2>2
  <2> QED
    BY <1>1, <2>1, <2>2, <2>3
<1> QED
  BY <1>3, <1>4 DEF WellFormed, w

LEMMA WellFormedTail ==
  ASSUME NEW s \in Seq(Message), WellFormed(s), s # <<>>, s[1].kind = "system"
  PROVE  WellFormed(Tail(s))
<1> DEFINE w == Tail(s)
<1>1. /\ w \in Seq(Message) /\ Len(w) = Len(s) - 1
      /\ \A i \in 1..Len(w) : w[i] = s[i + 1]
  BY HeadTailProperties
<1>2. \A x \in Message : x.n \in Nat
  BY DEF Message
<1> HIDE DEF w
<1>3. /\ DOMAIN w = 1..(Len(s) - 1) /\ Len(s) \in Nat /\ DOMAIN s = 1..Len(s)
      /\ \A p \in DOMAIN w : w[p] = s[p + 1] /\ p + 1 \in DOMAIN s /\ w[p] \in Message
  BY <1>1
<1>4. ASSUME NEW p \in DOMAIN w, w[p].kind = "assistant", NEW j \in 1..w[p].n
      PROVE  /\ p + j \in DOMAIN w
             /\ w[p + j] = ToolResult(w[p].req, w[p].iter, j)
  <2>1. w[p].n \in Nat
    BY <1>2, <1>3
  <2>2. (p + 1) + j \in DOMAIN s /\ s[(p + 1) + j] = ToolResult(w[p].req, w[p].iter, j)
    <3>1. p + 1 \in DOMAIN s /\ s[p + 1] = w[p]
      BY <1>3
    <3> QED
      BY <1>4, <3>1, CallsAnswered
  <2>3. p + j \in DOMAIN w /\ (p + 1) + j = (p + j) + 1
    BY <1>3, <2>1, <2>2
  <2> QED
    BY <1>3, <2>2, <2>3
<1>5. ASSUME NEW p \in DOMAIN w, w[p].kind = "tool"
      PROVE  /\ w[p].n < p
             /\ w[p - w[p].n].kind = "assistant"
             /\ w[p - w[p].n].req = w[p].req /\ w[p - w[p].n].iter = w[p].iter
             /\ w[p].n <= w[p - w[p].n].n
  <2> DEFINE n == w[p].n
  <2>1. n \in Nat /\ p \in Nat
    BY <1>2, <1>3
  <2>2. /\ n < p + 1
        /\ s[(p + 1) - n].kind = "assistant"
        /\ s[(p + 1) - n].req = w[p].req /\ s[(p + 1) - n].iter = w[p].iter
        /\ n <= s[(p + 1) - n].n
    <3>1. p + 1 \in DOMAIN s /\ s[p + 1] = w[p]
      BY <1>3
    <3> QED
      BY <1>5, <3>1, ResultsCalled
  <2> HIDE DEF n
  <2>3. n # p
    <3>1. (p + 1) - n # 1
      BY <2>2
    <3> QED
      BY <2>1, <3>1
  <2>4. n < p /\ p - n \in DOMAIN w /\ (p - n) + 1 = (p + 1) - n
    BY <1>3, <2>1, <2>2, <2>3
  <2>5. w[p - n] = s[(p + 1) - n]
    BY <1>3, <2>4
  <2> QED
    BY <2>2, <2>4, <2>5 DEF n
<1> QED
  BY <1>4, <1>5 DEF WellFormed, w

LEMMA WellFormedConversation ==
  ASSUME NEW s \in Seq(Message), SystemFirst(s), WellFormed(s)
  PROVE  WellFormed(Conversation(s))
BY ConversationDropsFirst, WellFormedTail

LEMMA WellFormedBatch ==
  ASSUME NEW s \in Seq(Message), WellFormed(s), NEW t \in Seq(Message),
         NEW q \in Requests, NEW i \in Nat, NEW k \in Nat, Len(t) = k,
         \A j \in 1..k : t[j] = ToolResult(q, i, j)
  PROVE  WellFormed(Append(s, Answer(q, i, k)) \o t)
<1> DEFINE a == Answer(q, i, k)
           w == Append(s, a) \o t
           N == Len(s)
<1>1. a \in Message /\ a.kind = "assistant" /\ a.req = q /\ a.iter = i /\ a.n = k
  BY MessageTypes
<1>2. \A j \in 1..k : /\ t[j].kind = "tool" /\ t[j].req = q /\ t[j].iter = i
                       /\ t[j].n = j
  BY MessageTypes
<1>3. \A x \in Message : x.n \in Nat
  BY DEF Message
<1>4. DOMAIN s = 1..N /\ N \in Nat /\ \A p \in 1..N : s[p] \in Message
  OBVIOUS
<1> HIDE DEF a, N
<1>5. /\ Append(s, a) \in Seq(Message) /\ Len(Append(s, a)) = N + 1
      /\ Append(s, a)[N + 1] = a
      /\ \A p \in 1..N : Append(s, a)[p] = s[p]
  BY <1>1, AppendKeeps DEF N
<1>6. /\ DOMAIN w = 1..(N + 1 + k)
      /\ \A p \in 1..N : w[p] = s[p]
      /\ w[N + 1] = a
      /\ \A j \in 1..k : w[N + 1 + j] = t[j]
  <2> DEFINE u == Append(s, a)
  <2>1. u \in Seq(Message) /\ Len(u) = N + 1 /\ u[N + 1] = a /\ \A p \in 1..N : u[p] = s[p]
    BY <1>5
  <2> HIDE DEF u
  <2>2. /\ DOMAIN (u \o t) = 1..(Len(u) + Len(t))
        /\ \A p \in 1..Len(u) : (u \o t)[p] = u[p]
        /\ \A p \in 1..Len(t) : (u \o t)[Len(u) + p] = t[p]
    BY <2>1, ConcatKeeps
  <2>3. w = u \o t
    BY DEF u
  <2> HIDE DEF w
  <2> QED
    BY <1>4, <2>1, <2>2, <2>3
<1> HIDE DEF w
<1>0. \A p \in DOMAIN w :
        p \in 1..N \/ p = N + 1 \/ \E l \in 1..k : p = N + 1 + l
  <2>1. N \in Nat /\ DOMAIN w = 1..(N + 1 + k)
    BY <1>4, <1>6
  <2>2. SUFFICES ASSUME NEW p \in 1..(N + 1 + k), p \notin 1..N, p # N + 1
                 PROVE  \E l \in 1..k : p = N + 1 + l
    BY <2>1
  <2>3. p - N - 1 \in 1..k /\ p = N + 1 + (p - N - 1)
    BY <2>1, <2>2
  <2> QED
    BY <2>3
<1>7. ASSUME NEW p \in DOMAIN w, w[p].kind = "assistant", NEW j \in 1..w[p].n
      PROVE  /\ p + j \in DOMAIN w
             /\ w[p + j] = ToolResult(w[p].req, w[p].iter, j)
  <2>1. CASE p \in 1..N
    <3>1. p + j \in 1..N /\ s[p + j] = ToolResult(w[p].req, w[p].iter, j)
      <4>1. p \in DOMAIN s /\ w[p] = s[p]
        BY <1>4, <1>6, <2>1
      <4> QED
        BY <1>4, <1>7, <4>1, CallsAnswered
    <3> QED
      BY <1>4, <1>6, <3>1
  <2>2. CASE p = N + 1
    <3>1. w[p] = a /\ j \in 1..k
      BY <1>1, <1>6, <1>7, <2>2
    <3>2. w[N + 1 + j] = ToolResult(q, i, j) /\ p + j \in DOMAIN w
      BY <1>4, <1>6, <2>2, <3>1
    <3> QED
      BY <1>1, <2>2, <3>1, <3>2
  <2>3. ASSUME NEW l \in 1..k, p = N + 1 + l PROVE FALSE
    BY <1>2, <1>6, <1>7, <2>3
  <2> QED
    BY <1>0, <2>1, <2>2, <2>3
<1>8. ASSUME NEW p \in DOMAIN w, w[p].kind = "tool"
      PROVE  /\ w[p].n < p
             /\ w[p - w[p].n].kind = "assistant"
             /\ w[p - w[p].n].req = w[p].req /\ w[p - w[p].n].iter = w[p].iter
             /\ w[p].n <= w[p - w[p].n].n
  <2>1. CASE p \in 1..N
    <3>1. /\ s[p].n < p /\ s[p - s[p].n].kind = "assistant"
          /\ s[p - s[p].n].req = s[p].req /\ s[p - s[p].n].iter = s[p].iter
          /\ s[p].n <= s[p - s[p].n].n
      BY <1>4, <1>6, <1>8, <2>1 DEF WellFormed
    <3>2. s[p].n \in Nat
      BY <1>3, <1>4, <2>1
    <3>3. p - s[p].n \in 1..N
      BY <1>4, <2>1, <3>1, <3>2
    <3> QED
      BY <1>6, <2>1, <3>1, <3>3
  <2>2. CASE p = N + 1
    BY <1>1, <1>6, <1>8, <2>2
  <2>3. ASSUME NEW l \in 1..k, p = N + 1 + l
        PROVE  /\ w[p].n < p
               /\ w[p - w[p].n].kind = "assistant"
               /\ w[p - w[p].n].req = w[p].req /\ w[p - w[p].n].iter = w[p].iter
               /\ w[p].n <= w[p - w[p].n].n
    <3>1. w[p].n = l /\ w[p].req = q /\ w[p].iter = i
      BY <1>2, <1>6, <2>3
    <3>2. p - l = N + 1 /\ l < p /\ l <= k
      BY <1>4, <2>3
    <3> QED
      BY <1>1, <1>6, <3>1, <3>2
  <2> QED
    BY <1>0, <2>1, <2>2, <2>3
<1>9. WellFormed(w)
  BY <1>7, <1>8 DEF WellFormed
<1> QED
  BY <1>9 DEF w, a

(* What calm requires of a step.                                           *)
LEMMA CalmSteps ==
  ASSUME TypeInv, CalmRuns, [Next]_vars, calm'
  PROVE  /\ calm /\ gone' = gone /\ OneAtATime'
         /\ \A q \in Requests : SaveUserMessage(q) => \A r \in Requests : ~Working(r)
         /\ \A q \in Requests : CallTool(q) =>
              transcript' = Append(transcript, ToolResult(q, iter[q], made[q] + 1))
<1>0. TypeOK /\ Counters
  BY DEF TypeInv
<1>1. calm
  BY DEF Next, RequestStep, CreateSession, ArchiveSession, DeleteSession, Crash, vars,
     SaveUserMessage, LoadHistory, Chat, SaveAnswer, CallTool, FinishBatch, ChatFails,
     StoreFails, Disconnect
<1>2. OneAtATime
  BY <1>1 DEF CalmRuns
<1>3. \A q \in Requests : SaveUserMessage(q) => \A r \in Requests : ~Working(r)
  BY DEF SaveUserMessage
<1>4. \A q \in Requests : CallTool(q) =>
        transcript' = Append(transcript, ToolResult(q, iter[q], made[q] + 1))
  BY DEF CallTool
<1>5. gone' = gone
  BY DEF Next, RequestStep, CreateSession, ArchiveSession, DeleteSession, Crash, vars,
     SaveUserMessage, LoadHistory, Chat, SaveAnswer, CallTool, FinishBatch, ChatFails,
     StoreFails, Disconnect
<1>6. ASSUME NEW q \in Requests, NEW r \in Requests, Working(q)', Working(r)' PROVE q = r
  <2>1. ASSUME NEW u \in Requests, SaveUserMessage(u) PROVE q = r
    BY <1>0, <1>3, <1>6, <2>1 DEF SaveUserMessage, TypeOK, Working
  <2>2. CASE \E u \in Requests : SaveUserMessage(u)
    BY <2>1, <2>2
  <2>3. CASE ~\E u \in Requests : SaveUserMessage(u)
    <3>1. \/ pc' = pc
          \/ \A u \in Requests : pc'[u] \in {pc[u], "ended"}
          \/ \E u \in Requests : pc[u] \notin {"idle", "ended"} /\ \E x : pc' = [pc EXCEPT ![u] = x]
      BY <2>3, <1>0 DEF Next, RequestStep, CreateSession, ArchiveSession, DeleteSession, Crash,
         vars, LoadHistory, Chat, SaveAnswer, CallTool, FinishBatch, ChatFails,
         StoreFails, Disconnect, TypeOK
    <3>2. Working(q) /\ Working(r)
      BY <1>0, <1>6, <3>1 DEF TypeOK, Working
    <3> QED
      BY <1>2, <3>2 DEF OneAtATime
  <2> QED
    BY <2>2, <2>3
<1> QED
  BY <1>1, <1>2, <1>3, <1>4, <1>5, <1>6 DEF OneAtATime, Working

LEMMA ShownStep ==
  ASSUME TypeInv, CalmRuns, [Next]_vars, calm'
  PROVE  ShownIsStored'
<1> SUFFICES ASSUME Len(transcript') <= HistoryLimit, NEW r \in Requests, pc'[r] \in Running
             PROVE  Pending(r)' = Conversation(transcript')
  BY DEF ShownIsStored
<1>0. TypeOK /\ Counters /\ SystemFirst(transcript) /\ transcript \in Seq(Message)
  BY DEF TypeInv, TypeOK
<1>1. Len(transcript) <= HistoryLimit
  BY TranscriptGrows
<1>2. calm /\ OneAtATime /\ ShownIsStored
  BY CalmSteps DEF CalmRuns
<1>3. pc[r] \in Running => Pending(r) = Conversation(transcript)
  BY <1>1, <1>2 DEF ShownIsStored
<1>4. CASE pc[r] \in Running /\ Pending(r)' = Pending(r) /\ transcript' = transcript
  BY <1>3, <1>4
<1>5. ASSUME pc[r] \in Running, NEW q \in Requests \ {r}, RequestStep(q) PROVE transcript' = transcript
  <2>1. Working(r) /\ ~Working(q)
    BY <1>2, <1>5 DEF OneAtATime, Working, Running
  <2>2. ~SaveUserMessage(q)
    BY <2>1, CalmSteps
  <2>3. Disconnect(q) => FALSE
    BY <2>1 DEF Disconnect
  <2> QED
    BY <1>5, <2>1, <2>2, <2>3 DEF RequestStep, Working, LoadHistory, Chat, SaveAnswer,
       CallTool, FinishBatch, ChatFails, StoreFails
<1>6. ASSUME NEW m \in Message, pc[r] \in Running, m.kind # "system",
             Pending(r)' = Append(Pending(r), m), transcript' = Append(transcript, m)
      PROVE  Pending(r)' = Conversation(transcript')
  BY <1>0, <1>3, <1>6, ConversationGrows
<1>7. CASE LoadHistory(r) /\ Pending(r)' = History
  <2>1. transcript' = transcript
    BY <1>7 DEF LoadHistory
  <2> QED
    BY <1>0, <1>1, <1>7, <2>1, HistoryType
<1>8. ASSUME CallTool(r), transcript' = transcript PROVE FALSE
  <2>1. transcript' = Append(transcript, ToolResult(r, iter[r], made[r] + 1))
    BY <1>8, CalmSteps
  <2>2. ToolResult(r, iter[r], made[r] + 1) \in Message
    BY <1>0, MessageTypes DEF TypeOK
  <2> QED
    BY <1>0, <1>8, <2>1, <2>2, AppendKeeps
<1> QED
  BY <1>4, <1>5, <1>6, <1>7, <1>8, PendingSteps

LEMMA BatchesStep ==
  ASSUME TypeInv, CalmRuns, [Next]_vars, calm'
  PROVE  WholeBatches'
<1>0. TypeOK /\ TypeOK' /\ Counters /\ transcript \in Seq(Message)
  BY TypeStep DEF TypeInv, TypeOK
<1>1. OneAtATime /\ WholeBatches
  BY CalmSteps DEF CalmRuns
<1>2. CASE /\ transcript' = transcript
           /\ \A q \in Requests : pc'[q] = "calling" <=> pc[q] = "calling"
           /\ UNCHANGED <<iter, calls, made>>
  <2>1. WellFormed(transcript) => WellFormed(transcript')
    BY <1>2
  <2>2. ASSUME NEW q \in Requests, BatchIsLast(q) PROVE BatchIsLast(q)'
    BY <1>2, <2>2 DEF BatchIsLast, MadeSoFar, Answer, ToolResult
  <2> QED
    BY <1>1, <1>2, <2>1, <2>2 DEF WholeBatches
<1>3. ASSUME CreateSession PROVE WholeBatches'
  <2>1. \A q \in Requests : pc'[q] = "idle"
    BY <1>0, <1>3 DEF CreateSession, Counters
  <2>2. WellFormed(<<>>)
    BY DEF WellFormed
  <2>3. ASSUME NEW q \in Requests PROVE WellFormed(<<SystemMessage(q)>>)
    BY DEF WellFormed, SystemMessage
  <2>4. WellFormed(transcript')
    BY <1>3, <2>2, <2>3 DEF CreateSession
  <2> QED
    BY <2>1, <2>4 DEF WholeBatches
<1>4. ASSUME ArchiveSession \/ DeleteSession \/ UNCHANGED vars PROVE WholeBatches'
  BY <1>2, <1>4 DEF ArchiveSession, DeleteSession, vars
<1>5. ASSUME Crash PROVE FALSE
  BY <1>5, CalmSteps DEF Crash
<1>6. ASSUME NEW q \in Requests, SaveUserMessage(q) PROVE WholeBatches'
  <2>1. \A r \in Requests : pc[r] # "calling" /\ pc'[r] # "calling"
    BY <1>0, <1>6, CalmSteps DEF Working, SaveUserMessage, TypeOK
  <2>2. UserMessage(q) \in Message /\ UserMessage(q).kind = "user"
    BY DEF UserMessage, Message
  <2>3. WellFormed(transcript')
    BY <1>0, <1>1, <1>6, <2>1, <2>2, WellFormedAppend DEF SaveUserMessage, WholeBatches
  <2> QED
    BY <2>1, <2>3 DEF WholeBatches
<1>7. ASSUME NEW q \in Requests, LoadHistory(q) \/ ChatFails(q) \/ StoreFails(q) \/ Disconnect(q)
      PROVE  WholeBatches'
  BY <1>0, <1>2, <1>7 DEF LoadHistory, ChatFails, StoreFails, Disconnect, TypeOK
<1>8. ASSUME NEW q \in Requests, Working(q)
      PROVE  \A r \in Requests \ {q} : ~Working(r) /\ pc[r] # "calling"
  BY <1>1, <1>8 DEF OneAtATime, Working
<1>9. ASSUME NEW q \in Requests, NEW k \in 0..MaxCalls, Chat(q, k) PROVE WholeBatches'
  <2>1. transcript' = transcript /\ \A r \in Requests : pc[r] # "calling" /\ pc'[r] # "calling"
    BY <1>0, <1>8, <1>9 DEF Chat, TypeOK, Working
  <2> QED
    BY <1>1, <2>1 DEF WholeBatches
<1>10. ASSUME NEW q \in Requests, SaveAnswer(q) PROVE WholeBatches'
  <2> DEFINE m == Answer(q, iter[q], calls[q])
  <2>1. /\ pc[q] = "saving" /\ made'[q] = 0 /\ iter'[q] = iter[q] /\ calls'[q] = calls[q]
        /\ transcript' = Append(transcript, m)
        /\ \A r \in Requests : pc[r] # "calling"
        /\ \A r \in Requests \ {q} : pc'[r] # "calling"
        /\ pc'[q] = IF calls[q] = 0 THEN "ended" ELSE "calling"
    BY <1>0, <1>8, <1>10 DEF SaveAnswer, TypeOK, Working
  <2>2. m \in Message /\ iter[q] \in Nat /\ calls[q] \in Nat
    BY <1>0, TypesOfRequest
  <2>3. WellFormed(transcript)
    BY <1>1, <2>1 DEF WholeBatches
  <2>4. Append(transcript, m) \in Seq(Message)
    BY <1>0, <2>2
  <2>5. CASE calls[q] = 0
    <3>1. WellFormed(Append(transcript, m) \o <<>>)
      <4>1. /\ <<>> \in Seq(Message) /\ Len(<<>>) = calls[q]
            /\ \A j \in 1..calls[q] : <<>>[j] = ToolResult(q, iter[q], j)
        BY <2>5
      <4> QED
        BY <1>0, <2>2, <2>3, <4>1, WellFormedBatch
    <3>2. Append(transcript, m) \o <<>> = transcript'
      BY <2>1, <2>4, ConcatNothing
    <3>3. WellFormed(transcript')
      BY <3>1, <3>2
    <3> QED
      BY <2>1, <2>5, <3>3 DEF WholeBatches
  <2>6. CASE calls[q] # 0
    <3>1. MadeSoFar(q)' = [j \in 1..0 |-> ToolResult(q, iter[q], j)]
      BY <2>1 DEF MadeSoFar, ToolResult
    <3>2. MadeSoFar(q)' \in Seq(Message) /\ Len(MadeSoFar(q)') = 0
      BY <2>2, <3>1, BatchTypes
    <3>3. transcript' = Append(transcript, m) \o MadeSoFar(q)'
      BY <2>1, <2>4, <3>2, ConcatNothing
    <3>4. BatchIsLast(q)'
      BY <1>0, <2>1, <2>3, <3>3 DEF BatchIsLast, Answer
    <3> QED
      BY <2>1, <2>6, <3>4 DEF WholeBatches
  <2> QED
    BY <2>5, <2>6
<1>11. ASSUME NEW q \in Requests, pc[q] = "calling"
       PROVE  \E s \in Seq(Message) :
                /\ WellFormed(s)
                /\ transcript = Append(s, Answer(q, iter[q], calls[q])) \o MadeSoFar(q)
  BY <1>1, <1>11 DEF WholeBatches, BatchIsLast
<1>12. ASSUME NEW q \in Requests, CallTool(q) PROVE WholeBatches'
  <2>1. /\ pc[q] = "calling" /\ pc' = pc /\ made'[q] = made[q] + 1
        /\ iter'[q] = iter[q] /\ calls'[q] = calls[q]
        /\ transcript' = Append(transcript, ToolResult(q, iter[q], made[q] + 1))
        /\ made[q] + 1 \in Nat /\ made[q] \in Nat /\ iter[q] \in Nat
    BY <1>0, <1>12, CalmSteps DEF CallTool, TypeOK
  <2>2. PICK s \in Seq(Message) :
          /\ WellFormed(s)
          /\ transcript = Append(s, Answer(q, iter[q], calls[q])) \o MadeSoFar(q)
    BY <1>11, <2>1
  <2> DEFINE x == Append(s, Answer(q, iter[q], calls[q]))
             t == MadeSoFar(q)
             u == [j \in 1..(made[q] + 1) |-> ToolResult(q, iter[q], j)]
  <2>3. x \in Seq(Message)
    BY <1>0, TypesOfRequest
  <2>4. /\ t \in Seq(Message) /\ Len(t) = made[q]
        /\ \A j \in 1..made[q] : t[j] = ToolResult(q, iter[q], j)
    BY <1>0, TypesOfRequest
  <2>5. /\ u \in Seq(Message) /\ Len(u) = made[q] + 1
        /\ \A j \in 1..(made[q] + 1) : u[j] = ToolResult(q, iter[q], j)
    BY <2>1, BatchTypes
  <2>6. MadeSoFar(q)' = u
    BY <2>1 DEF MadeSoFar, ToolResult
  <2>7. transcript = x \o t
    BY <2>2
  <2> HIDE DEF t, u
  <2>8. x \o u = Append(x \o t, u[Len(t) + 1])
    <3>1. Len(u) = Len(t) + 1 /\ \A j \in 1..Len(t) : u[j] = t[j]
      BY <2>1, <2>4, <2>5
    <3> HIDE DEF x
    <3> QED
      BY <2>3, <2>4, <2>5, <3>1, ConcatAppend
  <2>9. u[Len(t) + 1] = ToolResult(q, iter[q], made[q] + 1)
    BY <2>1, <2>4, <2>5
  <2>10. transcript' = x \o MadeSoFar(q)'
    BY <2>1, <2>6, <2>7, <2>8, <2>9, Zenon
  <2>11. BatchIsLast(q)'
    BY <2>1, <2>2, <2>10 DEF BatchIsLast, Answer
  <2>12. \A r \in Requests : pc'[r] = "calling" => r = q
    BY <1>8, <2>1 DEF Working
  <2> QED
    BY <2>1, <2>11, <2>12 DEF WholeBatches
<1>13. ASSUME NEW q \in Requests, FinishBatch(q) PROVE WholeBatches'
  <2>1. /\ pc[q] = "calling" /\ made[q] = calls[q] /\ transcript' = transcript
        /\ \A r \in Requests : pc'[r] # "calling"
    BY <1>0, <1>8, <1>13 DEF FinishBatch, TypeOK, Working
  <2>2. PICK s \in Seq(Message) :
          /\ WellFormed(s)
          /\ transcript = Append(s, Answer(q, iter[q], calls[q])) \o MadeSoFar(q)
    BY <1>11, <2>1
  <2>3. /\ MadeSoFar(q) \in Seq(Message) /\ Len(MadeSoFar(q)) = calls[q]
        /\ \A j \in 1..calls[q] : MadeSoFar(q)[j] = ToolResult(q, iter[q], j)
        /\ calls[q] \in Nat /\ iter[q] \in Nat
    BY <1>0, <2>1, TypesOfRequest
  <2>4. WellFormed(transcript)
    BY <2>2, <2>3, WellFormedBatch
  <2> QED
    BY <2>1, <2>4 DEF WholeBatches
<1> QED
  BY <1>3, <1>4, <1>5, <1>6, <1>7, <1>9, <1>10, <1>12, <1>13 DEF Next, RequestStep

LEMMA CalmStep == TypeInv /\ CalmRuns /\ [Next]_vars => CalmRuns'
BY CalmSteps, ShownStep, BatchesStep DEF CalmRuns

(* As long as requests take turns and none is cut short, every prompt is a *)
(* well-formed conversation, those read back from what earlier runs stored *)
(* included - runs that failed, were halted or ran out of budget as well - *)
(* until the session outgrows the limit of the history query.              *)
THEOREM CalmPrompts ==
  Spec => [](Len(transcript) <= HistoryLimit => CalmPromptsWellFormed)
<1>1. ASSUME TypeInv, CalmRuns
      PROVE  Len(transcript) <= HistoryLimit => CalmPromptsWellFormed
  <2> SUFFICES ASSUME Len(transcript) <= HistoryLimit, calm,
                      NEW q \in Requests, pc[q] = "consulting"
               PROVE  WellFormed(prompt[q])
    BY DEF CalmPromptsWellFormed, PromptsWellFormed
  <2>1. OneAtATime /\ ShownIsStored /\ WholeBatches
    BY <1>1 DEF CalmRuns
  <2>2. prompt[q] = Conversation(transcript)
    BY <2>1 DEF ShownIsStored, Pending, Running
  <2>3. \A r \in Requests : pc[r] # "calling"
    BY <2>1 DEF OneAtATime, Working
  <2>4. WellFormed(transcript)
    BY <2>1, <2>3 DEF WholeBatches
  <2> QED
    BY <1>1, <2>2, <2>4, WellFormedConversation DEF TypeInv, TypeOK
<1>2. Init => CalmRuns
  BY DEF Init, CalmRuns, OneAtATime, ShownIsStored, WholeBatches, Running, Working,
         WellFormed
<1>3. TypeInv /\ CalmRuns => (Len(transcript) <= HistoryLimit => CalmPromptsWellFormed)
  BY <1>1
<1> QED
  BY <1>2, <1>3, InitTypes, TypeStep, CalmStep, PTL DEF Spec
=============================================================================
