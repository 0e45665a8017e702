----------------------- MODULE RequestSession_proofs -----------------------
(***************************************************************************)
(* Proofs, for any pool, any number of requests, users and tenants, that   *)
(* requests do not see each other's database sessions.                     *)
(***************************************************************************)
EXTENDS RequestStream, Naturals, Sequences, SequenceTheorems, TLAPS

-----------------------------------------------------------------------------
(* The inductive invariant: what is on a request's connection, by where    *)
(* the request is.  The reset may have failed, but only on a connection    *)
(* that will not go back into the pool.                                    *)
OnConnection(q) ==
  LET s == sess[conn[q]]
  IN  /\ pc[q] = "setting" => s.user = None /\ s.tenant = None
      /\ pc[q] \in {"checking", "entering"} => s.user = who[q] /\ s.tenant = None
      /\ pc[q] \in {"handling", "streaming"} =>
           s.user = who[q] /\ s.tenant = scope[q]
      /\ pc[q] = "clearing" => (s.up /\ s.tx # "failed" => s.user = None)
      /\ pc[q] = "releasing" =>
           (s.up /\ s.tx = "none" => s.user = None /\ s.tenant = None)

Progress(q) ==
  /\ pc[q] \in {"idle", "acquiring", "setting", "checking", "entering"} =>
       scope[q] = None
  /\ pc[q] \in {"setting", "checking", "entering"} => who[q] # None
  /\ pc[q] = "entering" => asked[q] # None
  /\ who[q] = None => scope[q] = None
  /\ run[q] => pc[q] = "streaming"

Sessions == \A q \in Requests : OnConnection(q) /\ Progress(q)

Inv == TypeOK /\ Sessions /\ PoolClean

USE PoolAssumption

-----------------------------------------------------------------------------
(* The start, with every connection fresh.                                 *)
LEMMA InitInv == Init => Inv
  BY DEF Init, Inv, TypeOK, Sessions, OnConnection, Progress, PoolClean, Free,
         Fresh, Session, Phase, Holding

(* A step that changes the session of its own connection only, and keeps   *)
(* hold of it, disturbs no other request and not the pool.                 *)
LEMMA OwnStep ==
  ASSUME Inv, NEW q \in Requests, pc[q] \in Holding,
         NEW phase \in Holding, Goto(q, phase),
         sess' \in [Conns -> Session],
         \A c \in Conns \ {conn[q]} : sess'[c] = sess[c],
         scope' \in [Requests -> Tenants \union {None}],
         \A p \in Requests \ {q} : scope'[p] = scope[p],
         run' \in [Requests -> BOOLEAN],
         \A p \in Requests \ {q} : run'[p] = run[p],
         OnConnection(q)', Progress(q)',
         UNCHANGED <<who, asked, conn, caller>>
  PROVE  Inv'
<1>1. TypeOK'
  BY DEF Inv, TypeOK, Goto, Phase
<1>2. ASSUME NEW p \in Requests PROVE (OnConnection(p) /\ Progress(p))'
  <2>1. CASE p = q
    BY <2>1
  <2>2. CASE p # q
    <3>1. pc'[p] = pc[p] /\ scope'[p] = scope[p] /\ run'[p] = run[p]
      BY <2>2 DEF Goto, Inv, TypeOK
    <3>2. pc[p] \in Holding => sess'[conn'[p]] = sess[conn[p]]
      BY <2>2 DEF Inv, TypeOK
    <3>3. OnConnection(p) /\ Progress(p)
      BY DEF Inv, Sessions
    <3> QED
      BY <3>1, <3>2, <3>3 DEF OnConnection, Progress, Holding
  <2> QED
    BY <2>1, <2>2
<1>3. PoolClean'
  <2>1. ASSUME NEW c \in Conns, Free(c)' PROVE Free(c) /\ c # conn[q]
    BY <2>1 DEF Free
  <2> QED
    BY <2>1 DEF Inv, PoolClean, Fresh
<1> QED
  BY <1>1, <1>2, <1>3 DEF Inv, Sessions

-----------------------------------------------------------------------------
(* A request comes, from a client or from a run; or it goes before it has  *)
(* a connection; or a run no longer waits for it.                          *)
LEMMA OutsideInv ==
  ASSUME Inv, NEW q \in Requests,
         \/ \E u \in Users \union {None}, t \in Tenants \union {None},
               from \in Requests \union {None} : Arrive(q, u, t, from)
         \/ AcquireFails(q)
         \/ ToolTimeout(q)
  PROVE  Inv'
<1>1. TypeOK'
  BY DEF Inv, TypeOK, Arrive, AcquireFails, ToolTimeout, Goto, Phase, Holding
<1>2. Sessions'
  BY DEF Inv, TypeOK, Sessions, OnConnection, Progress, Arrive, AcquireFails,
         ToolTimeout, Goto
<1>3. PoolClean'
  BY DEF Inv, PoolClean, Free, Arrive, AcquireFails, ToolTimeout
<1> QED
  BY <1>1, <1>2, <1>3 DEF Inv

(* A run calls the server with what the type invariant says of its request. *)
LEMMA CallInv ==
  ASSUME Inv, NEW q \in Requests, NEW p \in Requests, CallServer(q, p)
  PROVE  Inv'
<1>1. who[q] \in Users \union {None} /\ scope[q] \in Tenants \union {None}
  BY DEF Inv, TypeOK
<1> QED
  BY <1>1, OutsideInv DEF CallServer

(* A connection is taken from the pool, where all are fresh.               *)
LEMMA AcquireInv ==
  ASSUME Inv, NEW q \in Requests, NEW c \in Conns, Acquire(q, c)
  PROVE  Inv'
<1> USE DEF Acquire, Goto
<1>1. TypeOK'
  BY DEF Inv, TypeOK, Phase, Holding, Free
<1>2. sess[c].user = None /\ sess[c].tenant = None
  BY DEF Inv, PoolClean, Fresh
<1>3. Sessions'
  BY <1>2 DEF Inv, TypeOK, Sessions, OnConnection, Progress
<1>4. PoolClean'
  <2>1. conn[q] = None
    BY DEF Inv, TypeOK, Holding
  <2>2. ASSUME NEW d \in Conns, Free(d)' PROVE Free(d)
    BY <2>1, <2>2 DEF Free, Inv, TypeOK
  <2> QED
    BY <2>2 DEF Inv, PoolClean, Fresh
<1> QED
  BY <1>1, <1>3, <1>4 DEF Inv

(* A connection goes back clean, or is replaced by a fresh one.            *)
LEMMA ReleaseInv ==
  ASSUME Inv, NEW q \in Requests, Release(q)
  PROVE  Inv'
<1> USE DEF Release, Goto
<1>0. conn[q] \in Conns /\ sess[conn[q]] \in Session
  BY DEF Inv, TypeOK, Holding
<1>1. sess'[conn[q]] = Fresh
  <2>1. sess[conn[q]].up /\ sess[conn[q]].tx = "none" => sess[conn[q]] = Fresh
    BY <1>0 DEF Inv, Sessions, OnConnection, Session, Fresh
  <2> QED
    BY <1>0, <2>1 DEF Inv, TypeOK
<1>2. Fresh \in Session
  BY DEF Fresh, Session
<1>3. TypeOK'
  BY <1>0, <1>1, <1>2 DEF Inv, TypeOK, Phase, Holding
<1>4. Sessions'
  BY <1>0 DEF Inv, TypeOK, Sessions, OnConnection, Progress, Holding
<1>5. PoolClean'
  BY <1>0, <1>1 DEF Inv, TypeOK, PoolClean, Free
<1> QED
  BY <1>3, <1>4, <1>5 DEF Inv

(* A connection in use breaks.                                             *)
LEMMA BreakInv ==
  ASSUME Inv, NEW c \in Conns, Break(c)
  PROVE  Inv'
<1> USE DEF Break
<1>1. sess' = [sess EXCEPT ![c] = [sess[c] EXCEPT !.up = FALSE]]
      /\ sess[c] \in Session
  BY DEF Inv, TypeOK
<1>2. TypeOK'
  <2>1. [sess[c] EXCEPT !.up = FALSE] \in Session
    BY <1>1 DEF Session
  <2>2. sess' \in [Conns -> Session]
    BY <1>1, <2>1 DEF Inv, TypeOK
  <2> QED
    BY <2>2 DEF Inv, TypeOK
<1>3. Sessions'
  <2> SUFFICES ASSUME NEW q \in Requests PROVE (OnConnection(q) /\ Progress(q))'
    BY DEF Sessions
  <2>1. pc[q] \in Holding => conn[q] \in Conns
    BY DEF Inv, TypeOK
  <2>2. CASE conn[q] = c
    BY <1>1, <2>2 DEF Inv, TypeOK, Sessions, OnConnection, Progress, Session
  <2>3. CASE conn[q] # c
    BY <1>1, <2>1, <2>3 DEF Inv, TypeOK, Sessions, OnConnection, Progress, Holding
  <2> QED
    BY <2>2, <2>3
<1>4. PoolClean'
  BY <1>1 DEF Inv, TypeOK, PoolClean, Free
<1> QED
  BY <1>2, <1>3, <1>4 DEF Inv

-----------------------------------------------------------------------------
(* The steps of the middleware that work on the connection.                *)
LEMMA MiddlewareInv ==
  ASSUME Inv, NEW q \in Requests, Middleware(q)
  PROVE  Inv'
<1>0. TypeOK /\ OnConnection(q) /\ Progress(q)
  BY DEF Inv, Sessions
<1> USE <1>0 DEF OnConnection, Progress, Works
<1>1. pc[q] \in Holding => conn[q] \in Conns /\ sess[conn[q]] \in Session
  BY DEF TypeOK
<1>2. CASE SetUser(q)
  <2>1. who[q] \in Users \union {None}
    BY DEF TypeOK
  <2>2. sess' = [sess EXCEPT ![conn[q]] = [sess[conn[q]] EXCEPT !.user = who[q]]]
    BY <1>2 DEF SetUser
  <2>3. sess' \in [Conns -> Session] /\ \A c \in Conns \ {conn[q]} : sess'[c] = sess[c]
    BY <1>1, <1>2, <2>1, <2>2 DEF SetUser, TypeOK, Session, Holding
  <2>4. (OnConnection(q) /\ Progress(q))'
    BY <1>1, <1>2, <2>1, <2>2 DEF SetUser, Goto, TypeOK, Session, Holding
  <2> QED
    BY <1>2, <2>3, <2>4, OwnStep DEF SetUser, TypeOK, Holding
<1>3. CASE SetUserFails(q) \/ Abandon(q)
  <2>1. (OnConnection(q) /\ Progress(q))'
    BY <1>3 DEF SetUserFails, Abandon, Goto, TypeOK
  <2> QED
    BY <1>3, <2>1, OwnStep DEF SetUserFails, Abandon, TypeOK, Holding
<1>4. CASE \E admitted \in BOOLEAN : CheckUser(q, admitted)
  <2>0. PICK admitted \in BOOLEAN : CheckUser(q, admitted)
    BY <1>4
  <2>1. (OnConnection(q) /\ Progress(q))'
    BY <2>0 DEF CheckUser, Goto, TypeOK
  <2> QED
    BY <2>0, <2>1, OwnStep DEF CheckUser, TypeOK, Holding
<1>5. CASE EnterTenant(q)
  <2>1. asked[q] \in Tenants
    BY <1>5 DEF TypeOK, EnterTenant
  <2>2. sess' = [sess EXCEPT ![conn[q]] = [sess[conn[q]] EXCEPT !.tenant = asked[q]]]
    BY <1>5 DEF EnterTenant
  <2>3. sess' \in [Conns -> Session] /\ \A c \in Conns \ {conn[q]} : sess'[c] = sess[c]
    BY <1>1, <1>5, <2>1, <2>2 DEF EnterTenant, TypeOK, Session, Holding
  <2>4. (OnConnection(q) /\ Progress(q))'
    BY <1>1, <1>5, <2>1, <2>2 DEF EnterTenant, Goto, TypeOK, Session, Holding
  <2>5. /\ scope' \in [Requests -> Tenants \union {None}]
        /\ \A p \in Requests \ {q} : scope'[p] = scope[p]
    BY <1>5, <2>1 DEF EnterTenant, TypeOK
  <2> QED
    BY <1>5, <2>3, <2>4, <2>5, OwnStep DEF EnterTenant, TypeOK, Holding
<1>6. CASE ResetUser(q)
  <2>1. sess' = IF Works(q)
                THEN [sess EXCEPT ![conn[q]] = [sess[conn[q]] EXCEPT !.user = None]]
                ELSE sess
    BY <1>6 DEF ResetUser
  <2>2. sess' \in [Conns -> Session] /\ \A c \in Conns \ {conn[q]} : sess'[c] = sess[c]
    BY <1>1, <1>6, <2>1 DEF ResetUser, TypeOK, Session, Holding
  <2>3. (OnConnection(q) /\ Progress(q))'
    BY <1>1, <1>6, <2>1 DEF ResetUser, Goto, TypeOK, Session, Holding
  <2> QED
    BY <1>6, <2>2, <2>3, OwnStep DEF ResetUser, TypeOK, Holding
<1>7. CASE ResetTenant(q)
  <2>1. sess' = IF Works(q)
                THEN [sess EXCEPT ![conn[q]] = [sess[conn[q]] EXCEPT !.tenant = None]]
                ELSE sess
    BY <1>7 DEF ResetTenant
  <2>2. sess' \in [Conns -> Session] /\ \A c \in Conns \ {conn[q]} : sess'[c] = sess[c]
    BY <1>1, <1>7, <2>1 DEF ResetTenant, TypeOK, Session, Holding
  <2>3. (OnConnection(q) /\ Progress(q))'
    BY <1>1, <1>7, <2>1 DEF ResetTenant, Goto, TypeOK, Session, Holding
  <2> QED
    BY <1>7, <2>2, <2>3, OwnStep DEF ResetTenant, TypeOK, Holding
<1>8. CASE Release(q)
  BY <1>8, ReleaseInv
<1> QED
  BY <1>2, <1>3, <1>4, <1>5, <1>6, <1>7, <1>8 DEF Middleware

(* The steps of a handler and of its run.                                  *)
LEMMA HandlerInv ==
  ASSUME Inv, NEW q \in Requests,
         \/ Handler(q) \/ StartRun(q) \/ EndRun(q)
         \/ \E tx \in {"none", "open", "failed"} : ExecuteSQL(q, tx)
  PROVE  Inv'
<1>0. TypeOK /\ OnConnection(q) /\ Progress(q)
  BY DEF Inv, Sessions
<1> USE <1>0 DEF OnConnection, Progress
<1>1. pc[q] \in Holding => conn[q] \in Conns /\ sess[conn[q]] \in Session
  BY DEF TypeOK
<1>2. CASE Handler(q)
  <2>1. (OnConnection(q) /\ Progress(q))'
    BY <1>2 DEF Handler, Finish, CloseStream, Goto, TypeOK
  <2> QED
    BY <1>2, <2>1, OwnStep DEF Handler, Finish, CloseStream, TypeOK, Holding
<1>3. CASE StartRun(q)
  <2>1. (OnConnection(q) /\ Progress(q))'
    BY <1>3 DEF StartRun, Goto, TypeOK
  <2>2. run' \in [Requests -> BOOLEAN] /\ \A p \in Requests \ {q} : run'[p] = run[p]
    BY <1>3 DEF StartRun, TypeOK
  <2> QED
    BY <1>3, <2>1, <2>2, OwnStep DEF StartRun, TypeOK, Holding
<1>4. CASE EndRun(q)
  <2>1. Goto(q, pc[q]) /\ pc[q] = "streaming"
    BY <1>4 DEF EndRun, Goto, TypeOK
  <2>2. (OnConnection(q) /\ Progress(q))'
    BY <1>4 DEF EndRun, TypeOK
  <2>3. run' \in [Requests -> BOOLEAN] /\ \A p \in Requests \ {q} : run'[p] = run[p]
    BY <1>4 DEF EndRun, TypeOK
  <2>4. /\ sess' \in [Conns -> Session] /\ sess' = sess
        /\ scope' \in [Requests -> Tenants \union {None}] /\ scope' = scope
    BY <1>4 DEF EndRun, TypeOK
  <2> QED
    BY <1>4, <2>1, <2>2, <2>3, <2>4, OwnStep DEF EndRun, Holding
<1>5. ASSUME NEW tx \in {"none", "open", "failed"}, ExecuteSQL(q, tx) PROVE Inv'
  <2>1. Goto(q, pc[q]) /\ pc[q] = "streaming"
    BY <1>5 DEF ExecuteSQL, Goto, TypeOK
  <2>2. sess' = [sess EXCEPT ![conn[q]] = [sess[conn[q]] EXCEPT !.tx = tx]]
    BY <1>5 DEF ExecuteSQL
  <2>3. sess' \in [Conns -> Session] /\ \A c \in Conns \ {conn[q]} : sess'[c] = sess[c]
    BY <1>1, <2>1, <2>2 DEF TypeOK, Session, Holding
  <2>4. (OnConnection(q) /\ Progress(q))'
    BY <1>1, <1>5, <2>1, <2>2 DEF ExecuteSQL, TypeOK, Session, Holding
  <2>5. /\ run' \in [Requests -> BOOLEAN] /\ run' = run
        /\ scope' \in [Requests -> Tenants \union {None}] /\ scope' = scope
    BY <1>5 DEF ExecuteSQL, TypeOK
  <2> QED
    BY <1>5, <2>1, <2>3, <2>4, <2>5, OwnStep DEF ExecuteSQL, Holding
<1> QED
  BY <1>2, <1>3, <1>4, <1>5

-----------------------------------------------------------------------------
(* Every step preserves the invariant.                                     *)
LEMMA NextInv == Inv /\ [Next]_vars => Inv'
<1> SUFFICES ASSUME Inv, [Next]_vars PROVE Inv'
  OBVIOUS
<1>1. CASE UNCHANGED vars
  BY <1>1 DEF vars, Inv, TypeOK, Sessions, OnConnection, Progress, PoolClean, Free
<1>2. CASE Next
  BY <1>2, OutsideInv, CallInv, AcquireInv, BreakInv, MiddlewareInv, HandlerInv
     DEF Next
<1> QED
  BY <1>1, <1>2

(* The inductive invariant holds in every reachable state.                 *)
THEOREM Invariance == Spec => []Inv
  BY InitInv, NextInv, PTL DEF Spec

(* Every variable keeps its type, no connection has two holders and none   *)
(* is lost, whichever way a request ends.                                  *)
THEOREM TypeCorrect == Spec => []TypeOK
<1>1. Inv => TypeOK
  BY DEF Inv
<1> QED
  BY <1>1, Invariance, PTL

(* A handler works with its own user and tenant on the database session.   *)
THEOREM OwnSessionHolds == Spec => []OwnSession
<1>1. Inv => OwnSession
  BY DEF Inv, Sessions, OnConnection, OwnSession
<1> QED
  BY <1>1, Invariance, PTL

(* Nothing of a request is left on a connection in the pool.               *)
THEOREM PoolCleanHolds == Spec => []PoolClean
<1>1. Inv => PoolClean
  BY DEF Inv
<1> QED
  BY <1>1, Invariance, PTL

(* An agent run is over before its request gives the connection back.      *)
THEOREM RunOwnsConnectionHolds == Spec => []RunOwnsConnection
<1>1. Inv => RunOwnsConnection
  BY DEF Inv, TypeOK, Sessions, OnConnection, Progress, Holding, RunOwnsConnection
<1> QED
  BY <1>1, Invariance, PTL
-----------------------------------------------------------------------------
(* The stream of one request's events                                      *)

HIDE PoolAssumption

Event == [n : 1..sent, kind : E!Kinds]
Over == {"ended", "closed", "idle"}

ETypes ==
  /\ stream \in {"idle", "loading", "running", "ended", "closed"}
  /\ channel \in Seq(Event) /\ Len(channel) <= Capacity
  /\ shown \in Seq(Event)
  /\ sent \in Nat /\ dropped \subseteq 1..sent /\ stored \subseteq 1..sent
  /\ left \in BOOLEAN
  /\ stream = "idle" => channel = <<>>

Budget ==
  /\ stream = "loading" => sent <= MaxRefused
  /\ stream = "running" => sent <= MaxMessages + 1
  /\ sent <= MaxMessages + 2

(* What the client was shown comes before what is in the channel, and none *)
(* of it was dropped.                                                      *)
InOrder ==
  /\ \A i, j \in 1..Len(channel) : i < j => channel[i].n < channel[j].n
  /\ \A i, j \in 1..Len(shown) : i < j => shown[i].n < shown[j].n
  /\ \A i \in 1..Len(shown), j \in 1..Len(channel) : shown[i].n < channel[j].n
  /\ \A j \in 1..Len(channel) : channel[j].n \notin dropped
  /\ \A i \in 1..Len(shown) : shown[i].n \notin dropped

(* What an event says: that a message is stored, or how the run has ended. *)
SaysOf(e, kept, last, over) ==
  /\ e.kind \in {"assistant", "tool"} => e.n \in kept
  /\ e.kind = "done" => over /\ e.n = last
  /\ over /\ e.n = last => e.kind \in {"error", "done"}

Says(e) == SaysOf(e, stored, sent, stream \in Over)

AllSay == /\ \A j \in 1..Len(channel) : Says(channel[j])
          /\ \A i \in 1..Len(shown) : Says(shown[i])

(* A client that has stayed has been shown what is not in the channel.     *)
Whole ==
  ~left => \A k \in (1..sent) \ dropped :
    \/ \E i \in 1..Len(shown) : shown[i].n = k
    \/ \E j \in 1..Len(channel) : channel[j].n = k

EInv == ETypes /\ Budget /\ InOrder /\ AllSay /\ Whole

(* Events by their places.                                                 *)
LEMMA Places ==
  ASSUME EInv
  PROVE  /\ Len(channel) \in Nat /\ Len(shown) \in Nat
         /\ \A j \in 1..Len(channel) : channel[j] \in Event
         /\ \A i \in 1..Len(shown) : shown[i] \in Event
BY ElementOfSeq, LenProperties DEF EInv, ETypes

LEMMA StreamInit ==
  ASSUME E!StreamAssumption, E!Init PROVE EInv
<1>1. ETypes
  <2>1. <<>> \in Seq(Event) /\ Len(<<>>) = 0 /\ Capacity >= 0
    BY EmptySeq DEF E!StreamAssumption
  <2> QED
    BY <2>1 DEF E!Init, ETypes
<1>2. Budget
  BY DEF E!Init, E!StreamAssumption, Budget
<1>3. InOrder /\ AllSay /\ Whole
  BY DEF E!Init, InOrder, AllSay, Whole
<1> QED
  BY <1>1, <1>2, <1>3 DEF EInv

(* The run emits an event, having stored the message it is about, if it    *)
(* is about one.                                                           *)
LEMMA Emits ==
  ASSUME E!StreamAssumption, EInv, NEW kind \in E!Kinds, E!Emit(kind),
         stream \in {"loading", "running"}, shown' = shown, left' = left,
         stream' \in {"loading", "running", "ended"},
         \/ stored' = stored
         \/ stored' = stored \union {sent + 1},
         kind \in {"assistant", "tool"} => sent + 1 \in stored',
         kind = "done" => stream' = "ended",
         stream' = "ended" => kind \in {"error", "done"},
         stream' = "loading" => sent < MaxRefused,
         stream' = "running" => sent <= MaxMessages,
         sent <= MaxMessages + 1
  PROVE  EInv'
<1> DEFINE e == [n |-> sent + 1, kind |-> kind]
           New == [n : 1..(sent + 1), kind : E!Kinds]
<1>0. /\ sent \in Nat /\ sent' = sent + 1 /\ Capacity \in Nat
      /\ MaxMessages \in Nat /\ MaxRefused \in Nat
      /\ MaxRefused <= MaxMessages
      /\ channel \in Seq(Event) /\ shown \in Seq(Event)
      /\ Len(channel) \in Nat /\ Len(shown) \in Nat
      /\ Len(channel) <= Capacity
  BY Places DEF E!Emit, E!StreamAssumption, EInv, ETypes
<1>1. /\ e \in New /\ e.n = sent + 1 /\ e.kind = kind
      /\ Event \subseteq New
      /\ 1..sent \subseteq 1..(sent + 1) /\ sent + 1 \in 1..(sent + 1)
      /\ sent + 1 \notin 1..sent
      /\ \A k \in 1..(sent + 1) : k = sent + 1 \/ k \in 1..sent
  <2>1. /\ 1..sent \subseteq 1..(sent + 1) /\ sent + 1 \in 1..(sent + 1)
        /\ sent + 1 \notin 1..sent
        /\ \A k \in 1..(sent + 1) : k = sent + 1 \/ k \in 1..sent
    BY <1>0
  <2> QED
    BY <2>1 DEF Event
<1>2. \/ /\ Len(channel) < Capacity
         /\ channel' = Append(channel, e) /\ dropped' = dropped
      \/ channel' = channel /\ dropped' = dropped \union {sent + 1}
  BY DEF E!Emit
<1>3. channel \in Seq(New) /\ shown \in Seq(New)
  BY <1>0, <1>1, SeqMonotonic
<1> HIDE DEF e, New
<1>4. channel' = Append(channel, e) =>
        /\ channel' \in Seq(New) /\ Len(channel') = Len(channel) + 1
        /\ \A j \in 1..Len(channel) : channel'[j] = channel[j]
        /\ channel'[Len(channel) + 1] = e
  BY <1>1, <1>3, AppendProperties
<1>5. Event' = New
  BY <1>0 DEF Event, New, E!Kinds
<1>6. /\ channel' \in Seq(New) /\ Len(channel') <= Capacity
      /\ Len(channel') \in Nat
      /\ \A j \in 1..Len(channel') :
           \/ j \in 1..Len(channel) /\ channel'[j] = channel[j]
           \/ /\ j = Len(channel) + 1 /\ channel'[j] = e
              /\ dropped' = dropped
  <2>1. CASE channel' = channel
    BY <1>0, <1>3, <2>1
  <2>2. CASE /\ Len(channel) < Capacity
             /\ channel' = Append(channel, e) /\ dropped' = dropped
    <3>1. Len(channel') = Len(channel) + 1
      BY <1>4, <2>2
    <3>2. \A j \in 1..Len(channel') :
            j \in 1..Len(channel) \/ j = Len(channel) + 1
      BY <1>0, <3>1
    <3>3. Len(channel') <= Capacity /\ Len(channel') \in Nat
      BY <1>0, <2>2, <3>1
    <3> QED
      BY <1>4, <2>2, <3>2, <3>3
  <2> QED
    BY <1>2, <2>1, <2>2
<1>7. \A x \in Event : x.n \in 1..sent
  BY DEF Event
<1>8. ETypes'
  <2>1. dropped' \subseteq 1..(sent + 1) /\ stored' \subseteq 1..(sent + 1)
    BY <1>1, <1>2 DEF EInv, ETypes
  <2>2. sent' \in Nat
    BY <1>0
  <2>3. left' \in BOOLEAN
    BY DEF EInv, ETypes
  <2> QED
    BY <1>0, <1>3, <1>5, <1>6, <2>1, <2>2, <2>3 DEF ETypes
<1>9. Budget'
  <2>1. sent + 1 <= MaxMessages + 2
    BY <1>0
  <2>2. stream' = "loading" => sent + 1 <= MaxRefused
    BY <1>0
  <2>3. stream' = "running" => sent + 1 <= MaxMessages + 1
    BY <1>0
  <2> QED
    BY <1>0, <2>1, <2>2, <2>3 DEF Budget
<1>10. InOrder'
  <2>1. ASSUME NEW i \in 1..Len(channel'), NEW j \in 1..Len(channel'), i < j
        PROVE  channel'[i].n < channel'[j].n
    <3>1. i \in 1..Len(channel) /\ channel'[i] = channel[i]
      BY <1>0, <1>6, <2>1
    <3>2. channel[i].n \in 1..sent
      BY <1>7, <3>1, Places
    <3>3. CASE j \in 1..Len(channel) /\ channel'[j] = channel[j]
      BY <2>1, <3>1, <3>3 DEF EInv, InOrder
    <3>4. CASE channel'[j] = e
      BY <1>0, <1>1, <3>1, <3>2, <3>4
    <3> QED
      BY <1>6, <3>3, <3>4
  <2>2. ASSUME NEW i \in 1..Len(shown), NEW j \in 1..Len(channel')
        PROVE  shown[i].n < channel'[j].n
    <3>1. shown[i].n \in 1..sent
      BY <1>7, Places
    <3>2. CASE j \in 1..Len(channel) /\ channel'[j] = channel[j]
      BY <3>2 DEF EInv, InOrder
    <3>3. CASE channel'[j] = e
      BY <1>0, <1>1, <3>1, <3>3
    <3> QED
      BY <1>6, <3>2, <3>3
  <2>3. \A i, j \in 1..Len(shown) : i < j => shown[i].n < shown[j].n
    BY DEF EInv, InOrder
  <2>4. ASSUME NEW j \in 1..Len(channel') PROVE channel'[j].n \notin dropped'
    <3>1. CASE j \in 1..Len(channel) /\ channel'[j] = channel[j]
      <4>1. channel[j].n \in 1..sent /\ channel[j].n \notin dropped
        BY <1>7, <3>1, Places DEF EInv, InOrder
      <4> QED
        BY <1>1, <1>2, <3>1, <4>1
    <3>2. CASE channel'[j] = e /\ dropped' = dropped
      BY <1>1, <3>2 DEF EInv, ETypes
    <3> QED
      BY <1>6, <3>1, <3>2
  <2>5. ASSUME NEW i \in 1..Len(shown) PROVE shown[i].n \notin dropped'
    <3>1. shown[i].n \in 1..sent /\ shown[i].n \notin dropped
      BY <1>7, Places DEF EInv, InOrder
    <3> QED
      BY <1>1, <1>2, <3>1
  <2> QED
    BY <2>1, <2>2, <2>3, <2>4, <2>5 DEF InOrder
<1>11. AllSay'
  <2>1. ASSUME NEW x \in Event, Says(x)
        PROVE  SaysOf(x, stored', sent', stream' \in Over)
    <3>1. x.n \in 1..sent
      BY <1>7
    <3>2. x.n # sent' /\ stored \subseteq stored'
      BY <1>0, <1>1, <3>1
    <3>3. x.kind # "done"
      BY <2>1 DEF Says, SaysOf, Over
    <3> QED
      BY <2>1, <3>2, <3>3 DEF Says, SaysOf
  <2>2. SaysOf(e, stored', sent', stream' \in Over)
    BY <1>0, <1>1 DEF SaysOf, Over
  <2>3. \A i \in 1..Len(shown) :
          SaysOf(shown[i], stored', sent', stream' \in Over)
    BY <2>1, Places DEF EInv, AllSay
  <2>4. \A j \in 1..Len(channel') :
          SaysOf(channel'[j], stored', sent', stream' \in Over)
    BY <1>6, <2>1, <2>2, Places DEF EInv, AllSay
  <2> QED
    BY <2>3, <2>4 DEF AllSay, Says, Over
<1>12. Whole'
  <2>1. ASSUME ~left, NEW k \in 1..(sent + 1), k \notin dropped'
        PROVE  \/ \E i \in 1..Len(shown) : shown[i].n = k
               \/ \E j \in 1..Len(channel') : channel'[j].n = k
    <3>1. CASE k \in 1..sent
      <4>1. k \notin dropped
        BY <1>2, <2>1
      <4>2. \/ \E i \in 1..Len(shown) : shown[i].n = k
            \/ \E j \in 1..Len(channel) : channel[j].n = k
        BY <2>1, <3>1, <4>1 DEF EInv, Whole
      <4>3. \A j \in 1..Len(channel) :
              j \in 1..Len(channel') /\ channel'[j] = channel[j]
        <5>1. CASE channel' = channel
          BY <5>1
        <5>2. CASE channel' = Append(channel, e)
          BY <1>0, <1>4, <5>2
        <5> QED
          BY <1>2, <5>1, <5>2
      <4> QED
        BY <4>2, <4>3
    <3>2. CASE k = sent + 1
      <4>1. channel' = Append(channel, e)
        BY <1>2, <2>1, <3>2
      <4>2. /\ Len(channel) + 1 \in 1..Len(channel')
            /\ channel'[Len(channel) + 1].n = k
        BY <1>0, <1>1, <1>4, <3>2, <4>1
      <4> QED
        BY <4>2
    <3> QED
      BY <1>1, <2>1, <3>1, <3>2
  <2> QED
    BY <1>0, <2>1 DEF Whole
<1> QED
  BY <1>8, <1>9, <1>10, <1>11, <1>12 DEF EInv

LEMMA RunSteps ==
  ASSUME E!StreamAssumption, EInv,
         E!ToolRefused \/ E!ToolsLoaded \/ E!Answer \/ E!ToolMessage \/ E!Return
  PROVE  EInv'
<1>0. /\ sent \in Nat /\ MaxMessages \in Nat /\ MaxRefused \in Nat
      /\ MaxRefused <= MaxMessages
      /\ stream = "loading" => sent <= MaxRefused
      /\ stream = "running" => sent <= MaxMessages + 1
  BY DEF EInv, ETypes, Budget, E!StreamAssumption
<1>1. /\ stream = "loading" => sent <= MaxMessages
      /\ stream \in {"loading", "running"} => sent <= MaxMessages + 1
  BY <1>0
<1>2. \A kind \in {"loaded", "assistant", "tool", "tool_unsaved", "tool_denied",
                    "error", "done"} : kind \in E!Kinds
  BY DEF E!Kinds
<1>3. CASE E!ToolRefused
  <2>1. /\ stream = "loading" /\ stream' = stream /\ E!Emit("error")
        /\ sent < MaxRefused /\ UNCHANGED <<stored, shown, left>>
    BY <1>3 DEF E!ToolRefused
  <2> QED
    BY <1>1, <1>2, <2>1, Emits
<1>4. CASE E!ToolsLoaded
  <2>1. /\ stream = "loading" /\ stream' = "running" /\ E!Emit("loaded")
        /\ UNCHANGED <<stored, shown, left>>
    BY <1>4 DEF E!ToolsLoaded
  <2> QED
    BY <1>1, <1>2, <2>1, Emits
<1>5. ASSUME NEW kind \in {"assistant", "tool", "tool_unsaved", "tool_denied"},
             E!Emit(kind), stream = "running", sent <= MaxMessages,
             UNCHANGED <<stream, shown, left>>,
             stored' \in {stored, stored \union {sent + 1}},
             kind \in {"assistant", "tool"} => stored' = stored \union {sent + 1}
      PROVE  EInv'
  <2>1. kind \in {"assistant", "tool"} => sent + 1 \in stored'
    BY <1>5
  <2> QED
    BY <1>1, <1>2, <1>5, <2>1, Emits
<1>6. CASE E!Answer
  BY <1>5, <1>6 DEF E!Answer
<1>7. CASE E!ToolMessage
  <2>1. /\ stream = "running" /\ sent <= MaxMessages
        /\ UNCHANGED <<stream, shown, left>>
    BY <1>7 DEF E!ToolMessage
  <2>2. CASE E!Emit("tool") /\ stored' = stored \union {sent + 1}
    BY <1>5, <2>1, <2>2
  <2>3. CASE E!Emit("tool_unsaved") /\ stored' = stored
    BY <1>5, <2>1, <2>3
  <2>4. CASE E!Emit("tool_denied") /\ stored' \in {stored, stored \union {sent + 1}}
    BY <1>5, <2>1, <2>4
  <2> QED
    BY <1>7, <2>2, <2>3, <2>4 DEF E!ToolMessage, E!Storings
<1>8. CASE E!Return
  <2>1. PICK kind \in {"error", "done"} :
          /\ stream \in {"loading", "running"} /\ E!Emit(kind)
          /\ stream' = "ended" /\ UNCHANGED <<stored, shown, left>>
    BY <1>8 DEF E!Return
  <2> QED
    BY <1>1, <1>2, <2>1, Emits
<1> QED
  BY <1>3, <1>4, <1>6, <1>7, <1>8

(* Steps that emit nothing: a stream starts anew, the run closes the       *)
(* channel, the stream ends, or the client goes away.                      *)
LEMMA QuietSteps ==
  ASSUME E!StreamAssumption, EInv,
         E!StartStream \/ E!Close \/ E!EndStream \/ E!Leave
  PROVE  EInv'
<1>1. CASE E!StartStream
  <2>1. /\ stream' = "loading" /\ channel' = <<>> /\ sent' = 0
        /\ dropped' = {} /\ stored' = {} /\ shown' = <<>> /\ left' = FALSE
    BY <1>1 DEF E!StartStream
  <2>2. ETypes'
    <3>1. /\ \A S : <<>> \in Seq(S)
          /\ Len(<<>>) = 0 /\ Capacity >= 0
      BY EmptySeq DEF E!StreamAssumption
    <3> QED
      BY <2>1, <3>1 DEF ETypes
  <2>3. Budget'
    BY <2>1 DEF Budget, E!StreamAssumption
  <2>4. InOrder' /\ AllSay' /\ Whole'
    BY <2>1 DEF InOrder, AllSay, Whole
  <2> QED
    BY <2>2, <2>3, <2>4 DEF EInv
<1>2. ASSUME /\ channel' = channel /\ sent' = sent /\ dropped' = dropped
             /\ stored' = stored /\ shown' = shown,
             left' = left \/ left' = TRUE,
             \/ stream' = stream
             \/ stream = "ended" /\ stream' = "closed"
             \/ stream = "closed" /\ channel = <<>> /\ stream' = "idle"
      PROVE  EInv'
  <2>1. (stream' \in Over) <=> (stream \in Over)
    BY <1>2 DEF Over
  <2>2. ETypes'
    <3>1. Event' = Event
      BY <1>2 DEF Event, E!Kinds
    <3> QED
      BY <1>2, <3>1 DEF EInv, ETypes
  <2>3. Budget'
    BY <1>2 DEF EInv, Budget
  <2>4. InOrder'
    BY <1>2 DEF EInv, InOrder
  <2>5. AllSay'
    BY <1>2, <2>1 DEF EInv, AllSay, Says, SaysOf, Over
  <2>6. Whole'
    BY <1>2 DEF EInv, Whole
  <2> QED
    BY <2>2, <2>3, <2>4, <2>5, <2>6 DEF EInv
<1> QED
  BY <1>1, <1>2 DEF E!Close, E!EndStream, E!Leave

(* The handler takes the first event out of the channel.                   *)
LEMMA WriteStep ==
  ASSUME E!StreamAssumption, EInv, E!Write PROVE EInv'
<1> DEFINE e == Head(channel)
<1>0. /\ channel \in Seq(Event) /\ shown \in Seq(Event)
      /\ Len(channel) \in Nat /\ Len(shown) \in Nat
      /\ Len(channel) <= Capacity /\ Capacity \in Nat
  BY Places DEF EInv, ETypes, E!StreamAssumption
<1>1. /\ channel # <<>> /\ channel' = Tail(channel)
      /\ shown' = IF left THEN shown ELSE Append(shown, e)
      /\ stream' = stream /\ sent' = sent /\ dropped' = dropped
      /\ stored' = stored /\ left' = left
  BY DEF E!Write
<1>2. /\ e \in Event /\ e = channel[1] /\ Len(channel) >= 1
      /\ channel' \in Seq(Event) /\ Len(channel') = Len(channel) - 1
      /\ \A j \in 1..(Len(channel) - 1) : channel'[j] = channel[j + 1]
  <2>1. Len(channel) # 0
    BY <1>0, <1>1, EmptySeq
  <2> QED
    BY <1>0, <1>1, <2>1, HeadTailProperties
<1> HIDE DEF e
<1>3. /\ Append(shown, e) \in Seq(Event)
      /\ Len(Append(shown, e)) = Len(shown) + 1
      /\ \A i \in 1..Len(shown) : Append(shown, e)[i] = shown[i]
      /\ Append(shown, e)[Len(shown) + 1] = e
  BY <1>0, <1>2, AppendProperties
<1>4. \A j \in 1..Len(channel') :
        j + 1 \in 1..Len(channel) /\ channel'[j] = channel[j + 1] /\ j + 1 > 1
  BY <1>0, <1>2
<1>5. /\ shown' \in Seq(Event)
      /\ \A i \in 1..Len(shown') :
           \/ i \in 1..Len(shown) /\ shown'[i] = shown[i]
           \/ i = Len(shown) + 1 /\ shown'[i] = e
  <2>1. CASE left
    BY <1>0, <1>1, <2>1
  <2>2. CASE ~left
    <3>1. \A i \in 1..(Len(shown) + 1) :
            i \in 1..Len(shown) \/ i = Len(shown) + 1
      BY <1>0
    <3> QED
      BY <1>1, <1>3, <2>2, <3>1
  <2> QED
    BY <2>1, <2>2
<1>6. 1 \in 1..Len(channel)
  BY <1>0, <1>2
<1>7. ETypes'
  <2>1. Event' = Event
    BY <1>1 DEF Event, E!Kinds
  <2>2. Len(channel') <= Capacity
    BY <1>0, <1>2
  <2>3. stream # "idle"
    BY <1>1 DEF EInv, ETypes
  <2> QED
    BY <1>1, <1>2, <1>5, <2>1, <2>2, <2>3 DEF EInv, ETypes
<1>8. Budget'
  BY <1>1 DEF EInv, Budget
<1>9. InOrder'
  <2>1. /\ \A i, j \in 1..Len(channel) : i < j =>
             channel[i].n < channel[j].n
        /\ \A i, j \in 1..Len(shown) : i < j => shown[i].n < shown[j].n
        /\ \A i \in 1..Len(shown), j \in 1..Len(channel) :
             shown[i].n < channel[j].n
        /\ \A j \in 1..Len(channel) : channel[j].n \notin dropped
        /\ \A i \in 1..Len(shown) : shown[i].n \notin dropped
    BY DEF EInv, InOrder
  <2>2. ASSUME NEW i \in 1..Len(channel'), NEW j \in 1..Len(channel'), i < j
        PROVE  channel'[i].n < channel'[j].n
    <3>1. i + 1 < j + 1
      BY <1>0, <1>2, <2>2
    <3> QED
      BY <1>4, <2>1, <3>1
  <2>3. ASSUME NEW i \in 1..Len(shown'), NEW j \in 1..Len(channel')
        PROVE  shown'[i].n < channel'[j].n
    <3>1. CASE i \in 1..Len(shown) /\ shown'[i] = shown[i]
      BY <1>4, <2>1, <3>1
    <3>2. CASE shown'[i] = e
      BY <1>2, <1>4, <1>6, <2>1, <3>2
    <3> QED
      BY <1>5, <3>1, <3>2
  <2>4. ASSUME NEW i \in 1..Len(shown'), NEW j \in 1..Len(shown'), i < j
        PROVE  shown'[i].n < shown'[j].n
    <3>1. i \in 1..Len(shown) /\ shown'[i] = shown[i]
      <4>1. i # Len(shown) + 1
        <5>1. i \in Nat /\ j \in Nat /\ j <= Len(shown) + 1
          BY <1>0, <1>5
        <5> QED
          BY <1>0, <2>4, <5>1
      <4> QED
        BY <1>5, <4>1
    <3>2. CASE j \in 1..Len(shown) /\ shown'[j] = shown[j]
      BY <2>1, <2>4, <3>1, <3>2
    <3>3. CASE shown'[j] = e
      BY <1>2, <1>6, <2>1, <3>1, <3>3
    <3> QED
      BY <1>5, <3>2, <3>3
  <2>5. \A j \in 1..Len(channel') : channel'[j].n \notin dropped
    BY <1>4, <2>1
  <2>6. \A i \in 1..Len(shown') : shown'[i].n \notin dropped
    BY <1>2, <1>5, <1>6, <2>1
  <2> QED
    BY <1>1, <2>2, <2>3, <2>4, <2>5, <2>6 DEF InOrder
<1>10. AllSay'
  <2>1. \A j \in 1..Len(channel') : Says(channel'[j])
    BY <1>4 DEF EInv, AllSay
  <2>2. \A i \in 1..Len(shown') : Says(shown'[i])
    BY <1>2, <1>5, <1>6 DEF EInv, AllSay
  <2> QED
    BY <1>1, <2>1, <2>2 DEF AllSay, Says, Over
<1>11. Whole'
  <2>1. ASSUME ~left, NEW k \in (1..sent) \ dropped
        PROVE  \/ \E i \in 1..Len(shown') : shown'[i].n = k
               \/ \E j \in 1..Len(channel') : channel'[j].n = k
    <3>1. /\ shown' = Append(shown, e)
          /\ Len(shown) + 1 \in 1..Len(shown')
          /\ \A i \in 1..Len(shown) : i \in 1..Len(shown')
      BY <1>0, <1>1, <1>3, <2>1
    <3>2. CASE \E i \in 1..Len(shown) : shown[i].n = k
      BY <1>3, <3>1, <3>2
    <3>3. ASSUME NEW j \in 1..Len(channel), channel[j].n = k
          PROVE  \/ \E i \in 1..Len(shown') : shown'[i].n = k
                 \/ \E m \in 1..Len(channel') : channel'[m].n = k
      <4>1. CASE j = 1
        BY <1>2, <1>3, <3>1, <3>3, <4>1
      <4>2. CASE j # 1
        <5>1. /\ j - 1 \in 1..Len(channel') /\ (j - 1) + 1 = j
              /\ j - 1 \in 1..(Len(channel) - 1)
          BY <1>0, <1>2, <4>2
        <5>2. channel'[j - 1] = channel[j]
          BY <1>2, <5>1
        <5> QED
          BY <3>3, <5>1, <5>2
      <4> QED
        BY <4>1, <4>2
    <3> QED
      BY <2>1, <3>2, <3>3 DEF EInv, Whole
  <2> QED
    BY <1>1, <2>1 DEF Whole
<1> QED
  BY <1>7, <1>8, <1>9, <1>10, <1>11 DEF EInv

LEMMA StreamSafe ==
  ASSUME E!StreamAssumption, EInv
  PROVE  StreamHolds
<1>0. /\ channel \in Seq(Event) /\ shown \in Seq(Event) /\ sent \in Nat
      /\ Len(shown) \in Nat /\ DOMAIN shown = 1..Len(shown)
  BY LenProperties DEF EInv, ETypes
<1>1. E!StreamTypeOK
  <2>1. sent \in 0..(MaxMessages + 2)
    BY <1>0 DEF EInv, Budget, E!StreamAssumption
  <2> QED
    BY <2>1 DEF EInv, ETypes, Event, E!StreamTypeOK, E!Kinds
<1>2. E!ShownIsStored
  BY <1>0 DEF EInv, InOrder, AllSay, Says, SaysOf, E!ShownIsStored
<1>3. ASSUME stream = "idle", sent > 0, ~left
      PROVE  /\ {shown[i].n : i \in DOMAIN shown} = (1..sent) \ dropped
             /\ \A i \in DOMAIN shown :
                  shown[i].kind = "done" => shown[i].n = sent
             /\ sent \notin dropped =>
                  shown[Len(shown)].kind \in {"error", "done"}
  <2>1. channel = <<>> /\ Len(channel) = 0
    BY <1>3, EmptySeq DEF EInv, ETypes
  <2>2. \A k \in (1..sent) \ dropped : \E i \in 1..Len(shown) : shown[i].n = k
    BY <1>3, <2>1 DEF EInv, Whole
  <2>3. \A i \in 1..Len(shown) : /\ shown[i].n \in (1..sent) \ dropped
                                 /\ Says(shown[i])
    BY Places DEF EInv, InOrder, AllSay, Event
  <2>4. {shown[i].n : i \in DOMAIN shown} = (1..sent) \ dropped
    BY <1>0, <2>2, <2>3
  <2>5. \A i \in DOMAIN shown : shown[i].kind = "done" => shown[i].n = sent
    BY <1>0, <2>3 DEF Says, SaysOf
  <2>6. ASSUME sent \notin dropped
        PROVE  shown[Len(shown)].kind \in {"error", "done"}
    <3>1. sent \in (1..sent) \ dropped
      BY <1>0, <1>3, <2>6
    <3>2. PICK i \in 1..Len(shown) : shown[i].n = sent
      BY <2>2, <3>1
    <3>3. i = Len(shown)
      <4>1. SUFFICES ASSUME i # Len(shown) PROVE FALSE
        OBVIOUS
      <4>2. i < Len(shown) /\ Len(shown) \in 1..Len(shown)
        <5> DEFINE len == Len(shown)
        <5>1. len \in Nat /\ i \in 1..len /\ i # len
          BY <1>0, <3>2, <4>1
        <5> HIDE DEF len
        <5>2. i < len /\ len \in 1..len
          BY <5>1
        <5> QED
          BY <5>2 DEF len
      <4>3. shown[i].n < shown[Len(shown)].n
        BY <4>2 DEF EInv, InOrder
      <4>4. shown[Len(shown)].n \in 1..sent
        BY <2>3, <4>2
      <4> QED
        BY <1>0, <3>2, <4>3, <4>4
    <3> QED
      BY <1>3, <2>3, <3>2, <3>3 DEF Says, SaysOf, Over
  <2> QED
    BY <2>4, <2>5, <2>6
<1> QED
  BY <1>1, <1>2, <1>3 DEF E!OutcomeShown, E!StreamHolds, StreamHolds

(* Whatever the pace of the client, wherever it goes away, and whatever    *)
(* messages cannot be stored: an answer, or the result of a tool that was  *)
(* carried out, is shown only if it is stored, and all events come in      *)
(* order; and a client that stays is shown every event that the channel    *)
(* had room for and, if that had room for the last one, how the run ended. *)
THEOREM StreamSafety ==
  ASSUME E!StreamAssumption
  PROVE  E!Spec => []StreamHolds
<1>1. E!Init => EInv
  BY StreamInit
<1>2. EInv /\ [E!Next]_E!vars => EInv'
  <2>1. ASSUME EInv, UNCHANGED E!vars PROVE EInv'
    BY <2>1 DEF E!vars, EInv, ETypes, Budget, InOrder, AllSay, Whole, Says,
                SaysOf, Over, Event, E!Kinds
  <2> QED
    BY <2>1, RunSteps, QuietSteps, WriteStep DEF E!Next, E!RunStep
<1>3. EInv => StreamHolds
  BY StreamSafe
<1> QED
  BY <1>1, <1>2, <1>3, PTL DEF E!Spec
=============================================================================
