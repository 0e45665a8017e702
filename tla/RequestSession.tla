--------------------------- MODULE RequestSession ---------------------------
(***************************************************************************)
(* The requests of the API and the pooled database connections they use.   *)
(*                                                                         *)
(* Row-level security reads two variables of the database session, the     *)
(* current user and the current tenant.  The tenant middleware sets them   *)
(* on the connection it takes from the pool, hands the connection to the   *)
(* handler, and resets them before it gives the connection back.  The      *)
(* handlers of /auth and /plans take connections from the same pool and    *)
(* set nothing.                                                            *)
(*                                                                         *)
(* A handler may stream the events of an agent run, a goroutine that uses  *)
(* the request's connection.  A tool of the run may call the same server,  *)
(* a request that needs a connection of its own while the run keeps one.   *)
(* SQL that itself assigns the two variables is left out.                  *)
(***************************************************************************)
EXTENDS Naturals

CONSTANTS
  Requests,  \* requests in progress at a time
  Conns,     \* the connections of the pool
  Users,
  Tenants,
  None

ASSUME PoolAssumption == None \notin Conns \union Users \union Tenants \union Requests

VARIABLES
  sess,    \* [Conns]: the database session of the connection
  pc,      \* [Requests]: where the request is
  who,     \* [Requests]: the user it comes from, None for /auth and /plans
  asked,   \* [Requests]: its X-Tenant-ID
  conn,    \* [Requests]: the connection it holds
  scope,   \* [Requests]: the tenant in its gin context
  run,     \* [Requests]: is its agent run going on
  caller   \* [Requests]: the request whose run waits for its answer

vars == <<sess, pc, who, asked, conn, scope, run, caller>>

Session == [user : Users \union {None}, tenant : Tenants \union {None},
            tx : {"none", "open", "failed"}, up : BOOLEAN]

Fresh == [user |-> None, tenant |-> None, tx |-> "none", up |-> TRUE]

(* Where a request holds a connection, and where it does not.              *)
Holding == {"setting", "checking", "entering", "handling", "streaming",
            "resetting", "clearing", "releasing"}
Phase == Holding \union {"idle", "acquiring"}

(* The types; a request that is at work holds a connection, which no other *)
(* request holds, and one that is not, has given it back.                  *)
TypeOK ==
  /\ sess \in [Conns -> Session]
  /\ pc \in [Requests -> Phase]
  /\ who \in [Requests -> Users \union {None}]
  /\ asked \in [Requests -> Tenants \union {None}]
  /\ conn \in [Requests -> Conns \union {None}]
  /\ scope \in [Requests -> Tenants \union {None}]
  /\ run \in [Requests -> BOOLEAN]
  /\ caller \in [Requests -> Requests \union {None}]
  /\ \A q \in Requests : conn[q] # None <=> pc[q] \in Holding
  /\ \A p, q \in Requests : conn[p] = conn[q] /\ conn[p] # None => p = q

Init ==
  /\ sess = [c \in Conns |-> Fresh]
  /\ pc = [q \in Requests |-> "idle"]
  /\ who = [q \in Requests |-> None]
  /\ asked = [q \in Requests |-> None]
  /\ conn = [q \in Requests |-> None]
  /\ scope = [q \in Requests |-> None]
  /\ run = [q \in Requests |-> FALSE]
  /\ caller = [q \in Requests |-> None]

Free(c) == \A q \in Requests : conn[q] # c

(* A statement on the request's connection can succeed.                    *)
Works(q) == sess[conn[q]].up /\ sess[conn[q]].tx # "failed"

Goto(q, phase) == pc' = [pc EXCEPT ![q] = phase]

-----------------------------------------------------------------------------
(* The middleware.                                                         *)

Arrive(q, u, t, from) ==
  /\ pc[q] = "idle"
  /\ who' = [who EXCEPT ![q] = u]
  /\ asked' = [asked EXCEPT ![q] = t]
  /\ caller' = [caller EXCEPT ![q] = from]
  /\ Goto(q, "acquiring")
  /\ UNCHANGED <<sess, conn, scope, run>>

Acquire(q, c) ==
  /\ pc[q] = "acquiring"
  /\ Free(c)
  /\ conn' = [conn EXCEPT ![q] = c]
  /\ Goto(q, IF who[q] = None THEN "handling" ELSE "setting")
  /\ UNCHANGED <<sess, who, asked, scope, run, caller>>

(* The client goes away before there is a connection for it.               *)
AcquireFails(q) ==
  /\ pc[q] = "acquiring"
  /\ caller' = [caller EXCEPT ![q] = None]
  /\ Goto(q, "idle")
  /\ UNCHANGED <<sess, who, asked, conn, scope, run>>

SetUser(q) ==
  /\ pc[q] = "setting"
  /\ Works(q)
  /\ sess' = [sess EXCEPT ![conn[q]].user = who[q]]
  /\ Goto(q, "checking")
  /\ UNCHANGED <<who, asked, conn, scope, run, caller>>

(* The reset is not deferred yet: this path has one of its own.            *)
SetUserFailsBroken(q) ==  \* the connection is not given back
  /\ pc[q] = "setting"
  /\ caller' = [caller EXCEPT ![q] = None]
  /\ Goto(q, "idle")
  /\ UNCHANGED <<sess, who, asked, conn, scope, run>>

SetUserFails(q) ==
  /\ pc[q] = "setting"
  /\ Goto(q, "resetting")
  /\ UNCHANGED <<sess, who, asked, conn, scope, run, caller>>

(* The user's role is read, and the tenant it asks for is looked up.  A    *)
(* tenant that it may not enter is ignored, not refused.                   *)
CheckUser(q, admitted) ==
  /\ pc[q] = "checking"
  /\ Works(q)
  /\ Goto(q, IF asked[q] # None /\ admitted THEN "entering" ELSE "handling")
  /\ UNCHANGED <<sess, who, asked, conn, scope, run, caller>>

EnterTenant(q) ==
  /\ pc[q] = "entering"
  /\ Works(q)
  /\ sess' = [sess EXCEPT ![conn[q]].tenant = asked[q]]
  /\ scope' = [scope EXCEPT ![q] = asked[q]]
  /\ Goto(q, "handling")
  /\ UNCHANGED <<who, asked, conn, run, caller>>

(* A lookup fails, the tenant is no uuid, or setting it fails.             *)
Abandon(q) ==
  /\ pc[q] \in {"checking", "entering"}
  /\ Goto(q, "resetting")
  /\ UNCHANGED <<sess, who, asked, conn, scope, run, caller>>

(* Both statements of the reset ignore their error.                        *)
ResetUser(q) ==
  /\ pc[q] = "resetting"
  /\ sess' = IF Works(q) THEN [sess EXCEPT ![conn[q]].user = None] ELSE sess
  /\ Goto(q, "clearing")
  /\ UNCHANGED <<who, asked, conn, scope, run, caller>>

ResetTenantBroken(q) ==  \* only the user is reset
  /\ pc[q] = "clearing"
  /\ Goto(q, "releasing")
  /\ UNCHANGED <<sess, who, asked, conn, scope, run, caller>>

ResetTenant(q) ==
  /\ pc[q] = "clearing"
  /\ sess' = IF Works(q) THEN [sess EXCEPT ![conn[q]].tenant = None] ELSE sess
  /\ Goto(q, "releasing")
  /\ UNCHANGED <<who, asked, conn, scope, run, caller>>

(* The pool replaces a connection that is closed or in a transaction.      *)
ReleaseBroken(q) ==  \* it only replaces those that are closed
  /\ pc[q] = "releasing"
  /\ sess' = [sess EXCEPT ![conn[q]] = IF @.up THEN [@ EXCEPT !.tx = "none"]
                                               ELSE Fresh]
  /\ conn' = [conn EXCEPT ![q] = None]
  /\ scope' = [scope EXCEPT ![q] = None]
  /\ caller' = [caller EXCEPT ![q] = None]
  /\ Goto(q, "idle")
  /\ UNCHANGED <<who, asked, run>>

Release(q) ==
  /\ pc[q] = "releasing"
  /\ sess' = [sess EXCEPT ![conn[q]] = IF @.up /\ @.tx = "none" THEN @ ELSE Fresh]
  /\ conn' = [conn EXCEPT ![q] = None]
  /\ scope' = [scope EXCEPT ![q] = None]
  /\ caller' = [caller EXCEPT ![q] = None]
  /\ Goto(q, "idle")
  /\ UNCHANGED <<who, asked, run>>

-----------------------------------------------------------------------------
(* The handlers.                                                           *)

(* The handler returns or panics.  Its own transactions are over: they are *)
(* rolled back by a deferred call, and a rollback that fails closes the    *)
(* connection.                                                             *)
Finish(q) ==
  /\ pc[q] = "handling"
  /\ Goto(q, IF who[q] = None THEN "releasing" ELSE "resetting")
  /\ UNCHANGED <<sess, who, asked, conn, scope, run, caller>>

StartRun(q) ==
  /\ pc[q] = "handling"
  /\ who[q] # None
  /\ run' = [run EXCEPT ![q] = TRUE]
  /\ Goto(q, "streaming")
  /\ UNCHANGED <<sess, who, asked, conn, scope, caller>>

Waiting(q) == \E p \in Requests : caller[p] = q

(* execute_sql runs a statement of the model's choice, BEGIN and a         *)
(* statement that fails in a transaction included.                         *)
ExecuteSQL(q, tx) ==
  /\ run[q]
  /\ ~Waiting(q)
  /\ sess[conn[q]].up
  /\ sess' = [sess EXCEPT ![conn[q]].tx = tx]
  /\ UNCHANGED <<pc, who, asked, conn, scope, run, caller>>

(* A project tool calls the server with the identity of the run.           *)
CallServer(q, p) ==
  /\ run[q]
  /\ ~Waiting(q)
  /\ Arrive(p, who[q], scope[q], q)

(* The client of the tool waits for 30 seconds; an answer in time ends the *)
(* wait when p ends.                                                       *)
ToolTimeoutBroken(q) ==  \* a client without a timeout
  /\ Waiting(q)
  /\ \A p \in Requests : caller[p] = q => pc[p] = "handling"
  /\ caller' = [p \in Requests |-> IF caller[p] = q THEN None ELSE caller[p]]
  /\ UNCHANGED <<sess, pc, who, asked, conn, scope, run>>

ToolTimeout(q) ==
  /\ Waiting(q)
  /\ caller' = [p \in Requests |-> IF caller[p] = q THEN None ELSE caller[p]]
  /\ UNCHANGED <<sess, pc, who, asked, conn, scope, run>>

EndRun(q) ==
  /\ run[q]
  /\ ~Waiting(q)
  /\ run' = [run EXCEPT ![q] = FALSE]
  /\ UNCHANGED <<sess, pc, who, asked, conn, scope, caller>>

(* The handler reads events until the run closes the channel, whether or   *)
(* not there is still a client to send them to.                            *)
CloseStreamBroken(q) ==  \* returns when the client has gone
  /\ pc[q] = "streaming"
  /\ Goto(q, "resetting")
  /\ UNCHANGED <<sess, who, asked, conn, scope, run, caller>>

CloseStream(q) ==
  /\ pc[q] = "streaming"
  /\ ~run[q]
  /\ Goto(q, "resetting")
  /\ UNCHANGED <<sess, who, asked, conn, scope, run, caller>>

(* A connection in use breaks, or is closed because a context is cancelled *)
(* while a statement runs.                                                 *)
Break(c) ==
  /\ ~Free(c)
  /\ sess[c].up
  /\ sess' = [sess EXCEPT ![c].up = FALSE]
  /\ UNCHANGED <<pc, who, asked, conn, scope, run, caller>>

-----------------------------------------------------------------------------
Middleware(q) ==
  \/ SetUser(q) \/ SetUserFails(q)
  \/ (\E admitted \in BOOLEAN : CheckUser(q, admitted))
  \/ EnterTenant(q) \/ Abandon(q)
  \/ ResetUser(q) \/ ResetTenant(q) \/ Release(q)

Handler(q) == Finish(q) \/ CloseStream(q)

Next ==
  \/ \E q \in Requests :
       \/ \E u \in Users \union {None}, t \in Tenants \union {None} :
            Arrive(q, u, t, None)
       \/ \E c \in Conns : Acquire(q, c)
       \/ AcquireFails(q)
       \/ Middleware(q)
       \/ Handler(q)
       \/ StartRun(q)
       \/ \E tx \in {"none", "open", "failed"} : ExecuteSQL(q, tx)
       \/ \E p \in Requests : CallServer(q, p)
       \/ ToolTimeout(q)
       \/ EndRun(q)
  \/ \E c \in Conns : Break(c)

Spec == Init /\ [][Next]_vars

(* Requests and runs proceed; the pool serves those who wait in turn; the  *)
(* tool's client has a timeout; and a run does not call tools forever: it  *)
(* has an iteration budget.                                                *)
Fairness ==
  \A q \in Requests :
    /\ SF_vars(\E c \in Conns : Acquire(q, c))
    /\ WF_vars(Middleware(q))
    /\ WF_vars(Handler(q))
    /\ WF_vars(ToolTimeout(q))
    /\ SF_vars(EndRun(q))

FairSpec == Spec /\ Fairness

-----------------------------------------------------------------------------
(* A handler's database session is its own: it has the user the request    *)
(* comes from and the tenant in its gin context, and nothing of an earlier *)
(* request on the connection, however that one ended.                      *)
OwnSession ==
  \A q \in Requests :
    pc[q] \in {"handling", "streaming"} =>
      /\ sess[conn[q]].user = who[q]
      /\ sess[conn[q]].tenant = scope[q]

(* A connection in the pool belongs to nobody: no variable, no transaction *)
(* and no broken session is left on it.                                    *)
PoolClean ==
  \A c \in Conns : Free(c) => sess[c] = Fresh

(* An agent run never uses a connection that its request has given back.   *)
RunOwnsConnection ==
  \A q \in Requests :
    run[q] => conn[q] # None /\ sess[conn[q]].user = who[q]

(* Every request is answered and gives its connection back, also when runs *)
(* that hold all connections call the server and wait for one more.        *)
EveryRequestServed ==
  \A q \in Requests : (pc[q] # "idle") ~> (pc[q] = "idle")
=============================================================================
