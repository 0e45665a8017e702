------------------------- MODULE EmailVerification -------------------------
(***************************************************************************)
(* Registration and e-mail verification of one address: the handlers       *)
(* register, resendVerification and verifyEmail, run concurrently as       *)
(* database transactions and killed at any point.  Addresses share no row, *)
(* so one of them is enough.                                               *)
(*                                                                         *)
(* A step is a statement that may wait for a row lock.  What a transaction *)
(* has written shows only in the locks it holds and in where it is, until  *)
(* it commits.  PostgreSQL breaks a cycle of waits by aborting one of the  *)
(* transactions in it.                                                     *)
(***************************************************************************)
EXTENDS Naturals

CONSTANTS
  Requests,   \* calls of register and resendVerification, each a fresh token
  Verifiers,  \* concurrent calls of verifyEmail
  None

ASSUME EmailAssumption ==
  /\ Requests \intersect Verifiers = {}
  /\ None \notin Requests \union Verifiers

VARIABLES
  user,      \* the row of users: "none", "unverified" or "verified"
  password,  \* the request whose password it holds
  row,       \* [Requests]: the row of email_verifications with its token
  issued,    \* [Requests]: password in force when the token was committed
  proof,     \* the token that verified the address
  mailed,    \* tokens that were mailed
  ulock,     \* the transaction that holds the row of users
  tlock,     \* [Requests]: the transaction that holds the row of the token
  kind,      \* [Requests]: "register" or "resend"
  using,     \* [Verifiers]: the token of the link
  pc         \* [Requests \union Verifiers]

committed == <<user, password, row, issued, proof>>
locks == <<ulock, tlock>>
vars == <<committed, locks, mailed, kind, using, pc>>

Writers == Requests \union Verifiers

(* Where a handler is: with its transaction open, or not.                  *)
Open == {"selecting", "creating", "updating", "clearing", "verifying", "committing"}
Phase == Open \union {"idle", "mailing", "ended"}

(* The types of the variables; a row is held by an open transaction only.  *)
TypeOK ==
  /\ user \in {"none", "unverified", "verified"}
  /\ password \in Requests \union {None}
  /\ row \in [Requests -> {"absent", "live", "dead"}]
  /\ issued \in [Requests -> Requests \union {None}]
  /\ proof \in Requests \union {None}
  /\ mailed \subseteq Requests
  /\ ulock \in Writers \union {None}
  /\ tlock \in [Requests -> Writers \union {None}]
  /\ kind \in [Requests -> {"register", "resend"}]
  /\ using \in [Verifiers -> Requests \union {None}]
  /\ pc \in [Writers -> Phase]
  /\ ulock # None => pc[ulock] \in Open
  /\ \A t \in Requests : tlock[t] # None => pc[tlock[t]] \in Open

Init ==
  /\ user = "none"
  /\ password = None
  /\ row = [t \in Requests |-> "absent"]
  /\ issued = [t \in Requests |-> None]
  /\ proof = None
  /\ mailed = {}
  /\ ulock = None
  /\ tlock = [t \in Requests |-> None]
  /\ kind = [t \in Requests |-> "register"]
  /\ using = [v \in Verifiers |-> None]
  /\ pc = [w \in Writers |-> "idle"]

Goto(w, phase) == pc' = [pc EXCEPT ![w] = phase]

(* The end of w's transaction frees the rows it holds.                     *)
Unlock(w) ==
  /\ ulock' = IF ulock = w THEN None ELSE ulock
  /\ tlock' = [t \in Requests |-> IF tlock[t] = w THEN None ELSE tlock[t]]

(* A handler that has answered: a verifier may be called again.            *)
Over(w) == IF w \in Verifiers THEN "idle" ELSE "ended"

(* The deferred Rollback, which undoes whatever has not been committed.    *)
RollbackBroken(w) ==  \* Rollback is not deferred: the rows stay locked
  /\ Goto(w, Over(w))
  /\ UNCHANGED <<committed, locks, mailed, kind, using>>

Rollback(w) ==
  /\ Goto(w, Over(w))
  /\ Unlock(w)
  /\ UNCHANGED <<committed, mailed, kind, using>>

-----------------------------------------------------------------------------
(* register and resendVerification                                         *)

Receive(r, k) ==
  /\ pc[r] = "idle"
  /\ kind' = [kind EXCEPT ![r] = k]
  /\ Goto(r, "selecting")
  /\ UNCHANGED <<committed, locks, mailed, using>>

(* SELECT ... FOR UPDATE waits for the row and then sees it as it is.      *)
SelectUserBroken(r) ==  \* FOR UPDATE is dropped
  /\ pc[r] = "selecting"
  /\ user = "unverified"
  /\ Goto(r, IF kind[r] = "register" THEN "updating" ELSE "clearing")
  /\ UNCHANGED <<committed, locks, mailed, kind, using>>

SelectUser(r) ==
  /\ pc[r] = "selecting"
  /\ user = "unverified"
  /\ ulock = None
  /\ ulock' = r
  /\ Goto(r, IF kind[r] = "register" THEN "updating" ELSE "clearing")
  /\ UNCHANGED <<committed, tlock, mailed, kind, using>>

(* There is no such row: register will create it.                          *)
SelectNoUser(r) ==
  /\ pc[r] = "selecting"
  /\ user = "none"
  /\ kind[r] = "register"
  /\ Goto(r, "creating")
  /\ UNCHANGED <<committed, locks, mailed, kind, using>>

(* An address that is verified, or unknown to resendVerification.          *)
Reject(r) ==
  /\ pc[r] = "selecting"
  /\ \/ user = "verified" /\ ulock = None
     \/ user = "none" /\ kind[r] = "resend"
  /\ Rollback(r)

(* The unique address makes an insertion wait for another and then fail if *)
(* that was committed.                                                     *)
CreateUser(r) ==
  /\ pc[r] = "creating"
  /\ user = "none"
  /\ ulock = None
  /\ ulock' = r
  /\ Goto(r, "clearing")
  /\ UNCHANGED <<committed, tlock, mailed, kind, using>>

CreateConflicts(r) ==
  /\ pc[r] = "creating"
  /\ user # "none"
  /\ ulock = None
  /\ Rollback(r)

UpdatePassword(r) ==
  /\ pc[r] = "updating"
  /\ ulock \in {None, r}
  /\ ulock' = r
  /\ Goto(r, "clearing")
  /\ UNCHANGED <<committed, tlock, mailed, kind, using>>

(* DELETE waits for the tokens that a verifier holds, whatever their age.  *)
(* INSERT of the new token waits for nobody.                               *)
ClearTokensBroken(r) ==  \* register keeps the tokens it finds
  /\ pc[r] = "clearing"
  /\ Goto(r, "committing")
  /\ UNCHANGED <<committed, locks, mailed, kind, using>>

ClearTokens(r) ==
  /\ pc[r] = "clearing"
  /\ \A t \in Requests : row[t] # "absent" => tlock[t] \in {None, r}
  /\ tlock' = [t \in Requests |-> IF row[t] # "absent" THEN r ELSE tlock[t]]
  /\ Goto(r, "committing")
  /\ UNCHANGED <<committed, ulock, mailed, kind, using>>

(* The rows of the tokens that r holds are the ones it has deleted.        *)
CommitToken(r) ==
  /\ r \in Requests
  /\ pc[r] = "committing"
  /\ user' = IF user = "none" THEN "unverified" ELSE user
  /\ password' = IF kind[r] = "register" THEN r ELSE password
  /\ row' = [t \in Requests |-> IF t = r THEN "live"
                              ELSE IF tlock[t] = r THEN "absent" ELSE row[t]]
  /\ issued' = [issued EXCEPT ![r] = password']
  /\ Unlock(r)
  /\ Goto(r, "mailing")
  /\ UNCHANGED <<proof, mailed, kind, using>>

(* The mail is sent after the commit; it may fail, or there is no service. *)
Mail(r) ==
  /\ pc[r] = "mailing"
  /\ mailed' = mailed \union {r}
  /\ Goto(r, "ended")
  /\ UNCHANGED <<committed, locks, kind, using>>

MailFails(r) ==
  /\ pc[r] = "mailing"
  /\ Goto(r, "ended")
  /\ UNCHANGED <<committed, locks, mailed, kind, using>>

-----------------------------------------------------------------------------
(* verifyEmail                                                             *)

FollowLink(v, t) ==
  /\ pc[v] = "idle"
  /\ t \in mailed
  /\ using' = [using EXCEPT ![v] = t]
  /\ Goto(v, "selecting")
  /\ UNCHANGED <<committed, locks, mailed, kind>>

(* SELECT ... FOR UPDATE of the token, unused and not expired.             *)
SelectToken(v) ==
  /\ pc[v] = "selecting"
  /\ row[using[v]] = "live"
  /\ tlock[using[v]] = None
  /\ tlock' = [tlock EXCEPT ![using[v]] = v]
  /\ Goto(v, "verifying")
  /\ UNCHANGED <<committed, ulock, mailed, kind, using>>

RefuseToken(v) ==
  /\ pc[v] = "selecting"
  /\ row[using[v]] # "live"
  /\ Rollback(v)

(* The token is marked as used; the update of users may have to wait.      *)
VerifyUser(v) ==
  /\ pc[v] = "verifying"
  /\ ulock = None
  /\ ulock' = v
  /\ Goto(v, "committing")
  /\ UNCHANGED <<committed, tlock, mailed, kind, using>>

CommitVerifiedBroken(v) ==  \* the token is not marked as used
  /\ v \in Verifiers
  /\ pc[v] = "committing"
  /\ user' = "verified"
  /\ proof' = using[v]
  /\ Unlock(v)
  /\ Goto(v, "idle")
  /\ UNCHANGED <<password, row, issued, mailed, kind, using>>

CommitVerified(v) ==
  /\ v \in Verifiers
  /\ pc[v] = "committing"
  /\ user' = "verified"
  /\ row' = [row EXCEPT ![using[v]] = "dead"]
  /\ proof' = using[v]
  /\ Unlock(v)
  /\ Goto(v, "idle")
  /\ UNCHANGED <<password, issued, mailed, kind, using>>

-----------------------------------------------------------------------------
(* The environment.                                                        *)

(* 24 hours go by.                                                         *)
Expire(t) ==
  /\ row[t] = "live"
  /\ row' = [row EXCEPT ![t] = "dead"]
  /\ UNCHANGED <<user, password, issued, proof, locks, mailed, kind, using, pc>>

(* A statement fails, the client disconnects or the server dies.           *)
Fail(w) ==
  /\ pc[w] \in Open
  /\ Rollback(w)

(* r waits for the token that v holds, and v for the row of users r holds. *)
Deadlocked(r, v) ==
  /\ pc[r] = "clearing"
  /\ pc[v] = "verifying"
  /\ ulock = r
  /\ tlock[using[v]] = v

Abort(r, v) ==
  /\ Deadlocked(r, v)
  /\ Rollback(r) \/ Rollback(v)

Ask(r) == \E k \in {"register", "resend"} : Receive(r, k)

RequestStep(r) ==
  \/ SelectUser(r) \/ SelectNoUser(r) \/ Reject(r)
  \/ CreateUser(r) \/ CreateConflicts(r) \/ UpdatePassword(r)
  \/ ClearTokens(r) \/ CommitToken(r) \/ Mail(r) \/ MailFails(r)

VerifierStep(v) ==
  \/ SelectToken(v) \/ RefuseToken(v) \/ VerifyUser(v) \/ CommitVerified(v)

Next ==
  \/ \E r \in Requests : Ask(r) \/ RequestStep(r) \/ Expire(r)
  \/ \E v \in Verifiers : (\E t \in Requests : FollowLink(v, t)) \/ VerifierStep(v)
  \/ \E w \in Writers : Fail(w)
  \/ \E r \in Requests, v \in Verifiers : Abort(r, v)

Spec == Init /\ [][Next]_vars

(* Handlers run; whoever waits for a row is queued for it by PostgreSQL    *)
(* and gets it if it is freed again and again; deadlocks are detected.     *)
Fairness ==
  /\ \A r \in Requests : SF_vars(RequestStep(r))
  /\ \A v \in Verifiers : SF_vars(VerifierStep(v))
  /\ \A r \in Requests, v \in Verifiers : WF_vars(Abort(r, v))

FairSpec == Spec /\ Fairness

-----------------------------------------------------------------------------
(* No two links work at a time, and none for an address that is verified   *)
(* already: every new token has taken the place of the ones before it.     *)
OneLiveToken ==
  /\ \A t, u \in Requests : row[t] = "live" /\ row[u] = "live" => t = u
  /\ user = "verified" => \A t \in Requests : row[t] # "live"

(* The password of a verified account is the one that was in force when    *)
(* the mail that proved the address was written, however registrations,    *)
(* resent mails and verifications overlap.                                 *)
ProvenPassword ==
  user = "verified" => proof # None /\ issued[proof] = password

(* Registration leaves a verified account as it is: no late commit of a    *)
(* registration that began before changes it or its password.              *)
AccountStands ==
  [][user = "verified" => user' = user /\ password' = password]_<<user, password>>

(* Every call is answered, also when calls wait for each other in a circle *)
(* or die halfway.                                                         *)
EveryCallAnswered ==
  /\ \A r \in Requests : (pc[r] = "selecting") ~> (pc[r] = "ended")
  /\ \A v \in Verifiers : (pc[v] = "selecting") ~> (pc[v] = "idle")
=============================================================================
