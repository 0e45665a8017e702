---------------------- MODULE EmailVerification_proofs ----------------------
(***************************************************************************)
(* Proofs, for any number of registrations, resent mails and verifications *)
(* of an address, of the safety properties of EmailVerification.           *)
(***************************************************************************)
EXTENDS EmailVerification, TLAPS

-----------------------------------------------------------------------------
(* The inductive invariant.                                                *)

(* A request that writes holds the row of users, which is not verified; a  *)
(* request that is about to commit holds every token there is.             *)
Requesting ==
  \A r \in Requests :
    /\ pc[r] # "verifying"
    /\ pc[r] = "creating" => kind[r] = "register"
    /\ pc[r] = "updating" => ulock = r /\ user = "unverified"
    /\ pc[r] \in {"clearing", "committing"} =>
         /\ ulock = r
         /\ user # "verified"
         /\ kind[r] = "resend" => user = "unverified"
    /\ pc[r] = "committing" =>
         \A t \in Requests : row[t] # "absent" => tlock[t] = r

(* A verifier holds its token, which is then not replaced, so the password *)
(* is still the one the token was issued for.                              *)
Verifying ==
  \A v \in Verifiers :
    /\ pc[v] \in {"idle", "selecting", "verifying", "committing"}
    /\ pc[v] # "idle" => using[v] \in Requests
    /\ pc[v] \in {"verifying", "committing"} =>
         /\ tlock[using[v]] = v
         /\ row[using[v]] # "absent"
         /\ user = "unverified"
         /\ issued[using[v]] = password
    /\ pc[v] = "committing" => ulock = v

(* There is one token at a time, and it matches the account.               *)
Tokens ==
  /\ \A t, u \in Requests : row[t] # "absent" /\ row[u] # "absent" => t = u
  /\ \A t \in Requests :
       /\ row[t] = "live" => user = "unverified" /\ issued[t] = password
       /\ row[t] # "absent" => user # "none"

Inv == TypeOK /\ Requesting /\ Verifying /\ Tokens /\ ProvenPassword

USE EmailAssumption

-----------------------------------------------------------------------------
(* The start, where nothing is registered.                                 *)
LEMMA InitInv == Init => Inv
  BY DEF Init, Inv, TypeOK, Requesting, Verifying, Tokens, ProvenPassword,
         Writers, Phase, Open

(* Whoever rolls back leaves only its own locks and place.                 *)
LEMMA RollbackInv ==
  ASSUME Inv, NEW w \in Writers, pc[w] \in Open, Rollback(w)
  PROVE  Inv'
<1> USE DEF Rollback, Goto, Over, Unlock, committed
<1>1. TypeOK'
  BY DEF Inv, TypeOK, Writers, Phase, Open
<1>2. Requesting'
  BY DEF Inv, TypeOK, Requesting, Writers, Open
<1>3. Verifying'
  BY DEF Inv, TypeOK, Verifying, Writers, Open
<1>4. Tokens' /\ ProvenPassword'
  BY DEF Inv, Tokens, ProvenPassword
<1> QED
  BY <1>1, <1>2, <1>3, <1>4 DEF Inv

-----------------------------------------------------------------------------
(* A step of register or resendVerification.                               *)
LEMMA RequestInv ==
  ASSUME Inv, NEW r \in Requests, Ask(r) \/ RequestStep(r)
  PROVE  Inv'
<1> USE DEF Goto, committed, locks
<1>0. r \in Writers /\ TypeOK /\ Requesting /\ Verifying /\ Tokens /\ ProvenPassword
  BY DEF Inv, Writers
<1>1. CASE Ask(r)
  <2> USE <1>0, <1>1 DEF Ask, Receive
  <2>1. TypeOK'
    BY DEF TypeOK, Writers, Phase, Open
  <2>2. Requesting' /\ Verifying'
    BY DEF TypeOK, Requesting, Verifying, Writers
  <2>3. Tokens' /\ ProvenPassword'
    BY DEF Tokens, ProvenPassword
  <2> QED
    BY <2>1, <2>2, <2>3 DEF Inv
<1>2. CASE SelectUser(r)
  <2> USE <1>0, <1>2 DEF SelectUser
  <2>1. TypeOK'
    BY DEF TypeOK, Writers, Phase, Open
  <2>2. Requesting'
    BY DEF TypeOK, Requesting, Writers
  <2>3. Verifying'
    BY DEF TypeOK, Verifying, Writers
  <2>4. Tokens' /\ ProvenPassword'
    BY DEF Tokens, ProvenPassword
  <2> QED
    BY <2>1, <2>2, <2>3, <2>4 DEF Inv
<1>3. CASE SelectNoUser(r)
  <2> USE <1>0, <1>3 DEF SelectNoUser
  <2>1. TypeOK'
    BY DEF TypeOK, Writers, Phase, Open
  <2>2. Requesting' /\ Verifying'
    BY DEF TypeOK, Requesting, Verifying, Writers
  <2>3. Tokens' /\ ProvenPassword'
    BY DEF Tokens, ProvenPassword
  <2> QED
    BY <2>1, <2>2, <2>3 DEF Inv
<1>4. CASE Reject(r) \/ CreateConflicts(r)
  BY <1>0, <1>4, RollbackInv DEF Reject, CreateConflicts, Open
<1>5. CASE CreateUser(r)
  <2> USE <1>0, <1>5 DEF CreateUser
  <2>1. TypeOK'
    BY DEF TypeOK, Writers, Phase, Open
  <2>2. Requesting'
    BY DEF TypeOK, Requesting, Writers
  <2>3. Verifying'
    BY DEF TypeOK, Verifying, Writers
  <2>4. Tokens' /\ ProvenPassword'
    BY DEF Tokens, ProvenPassword
  <2> QED
    BY <2>1, <2>2, <2>3, <2>4 DEF Inv
<1>6. CASE UpdatePassword(r)
  <2> USE <1>0, <1>6 DEF UpdatePassword
  <2>1. TypeOK'
    BY DEF TypeOK, Writers, Phase, Open
  <2>2. Requesting'
    BY DEF TypeOK, Requesting, Writers
  <2>3. Verifying'
    BY DEF TypeOK, Requesting, Verifying, Writers
  <2>4. Tokens' /\ ProvenPassword'
    BY DEF Tokens, ProvenPassword
  <2> QED
    BY <2>1, <2>2, <2>3, <2>4 DEF Inv
<1>7. CASE ClearTokens(r)
  <2> USE <1>0, <1>7 DEF ClearTokens
  <2>1. TypeOK'
    BY DEF TypeOK, Writers, Phase, Open
  <2>2. Requesting'
    BY DEF TypeOK, Requesting, Writers
  <2>3. Verifying'
    BY DEF TypeOK, Verifying, Writers
  <2>4. Tokens' /\ ProvenPassword'
    BY DEF Tokens, ProvenPassword
  <2> QED
    BY <2>1, <2>2, <2>3, <2>4 DEF Inv
<1>8. CASE CommitToken(r)
  <2> USE <1>0, <1>8 DEF CommitToken, Unlock
  <2>1. user' = "unverified" /\ user # "verified"
    BY DEF TypeOK, Requesting
  <2>2. \A t \in Requests : row'[t] = IF t = r THEN "live" ELSE "absent"
    BY DEF TypeOK, Requesting
  <2>3. TypeOK'
    BY DEF TypeOK, Requesting, Writers, Phase, Open
  <2>4. Requesting'
    BY <2>1 DEF TypeOK, Requesting, Writers
  <2>5. Verifying'
    <3>1. \A v \in Verifiers : pc[v] \notin {"verifying", "committing"}
      BY DEF Requesting, Verifying, TypeOK
    <3> QED
      BY <3>1 DEF TypeOK, Verifying, Writers
  <2>6. Tokens' /\ ProvenPassword'
    BY <2>1, <2>2 DEF TypeOK, Tokens, ProvenPassword
  <2> QED
    BY <2>3, <2>4, <2>5, <2>6 DEF Inv
<1>9. CASE Mail(r) \/ MailFails(r)
  <2> USE <1>0, <1>9 DEF Mail, MailFails
  <2>1. TypeOK'
    BY DEF TypeOK, Writers, Phase, Open
  <2>2. Requesting' /\ Verifying'
    BY DEF TypeOK, Requesting, Verifying, Writers
  <2>3. Tokens' /\ ProvenPassword'
    BY DEF Tokens, ProvenPassword
  <2> QED
    BY <2>1, <2>2, <2>3 DEF Inv
<1> QED
  BY <1>1, <1>2, <1>3, <1>4, <1>5, <1>6, <1>7, <1>8, <1>9 DEF RequestStep

-----------------------------------------------------------------------------
(* A step of verifyEmail.                                                  *)
LEMMA VerifierInv ==
  ASSUME Inv, NEW v \in Verifiers,
         (\E t \in Requests : FollowLink(v, t)) \/ VerifierStep(v)
  PROVE  Inv'
<1> USE DEF Goto, committed, locks
<1>0. v \in Writers /\ TypeOK /\ Requesting /\ Verifying /\ Tokens /\ ProvenPassword
  BY DEF Inv, Writers
<1>1. CASE \E t \in Requests : FollowLink(v, t)
  <2> USE <1>0, <1>1 DEF FollowLink
  <2>1. TypeOK'
    BY DEF TypeOK, Writers, Phase, Open
  <2>2. Requesting' /\ Verifying'
    BY DEF TypeOK, Requesting, Verifying, Writers
  <2>3. Tokens' /\ ProvenPassword'
    BY DEF Tokens, ProvenPassword
  <2> QED
    BY <2>1, <2>2, <2>3 DEF Inv
<1>2. CASE SelectToken(v)
  <2> USE <1>0, <1>2 DEF SelectToken
  <2>1. TypeOK'
    BY DEF TypeOK, Verifying, Writers, Phase, Open
  <2>2. Requesting'
    BY DEF TypeOK, Requesting, Writers
  <2>3. Verifying'
    BY DEF TypeOK, Verifying, Tokens, Writers
  <2>4. Tokens' /\ ProvenPassword'
    BY DEF Tokens, ProvenPassword
  <2> QED
    BY <2>1, <2>2, <2>3, <2>4 DEF Inv
<1>3. CASE RefuseToken(v)
  BY <1>0, <1>3, RollbackInv DEF RefuseToken, Open
<1>4. CASE VerifyUser(v)
  <2> USE <1>0, <1>4 DEF VerifyUser
  <2>1. TypeOK'
    BY DEF TypeOK, Writers, Phase, Open
  <2>2. Requesting'
    BY DEF TypeOK, Requesting, Writers
  <2>3. Verifying'
    BY DEF TypeOK, Verifying, Writers
  <2>4. Tokens' /\ ProvenPassword'
    BY DEF Tokens, ProvenPassword
  <2> QED
    BY <2>1, <2>2, <2>3, <2>4 DEF Inv
<1>5. CASE CommitVerified(v)
  <2> USE <1>0, <1>5 DEF CommitVerified, Unlock
  <2>1. TypeOK'
    BY DEF TypeOK, Verifying, Writers, Phase, Open
  <2>2. Requesting'
    <3>1. \A r \in Requests : pc[r] \notin {"updating", "clearing", "committing"}
      BY DEF TypeOK, Requesting, Verifying
    <3> QED
      BY <3>1 DEF TypeOK, Requesting, Writers
  <2>3. Verifying'
    <3>1. \A u \in Verifiers \ {v} : pc[u] \notin {"verifying", "committing"}
      BY DEF TypeOK, Verifying, Tokens
    <3> QED
      BY <3>1 DEF TypeOK, Verifying, Writers
  <2>4. Tokens'
    BY DEF TypeOK, Verifying, Tokens
  <2>5. ProvenPassword'
    BY DEF Verifying, ProvenPassword
  <2> QED
    BY <2>1, <2>2, <2>3, <2>4, <2>5 DEF Inv
<1> QED
  BY <1>1, <1>2, <1>3, <1>4, <1>5 DEF VerifierStep

-----------------------------------------------------------------------------
(* A token grows too old to be used.                                       *)
LEMMA ExpireInv ==
  ASSUME Inv, NEW t \in Requests, Expire(t)
  PROVE  Inv'
<1> USE DEF Expire, locks, Inv
<1>1. TypeOK'
  BY DEF TypeOK
<1>2. Requesting' /\ Verifying'
  BY DEF TypeOK, Requesting, Verifying
<1>3. Tokens' /\ ProvenPassword'
  BY DEF TypeOK, Tokens, ProvenPassword
<1> QED
  BY <1>1, <1>2, <1>3

(* Every step preserves the invariant.                                     *)
LEMMA NextInv == Inv /\ [Next]_vars => Inv'
<1> SUFFICES ASSUME Inv, [Next]_vars PROVE Inv'
  OBVIOUS
<1>1. CASE \E r \in Requests : Ask(r) \/ RequestStep(r) \/ Expire(r)
  BY <1>1, RequestInv, ExpireInv
<1>2. CASE \E v \in Verifiers : (\E t \in Requests : FollowLink(v, t)) \/ VerifierStep(v)
  BY <1>2, VerifierInv
<1>3. CASE \E w \in Writers : Fail(w)
  BY <1>3, RollbackInv DEF Fail
<1>4. CASE \E r \in Requests, v \in Verifiers : Abort(r, v)
  BY <1>4, RollbackInv DEF Abort, Deadlocked, Open, Writers
<1>5. CASE UNCHANGED vars
  BY <1>5 DEF vars, committed, locks, Inv, TypeOK, Requesting, Verifying,
              Tokens, ProvenPassword
<1> QED
  BY <1>1, <1>2, <1>3, <1>4, <1>5 DEF Next

(* The inductive invariant holds in every reachable state.                 *)
THEOREM Invariance == Spec => []Inv
  BY InitInv, NextInv, PTL DEF Spec

(* Every variable keeps its type, and no row stays locked by a transaction *)
(* that is over, whichever way a handler ends.                             *)
THEOREM TypeCorrect == Spec => []TypeOK
<1>1. Inv => TypeOK
  BY DEF Inv
<1> QED
  BY <1>1, Invariance, PTL

(* At most one mailed link works, and none once the address is verified.   *)
THEOREM OneLiveTokenHolds == Spec => []OneLiveToken
<1>1. Inv => OneLiveToken
  BY DEF Inv, TypeOK, Tokens, OneLiveToken
<1> QED
  BY <1>1, Invariance, PTL

(* A verified account has the password that its proof was mailed for.      *)
THEOREM ProvenPasswordHolds == Spec => []ProvenPassword
<1>1. Inv => ProvenPassword
  BY DEF Inv
<1> QED
  BY <1>1, Invariance, PTL

(* No step of any handler changes an account that is verified.             *)
THEOREM AccountStandsHolds == Spec => AccountStands
<1>1. Inv /\ [Next]_vars =>
        [user = "verified" => user' = user /\ password' = password]_<<user, password>>
  <2> SUFFICES ASSUME Inv, Next, user = "verified"
               PROVE  user' = user /\ password' = password
    BY DEF vars, committed
  <2>1. \A r \in Requests : ~CommitToken(r)
    BY DEF Inv, Requesting, CommitToken
  <2>2. \A v \in Verifiers : CommitVerified(v) => user' = user /\ password' = password
    BY DEF CommitVerified
  <2> QED
    BY <2>1, <2>2
    DEF Next, Ask, RequestStep, VerifierStep, Receive, SelectUser, SelectNoUser,
        Reject, CreateUser, CreateConflicts, UpdatePassword, ClearTokens, Mail,
        MailFails, FollowLink, SelectToken, RefuseToken, VerifyUser, Expire,
        Fail, Abort, Rollback, committed
<1> QED
  BY <1>1, Invariance, PTL DEF Spec, AccountStands

-----------------------------------------------------------------------------
(* Who waits for whom.  A token is held by a verifier that has found it or *)
(* by a request about to commit; the row of users by a request that has    *)
(* selected it or by a verifier about to commit.                           *)
HoldsToken(w, t) ==
  \/ w \in Requests /\ pc[w] = "committing"
  \/ w \in Verifiers /\ pc[w] \in {"verifying", "committing"} /\ using[w] = t

HoldsUser(w) ==
  \/ w \in Requests /\ pc[w] \in {"updating", "clearing", "committing"}
  \/ w \in Verifiers /\ pc[w] = "committing"

Holding ==
  /\ ulock # None => HoldsUser(ulock)
  /\ \A t \in Requests : tlock[t] # None => HoldsToken(tlock[t], t)

LEMMA HoldingInit == Init => Holding
  BY DEF Init, Holding

LEMMA HoldingRollback ==
  ASSUME Inv, Holding, NEW w \in Writers, Rollback(w)
  PROVE  Holding'
  BY DEF Inv, TypeOK, Writers, Holding, HoldsToken, HoldsUser, Rollback, Goto, Unlock

LEMMA HoldingRequest ==
  ASSUME Inv, Holding, NEW r \in Requests, Ask(r) \/ RequestStep(r)
  PROVE  Holding'
<1> USE DEF Goto, committed, locks
<1>0. r \in Writers /\ TypeOK /\ Holding /\ r \notin Verifiers
  BY DEF Inv, Writers
<1> USE <1>0 DEF TypeOK, Writers, Holding, HoldsToken, HoldsUser
<1>1. CASE Ask(r)
  BY <1>1 DEF Ask, Receive
<1>2. CASE SelectUser(r)
  BY <1>2 DEF SelectUser
<1>3. CASE SelectNoUser(r)
  BY <1>3 DEF SelectNoUser
<1>4. CASE Reject(r) \/ CreateConflicts(r)
  BY <1>4, HoldingRollback DEF Reject, CreateConflicts
<1>5. CASE CreateUser(r)
  BY <1>5 DEF CreateUser
<1>6. CASE UpdatePassword(r)
  BY <1>6 DEF UpdatePassword
<1>7. CASE ClearTokens(r)
  BY <1>7 DEF ClearTokens
<1>8. CASE CommitToken(r)
  BY <1>8 DEF CommitToken, Unlock
<1>9. CASE Mail(r) \/ MailFails(r)
  BY <1>9 DEF Mail, MailFails
<1> QED
  BY <1>1, <1>2, <1>3, <1>4, <1>5, <1>6, <1>7, <1>8, <1>9 DEF RequestStep

LEMMA HoldingVerifier ==
  ASSUME Inv, Holding, NEW v \in Verifiers,
         VerifierStep(v) \/ \E t \in Requests : FollowLink(v, t)
  PROVE  Holding'
<1> USE DEF Goto, committed, locks
<1>0. v \in Writers /\ TypeOK /\ Holding /\ v \notin Requests
  BY DEF Inv, Writers
<1> USE <1>0 DEF TypeOK, Writers, Holding, HoldsToken, HoldsUser
<1>1. CASE \E t \in Requests : FollowLink(v, t)
  BY <1>1 DEF FollowLink
<1>2. CASE SelectToken(v)
  BY <1>2 DEF SelectToken
<1>3. CASE RefuseToken(v)
  BY <1>3, HoldingRollback DEF RefuseToken
<1>4. CASE VerifyUser(v)
  BY <1>4 DEF VerifyUser
<1>5. CASE CommitVerified(v)
  BY <1>5 DEF CommitVerified, Unlock
<1> QED
  BY <1>1, <1>2, <1>3, <1>4, <1>5 DEF VerifierStep

LEMMA HoldingNext == Inv /\ Holding /\ [Next]_vars => Holding'
<1> SUFFICES ASSUME Inv, Holding, [Next]_vars PROVE Holding'
  OBVIOUS
<1>1. CASE \E r \in Requests : Ask(r) \/ RequestStep(r)
  BY <1>1, HoldingRequest
<1>2. CASE \E r \in Requests : Expire(r)
  BY <1>2 DEF Expire, locks, Holding, HoldsToken, HoldsUser
<1>3. CASE \E v \in Verifiers : (\E t \in Requests : FollowLink(v, t)) \/ VerifierStep(v)
  BY <1>3, HoldingVerifier
<1>4. CASE \E w \in Writers : Fail(w)
  BY <1>4, HoldingRollback DEF Fail
<1>5. CASE \E r \in Requests, v \in Verifiers : Abort(r, v)
  BY <1>5, HoldingRollback DEF Abort, Writers
<1>6. CASE UNCHANGED vars
  BY <1>6 DEF vars, committed, locks, Holding, HoldsToken, HoldsUser
<1> QED
  BY <1>1, <1>2, <1>3, <1>4, <1>5, <1>6 DEF Next

(* The next statement of a handler waits for a row that the transaction of *)
(* another one holds.                                                      *)
RequestWaits(r) ==
  \/ pc[r] = "selecting" /\ user # "none" /\ ulock # None
  \/ pc[r] = "creating" /\ ulock # None
  \/ pc[r] = "updating" /\ ulock \notin {None, r}
  \/ /\ pc[r] = "clearing"
     /\ \E t \in Requests : row[t] # "absent" /\ tlock[t] \notin {None, r}

VerifierWaits(v) ==
  \/ pc[v] = "selecting" /\ row[using[v]] = "live" /\ tlock[using[v]] # None
  \/ pc[v] = "verifying" /\ ulock # None

Waits(w) == IF w \in Requests THEN RequestWaits(w) ELSE VerifierWaits(w)

SomebodyProceeds ==
  (\E w \in Writers : pc[w] \in Open) =>
    \/ \E w \in Writers : pc[w] \in Open /\ ~Waits(w)
    \/ \E r \in Requests, v \in Verifiers : Deadlocked(r, v)

(* If all wait, nobody is about to commit: whoever holds the row of users  *)
(* waits for a token, and whoever holds a token for the row of users.      *)
LEMMA AllWait ==
  ASSUME Inv, Holding, \A w \in Writers : pc[w] \in Open => Waits(w)
  PROVE  /\ ulock # None => ulock \in Requests /\ pc[ulock] = "clearing"
         /\ \A t \in Requests :
              tlock[t] # None => /\ tlock[t] \in Verifiers
                                 /\ pc[tlock[t]] = "verifying"
                                 /\ using[tlock[t]] = t
<1>1. \A w \in Writers : pc[w] # "committing"
  BY DEF Open, Waits, RequestWaits, VerifierWaits
<1>2. \A w \in Requests : pc[w] # "updating"
  BY DEF Open, Waits, RequestWaits, Inv, Requesting, Writers
<1> QED
  BY <1>1, <1>2 DEF Holding, HoldsUser, HoldsToken, Inv, TypeOK

LEMMA CircleOfTwo ==
  ASSUME Inv, Holding, \A w \in Writers : pc[w] \in Open => Waits(w),
         NEW w \in Writers, pc[w] \in Open
  PROVE  \E r \in Requests, v \in Verifiers : Deadlocked(r, v)
<1>1. ASSUME NEW r \in Requests, ulock = r
      PROVE  \E v \in Verifiers : Deadlocked(r, v)
  <2>1. pc[r] = "clearing" /\ r \in Writers
    BY <1>1, AllWait DEF Writers
  <2>2. PICK t \in Requests : row[t] # "absent" /\ tlock[t] \notin {None, r}
    BY <2>1 DEF Open, Waits, RequestWaits
  <2>3. tlock[t] \in Verifiers /\ pc[tlock[t]] = "verifying" /\ using[tlock[t]] = t
    BY <2>2, AllWait
  <2> QED
    BY <1>1, <2>1, <2>3 DEF Deadlocked
<1>2. ASSUME NEW v \in Verifiers, pc[v] = "verifying"
      PROVE  ulock \in Requests
  BY <1>2, AllWait DEF Waits, VerifierWaits, Open, Writers
<1>3. CASE ulock \in Requests
  BY <1>1, <1>3
<1>4. CASE ulock = None
  <2>1. \A t \in Requests : tlock[t] = None
    BY <1>2, <1>4, AllWait
  <2>2. ~Waits(w)
    BY <1>4, <2>1 DEF Waits, RequestWaits, VerifierWaits, Inv, Verifying, Writers
  <2> QED
    BY <2>2
<1> QED
  BY <1>3, <1>4, AllWait

(* Calls wait for each other in one way only, a request for the token of a *)
(* verifier that waits for the request: as long as somebody is at work and *)
(* there is no such pair, which PostgreSQL resolves, somebody can go on.   *)
THEOREM SomebodyGoesOn == Spec => []SomebodyProceeds
<1>1. Inv /\ Holding => SomebodyProceeds
  BY CircleOfTwo DEF SomebodyProceeds
<1> QED
  BY <1>1, HoldingInit, HoldingNext, Invariance, PTL DEF Spec
=============================================================================
