---------------------------- MODULE LLMProfiles ----------------------------
(***************************************************************************)
(* The LLM profiles of the users and how a run chooses one of them.        *)
(*                                                                         *)
(* Every handler is one statement.  A run reads its profile once and keeps *)
(* what it read; profiles are changed and deleted meanwhile.  The profile  *)
(* a user prefers, agent_user_profiles.default_llm_profile_id, is written  *)
(* by no handler: an operator sets it in SQL.                              *)
(***************************************************************************)
EXTENDS Naturals, Sequences, FiniteSets

CONSTANTS
  Users,
  Providers,\* those that profiles are made for, of the four accepted
  Ids,      \* profile ids: the bound on the profiles ever created
  Keys,     \* API keys
  Runs,     \* agent runs, each made once
  None      \* no profile, or no key

VARIABLES
  profiles,   \* the rows by updated_at, the latest first
  used,       \* the ids handed out so far
  preferred,  \* [Users]: default_llm_profile_id
  stage,      \* [Runs]: "idle", "running" or "ended"
  runner,     \* [Runs]: the user
  asked,      \* [Runs]: the profile the request names
  loaded      \* [Runs]: the profile as the run has read it

vars == <<profiles, used, preferred, stage, runner, asked, loaded>>

(* NewOpenAIProvider serves "custom" as well; there is no client for       *)
(* Google's models, though its profiles are accepted.                      *)
Supported == Providers \intersect {"openai", "anthropic", "custom"}

Profile == [id : Ids, user : Users, provider : Providers,
            key : Keys \union {None}, active : BOOLEAN]

RowsOf(s) == { s[i] : i \in DOMAIN s }

ProfilesTypeOK ==
  /\ RowsOf(profiles) \subseteq Profile
  /\ \A i, j \in DOMAIN profiles : profiles[i].id = profiles[j].id => i = j
  /\ \A u \in Users : preferred[u] # None =>
       \E p \in RowsOf(profiles) : p.id = preferred[u]
  /\ \A r \in Runs : loaded[r] \in Profile \union {None}

Init ==
  /\ profiles = <<>>
  /\ used = {}
  /\ preferred = [u \in Users |-> None]
  /\ stage = [r \in Runs |-> "idle"]
  /\ runner = [r \in Runs |-> None]
  /\ asked = [r \in Runs |-> None]
  /\ loaded = [r \in Runs |-> None]

(* The rows but for the one of an id.                                      *)
Without(id) ==
  LET k == CHOOSE i \in DOMAIN profiles : profiles[i].id = id
  IN  [i \in 1..(Len(profiles) - 1) |->
         profiles[IF i < k THEN i ELSE i + 1]]

-----------------------------------------------------------------------------
(* POST: a blank key is no key.                                            *)
Create(u, provider, key, active) ==
  /\ \E id \in Ids \ used :
       /\ id = CHOOSE i \in Ids \ used : TRUE
       /\ used' = used \union {id}
       /\ profiles' = <<[id |-> id, user |-> u, provider |-> provider,
                         key |-> key, active |-> active]>> \o profiles
  /\ UNCHANGED <<preferred, stage, runner, asked, loaded>>

(* PUT: everything is replaced, but a blank key leaves the one that is     *)
(* stored, also when the provider becomes another.                         *)
UpdateBroken(u, id, provider, key, active) ==  \* a blank key is stored
  \E p \in RowsOf(profiles) :
    /\ p.id = id /\ p.user = u
    /\ profiles' = <<[p EXCEPT !.provider = provider, !.active = active,
                               !.key = key]>> \o Without(id)
    /\ UNCHANGED <<used, preferred, stage, runner, asked, loaded>>

Update(u, id, provider, key, active) ==
  \E p \in RowsOf(profiles) :
    /\ p.id = id /\ p.user = u
    /\ profiles' = <<[p EXCEPT !.provider = provider, !.active = active,
                               !.key = IF key = None THEN @ ELSE key]>>
                     \o Without(id)
    /\ UNCHANGED <<used, preferred, stage, runner, asked, loaded>>

(* DELETE: fails for a preferred profile, which is referenced.             *)
DeleteBroken(u, id) ==  \* the reference is not a foreign key
  /\ \E p \in RowsOf(profiles) : p.id = id /\ p.user = u
  /\ profiles' = Without(id)
  /\ UNCHANGED <<used, preferred, stage, runner, asked, loaded>>

Delete(u, id) ==
  /\ \E p \in RowsOf(profiles) : p.id = id /\ p.user = u
  /\ \A v \in Users : preferred[v] # id
  /\ profiles' = Without(id)
  /\ UNCHANGED <<used, preferred, stage, runner, asked, loaded>>

(* The operator.                                                           *)
Prefer(u, id) ==
  /\ id = None \/ \E p \in RowsOf(profiles) : p.id = id /\ p.user = u
  /\ preferred' = [preferred EXCEPT ![u] = id]
  /\ UNCHANGED <<profiles, used, stage, runner, asked, loaded>>

-----------------------------------------------------------------------------
(* The request's profile, or else the preferred one.                       *)
Named(u, id) == IF id # None THEN id ELSE preferred[u]

FirstOf(I) == { profiles[i] : i \in { j \in I : \A k \in I : j <= k } }

(* LoadProfile: a profile that is named is taken whatever its status, and  *)
(* otherwise the active one that was saved last.                           *)
LoadProfileBroken(u, id) ==  \* a named profile of anybody
  IF id # None
    THEN { p \in RowsOf(profiles) : p.id = id }
    ELSE FirstOf({ i \in DOMAIN profiles : profiles[i].user = u })

LoadProfile(u, id) ==
  IF id # None
    THEN { p \in RowsOf(profiles) : p.id = id /\ p.user = u }
    ELSE FirstOf({ i \in DOMAIN profiles : /\ profiles[i].user = u
                                          /\ profiles[i].active })

(* No profile, or one whose provider has no client: the run ends before it *)
(* has begun, when the user's message is already stored.                   *)
Start(r, u, id) ==
  /\ stage[r] = "idle"
  /\ runner' = [runner EXCEPT ![r] = u]
  /\ asked' = [asked EXCEPT ![r] = Named(u, id)]
  /\ LET found == LoadProfile(u, Named(u, id))
     IN  \/ \E p \in found :
              /\ p.provider \in Supported
              /\ loaded' = [loaded EXCEPT ![r] = p]
              /\ stage' = [stage EXCEPT ![r] = "running"]
         \/ /\ \A p \in found : p.provider \notin Supported
            /\ loaded' = loaded
            /\ stage' = [stage EXCEPT ![r] = "ended"]
  /\ UNCHANGED <<profiles, used, preferred>>

Finish(r) ==
  /\ stage[r] = "running"
  /\ stage' = [stage EXCEPT ![r] = "ended"]
  /\ UNCHANGED <<profiles, used, preferred, runner, asked, loaded>>

-----------------------------------------------------------------------------
Next ==
  \/ \E u \in Users, v \in Providers, k \in Keys \union {None}, b \in BOOLEAN :
       \/ Create(u, v, k, b)
       \/ \E id \in Ids : Update(u, id, v, k, b)
  \/ \E u \in Users, id \in Ids : Delete(u, id)
  \/ \E u \in Users, id \in Ids \union {None} : Prefer(u, id)
  \/ \E r \in Runs, u \in Users, id \in Ids \union {None} : Start(r, u, id)
  \/ \E r \in Runs : Finish(r)

Spec == Init /\ [][Next]_vars

-----------------------------------------------------------------------------
(* Nobody's run goes on with another user's profile, whatever id it names  *)
(* and whatever the operator prefers, nor with an inactive one it was not  *)
(* pointed at.                                                             *)
RunsUseOwnProfiles ==
  \A r \in Runs : stage[r] = "running" =>
    /\ loaded[r].user = runner[r]
    /\ asked[r] = None => loaded[r].active
    /\ asked[r] # None => loaded[r].id = asked[r]

(* A profile that has a key keeps one until it is deleted: saving the form *)
(* with the key left blank does not take it away.                          *)
KeysStay ==
  \A p \in RowsOf(profiles), q \in RowsOf(profiles') :
    p.id = q.id /\ p.key # None => q.key # None

(* All of that: a run has a profile of its user, and the profile its key.  *)
ProfilesHold ==
  /\ [](ProfilesTypeOK /\ RunsUseOwnProfiles)
  /\ [][KeysStay]_vars
=============================================================================
