------------------------- MODULE AgentScope_proofs --------------------------
(* Proofs about AgentScope, for any number of requests, any names and      *)
(* sayings of configurations and souls, and any tools of projects.         *)
EXTENDS ServerRecords, Naturals, Sequences, TLAPS

Steps == {"idle", "found", "loading", "checking", "accepted", "running",
          "ended"}
Fields == {"allowedDomains", "forbiddenDomains", "allowedTools",
           "forbiddenTools"}

(* The rows and what the handlers hold.                                    *)
Rows ==
  /\ DOMAIN configs = ConfigNames
  /\ souls \in [Savers -> SoulSays \union {None}]
  /\ newest \in Savers \union {None}
  /\ newest # None => souls[newest] # None
  /\ \A n \in ConfigNames :
       configs[n] = None \/ configs[n].says \in ConfigSays

Requests ==
  /\ step \in [Admins \union Savers \union Sends -> Steps]
  /\ \A a \in Admins : step[a] = "found" => /\ wanted[a].name \in ConfigNames
                                            /\ wanted[a].says \in ConfigSays
  /\ \A u \in Savers : step[u] = "found" => /\ found[u] \in Savers
                                            /\ wanted[u] \in SoulSays
  /\ DOMAIN found = Admins \union Savers
  /\ DOMAIN wanted = Admins \union Savers

RunVars ==
  /\ DOMAIN topics = Sends
  /\ DOMAIN scope = Sends
  /\ \A r \in Sends : DOMAIN scope[r] = Fields
  /\ missed \in [Sends -> BOOLEAN]
  /\ DOMAIN registry = Sends
  /\ DOMAIN ran = Sends
  /\ DOMAIN standing = Sends
  /\ stopped \in Sends \union {None}

(* A run's tools: none before it starts, then those its scope accepts.     *)
ToolsOfRun ==
  \A r \in Sends :
    /\ registry[r] \subseteq A!Builtins \union A!ProjectTools
    /\ ran[r] \in registry[r] \union {None}
    /\ \A t \in registry[r] : A!CanExecute(scope[r], t)
    /\ step[r] \in {"idle", "loading", "checking", "accepted"} =>
         registry[r] = {}

(* What was in force all along has been merged as far as the run got.      *)
MergedSoFar ==
  \A r \in Sends :
    /\ step[r] = "loading" => standing[r].souls \subseteq A!SoulBans(souls)
    /\ step[r] = "loading" /\ ~missed[r] =>
         standing[r].config \subseteq A!Bans(scope[r])
    /\ step[r] \in {"checking", "accepted", "running"} /\ ~missed[r] =>
         A!InForce(r) \subseteq A!Bans(scope[r])
    /\ step[r] \in {"accepted", "running"} =>
         topics[r] \cap scope[r].forbiddenDomains = {}

(* A save has found the row that is the newest until it is done.           *)
OneSoul ==
  alone =>
    /\ \A u \in Savers : souls[u] # None => u = newest
    /\ \A u, v \in Savers : step[u] = "found" /\ step[v] = "found" => u = v
    /\ \A u \in Savers : step[u] = "found" =>
         found[u] = IF newest = None THEN u ELSE newest

Stopped ==
  stopped # None => \A r \in DOMAIN step : step[r] \in {"idle", "ended"}

IInv == /\ Rows /\ Requests /\ RunVars /\ ToolsOfRun /\ MergedSoFar
        /\ OneSoul /\ alone \in BOOLEAN /\ Stopped /\ A!OnlyBuiltinsStop

-----------------------------------------------------------------------------
(* Merging and refusing.                                                   *)

(* Two sources merged forbid what either does (loader.go, mergeLists).     *)
LEMMA MergeBans ==
  ASSUME NEW s, NEW t, DOMAIN s = Fields
  PROVE  /\ DOMAIN A!Merge(s, t) = Fields
         /\ A!Bans(A!Merge(s, t)) = A!Bans(s) \union A!Bans(t)
<1>1. /\ A!Merge(s, t).forbiddenTools =
           s.forbiddenTools \union t.forbiddenTools
      /\ A!Merge(s, t).forbiddenDomains =
           s.forbiddenDomains \union t.forbiddenDomains
      /\ DOMAIN A!Merge(s, t) = Fields
  BY DEF A!Merge, Fields
<1> HIDE DEF A!Merge
<1> QED
  BY <1>1 DEF A!Bans

(* The scope a request begins with.                                        *)
LEMMA NothingFields == DOMAIN A!Nothing = Fields /\ A!Bans(A!Nothing) = {}
  BY DEF A!Nothing, Fields, A!Bans

(* What the system's souls and the user's say is one merge.                *)
LEMMA SoulsMerged ==
  ASSUME NEW own
  PROVE  A!SoulBans(own) =
           A!Bans(A!MergeAll(A!Nothing, SystemSouls \union A!UserSays(own)))
<1>1. A!UserSays(own) \union SystemSouls = SystemSouls \union A!UserSays(own)
  OBVIOUS
<1> QED
  BY <1>1 DEF A!SoulBans

(* A tool that a scope lets run is none that the scope forbids.            *)
LEMMA ExecutableNotBanned ==
  ASSUME NEW s, NEW t, A!CanExecute(s, t)
  PROVE  ~A!Banned(t, A!Bans(s))
<1>1. t.name \notin s.forbiddenTools /\ t.domain \notin s.forbiddenDomains
  BY DEF A!CanExecute
<1> QED
  BY <1>1 DEF A!Banned, A!Bans

(* What all active configurations forbid, each of them forbids.            *)
LEMMA EveryActiveForbids ==
  ASSUME NEW n \in A!Active(configs)
  PROVE  A!ConfigBans(configs) \subseteq A!Bans(configs[n].says)
  BY DEF A!ConfigBans

LEMMA NoneActive == A!Active(configs) = {} => A!ConfigBans(configs) = {}
  BY DEF A!ConfigBans

(* A registry holds built-in tools and tools of projects, and none that    *)
(* the scope refuses once the built-in tools are accepted.                 *)
LEMMA Registered ==
  ASSUME NEW s, \A b \in A!Builtins : A!CanExecute(s, b)
  PROVE  /\ A!Register(s) \subseteq A!Builtins \union A!ProjectTools
         /\ \A t \in A!Register(s) : A!CanExecute(s, t)
  BY DEF A!Register, A!ProjectTools

-----------------------------------------------------------------------------
(* The invariant implies what the run checks.                              *)
LEMMA Implied == ASSUME A!ScopeAssumption, IInv PROVE A!ScopeHolds
<1>1. A!ScopeTypeOK
  BY DEF IInv, Rows, ToolsOfRun, Stopped, A!ScopeTypeOK
<1>2. A!StandingBansHold
  <2> SUFFICES ASSUME NEW r \in Sends, step[r] \in {"accepted", "running"},
                      ~missed[r]
               PROVE  /\ \A t \in registry[r] \union ({ran[r]} \ {None}) :
                           ~A!Banned(t, A!InForce(r))
                      /\ \A d \in topics[r] :
                           <<"domain", d>> \notin A!InForce(r)
    BY DEF A!StandingBansHold
  <2>1. A!InForce(r) \subseteq A!Bans(scope[r])
    BY DEF IInv, MergedSoFar
  <2>2. ASSUME NEW t \in registry[r] \union ({ran[r]} \ {None})
        PROVE  ~A!Banned(t, A!InForce(r))
    <3>1. t \in registry[r] /\ A!CanExecute(scope[r], t)
      BY DEF IInv, ToolsOfRun
    <3>2. ~A!Banned(t, A!Bans(scope[r]))
      BY <3>1, ExecutableNotBanned
    <3> QED
      BY <2>1, <3>2 DEF A!Banned
  <2>3. ASSUME NEW d \in topics[r] PROVE <<"domain", d>> \notin A!InForce(r)
    <3>1. d \notin scope[r].forbiddenDomains
      BY DEF IInv, MergedSoFar
    <3>2. <<"domain", d>> \notin A!Bans(scope[r])
      BY <3>1 DEF A!Bans
    <3> QED
      BY <2>1, <3>2
  <2> QED
    BY <2>2, <2>3
<1>3. A!EveryBanIsShown
  <2> SUFFICES ASSUME alone, NEW s \in A!UserSays(souls)
               PROVE  A!Bans(s) \subseteq A!Bans(souls[newest])
    BY DEF A!EveryBanIsShown
  <2>1. s = souls[newest]
    BY DEF A!UserSays, IInv, OneSoul
  <2> QED
    BY <2>1
<1> QED
  BY <1>1, <1>2, <1>3 DEF A!ScopeHolds, IInv

LEMMA InitHolds == ASSUME A!ScopeAssumption, A!Init PROVE IInv
<1>1. Rows /\ Requests
  BY DEF A!Init, Rows, Requests, Steps
<1>2. RunVars
  BY NothingFields DEF A!Init, RunVars
<1>3. ToolsOfRun /\ MergedSoFar /\ OneSoul /\ Stopped /\ A!OnlyBuiltinsStop
  BY DEF A!Init, ToolsOfRun, MergedSoFar, OneSoul, Stopped, A!OnlyBuiltinsStop
<1> QED
  BY <1>1, <1>2, <1>3 DEF IInv, A!Init

-----------------------------------------------------------------------------
(* The steps of the administrators: only the rows of configurations and    *)
(* what is in force change.                                                *)
LEMMA AdminSteps ==
  ASSUME A!ScopeAssumption, IInv, NEW a \in Admins,
         \/ \E n \in ConfigNames, b \in BOOLEAN, s \in ConfigSays :
              A!FindConfig(a, n, b, s)
         \/ A!SaveConfig(a)
  PROVE  IInv'
<1>1. ASSUME NEW n \in ConfigNames, NEW b \in BOOLEAN, NEW s \in ConfigSays,
             A!FindConfig(a, n, b, s)
      PROVE  IInv'
  <2> USE <1>1 DEF A!FindConfig, A!Go
  <2>1. Rows' /\ RunVars' /\ ToolsOfRun'
    BY DEF IInv, Rows, RunVars, ToolsOfRun
  <2>2. Requests'
    BY DEF IInv, Requests, Steps, A!ScopeAssumption
  <2>3. MergedSoFar'
    <3>1. \A r \in Sends : step'[r] = step[r] /\ A!InForce(r)' = A!InForce(r)
      BY DEF IInv, Requests, A!ScopeAssumption, A!InForce
    <3> QED
      BY <3>1 DEF IInv, MergedSoFar
  <2>4. OneSoul'
    <3>1. \A u \in Savers : step'[u] = step[u] /\ found'[u] = found[u]
      BY DEF IInv, Requests, A!ScopeAssumption
    <3> QED
      BY <3>1 DEF IInv, OneSoul
  <2> QED
    BY <2>1, <2>2, <2>3, <2>4 DEF IInv, Stopped, A!OnlyBuiltinsStop
<1>2. ASSUME A!SaveConfig(a) PROVE IInv'
  <2> USE <1>2 DEF A!SaveConfig, A!Go, A!Forget
  <2>1. Rows'
    <3>1. /\ wanted[a].name \in ConfigNames
          /\ wanted[a].says \in ConfigSays
      BY DEF IInv, Requests
    <3> QED
      BY <3>1 DEF IInv, Rows
  <2>2. RunVars' /\ ToolsOfRun'
    BY DEF IInv, RunVars, ToolsOfRun, A!KeepStanding
  <2>3. Requests'
    BY DEF IInv, Requests, Steps, A!ScopeAssumption
  <2>4. MergedSoFar'
    <3>1. \A r \in Sends :
            /\ step'[r] = step[r]
            /\ A!InForce(r)' \subseteq A!InForce(r)
            /\ standing'[r].config \subseteq standing[r].config
            /\ standing'[r].souls \subseteq standing[r].souls
      BY DEF IInv, Requests, A!ScopeAssumption, A!InForce, A!KeepStanding
    <3>2. /\ souls' = souls /\ scope' = scope
          /\ missed' = missed /\ topics' = topics
      OBVIOUS
    <3> HIDE <1>2 DEF A!SaveConfig, A!Go, A!Forget
    <3> QED
      BY <3>1, <3>2 DEF IInv, MergedSoFar
  <2>5. OneSoul'
    <3>1. \A u \in Savers : step'[u] = step[u] /\ found'[u] = found[u]
      BY DEF IInv, Requests, A!ScopeAssumption
    <3> QED
      BY <3>1 DEF IInv, OneSoul
  <2> QED
    BY <2>1, <2>2, <2>3, <2>4, <2>5 DEF IInv, Stopped, A!OnlyBuiltinsStop
<1> QED
  BY <1>1, <1>2

-----------------------------------------------------------------------------
(* The steps of a save of the soul: which rows there are changes, and what *)
(* is in force.                                                            *)
LEMMA SoulSteps ==
  ASSUME A!ScopeAssumption, IInv, NEW u \in Savers,
         \/ \E s \in SoulSays : A!FindSoul(u, s)
         \/ A!SaveSoul(u)
  PROVE  IInv'
<1>1. ASSUME NEW s \in SoulSays, A!FindSoul(u, s) PROVE IInv'
  <2> USE <1>1 DEF A!FindSoul, A!Go
  <2>1. Rows' /\ RunVars' /\ ToolsOfRun'
    BY DEF IInv, Rows, RunVars, ToolsOfRun
  <2>2. Requests'
    BY DEF IInv, Rows, Requests, Steps, A!ScopeAssumption
  <2>3. MergedSoFar'
    <3>1. \A r \in Sends : step'[r] = step[r] /\ A!InForce(r)' = A!InForce(r)
      BY DEF IInv, Requests, A!ScopeAssumption, A!InForce
    <3> QED
      BY <3>1 DEF IInv, MergedSoFar
  <2>4. OneSoul'
    <3>1. SUFFICES ASSUME alone' PROVE OneSoul'
      BY DEF OneSoul
    <3>2. alone /\ \A v \in Savers : step[v] # "found"
      BY <3>1 DEF IInv
    <3>3. \A v \in Savers : step'[v] = "found" => v = u
      BY <3>2 DEF IInv, Requests, A!ScopeAssumption
    <3>4. found'[u] = IF newest = None THEN u ELSE newest
      BY DEF IInv, Requests
    <3> QED
      BY <3>2, <3>3, <3>4 DEF IInv, OneSoul
  <2> QED
    BY <2>1, <2>2, <2>3, <2>4 DEF IInv, Stopped, A!OnlyBuiltinsStop
<1>2. ASSUME A!SaveSoul(u) PROVE IInv'
  <2> USE <1>2 DEF A!SaveSoul, A!Go, A!Forget
  <2>1. found[u] \in Savers /\ wanted[u] \in SoulSays /\ step[u] = "found"
    BY DEF IInv, Requests
  <2>2. Rows'
    BY <2>1 DEF IInv, Rows, A!ScopeAssumption
  <2>3. RunVars' /\ ToolsOfRun'
    BY DEF IInv, RunVars, ToolsOfRun, A!KeepStanding
  <2>4. Requests'
    BY DEF IInv, Requests, Steps, A!ScopeAssumption
  <2>5. MergedSoFar'
    <3>1. \A r \in Sends :
            /\ step'[r] = step[r]
            /\ A!InForce(r)' \subseteq A!InForce(r)
            /\ standing'[r].config \subseteq standing[r].config
            /\ standing'[r].souls \subseteq A!SoulBans(souls')
      <4>1. \A r \in Sends : step'[r] = step[r]
        BY DEF IInv, Requests, A!ScopeAssumption
      <4>2. \A r \in Sends :
              /\ standing'[r].config =
                   standing[r].config \cap A!ConfigBans(configs')
              /\ standing'[r].souls = standing[r].souls \cap A!SoulBans(souls')
        BY DEF A!KeepStanding
      <4> QED
        BY <4>1, <4>2 DEF A!InForce
    <3>2. scope' = scope /\ missed' = missed /\ topics' = topics
      OBVIOUS
    <3> HIDE <1>2 DEF A!SaveSoul, A!Go, A!Forget
    <3> QED
      BY <3>1, <3>2 DEF IInv, MergedSoFar
  <2>6. OneSoul'
    <3>1. SUFFICES ASSUME alone PROVE OneSoul'
      BY DEF OneSoul
    <3>2. /\ \A v \in Savers : souls[v] # None => v = newest
          /\ found[u] = IF newest = None THEN u ELSE newest
      BY <2>1, <3>1 DEF IInv, OneSoul
    <3>3. \A v \in Savers : souls'[v] # None => v = newest'
      BY <2>1, <3>2 DEF IInv, Rows, A!ScopeAssumption
    <3>4. \A v \in Savers : step'[v] # "found"
      BY <2>1, <3>1 DEF IInv, Requests, OneSoul
    <3> QED
      BY <3>3, <3>4 DEF OneSoul
  <2> QED
    BY <2>2, <2>3, <2>4, <2>5, <2>6 DEF IInv, Stopped, A!OnlyBuiltinsStop
<1> QED
  BY <1>1, <1>2

-----------------------------------------------------------------------------
(* The steps of a message.  None changes a row, nor the requests that do.  *)
LEMMA SendKeepsRows ==
  ASSUME A!ScopeAssumption, IInv, NEW r \in Sends,
         UNCHANGED <<configs, souls, newest, found, wanted, alone>>,
         step' \in [DOMAIN step -> Steps],
         \A q \in DOMAIN step :
           q # r /\ step'[q] # step[q] => step'[q] = "ended"
  PROVE  Rows' /\ Requests' /\ OneSoul' /\ alone' \in BOOLEAN
<1>1. Rows' /\ alone' \in BOOLEAN
  BY DEF IInv, Rows
<1>2. \A q \in Admins \union Savers : step'[q] = "found" => step[q] = "found"
  BY DEF IInv, Requests, A!ScopeAssumption
<1>3. Requests'
  BY <1>2 DEF IInv, Requests
<1>4. OneSoul'
  BY <1>2 DEF IInv, OneSoul
<1> QED
  BY <1>1, <1>3, <1>4

LEMMA SendSteps ==
  ASSUME A!ScopeAssumption, IInv, NEW r \in Sends, A!SendStep(r)
  PROVE  IInv'
<1> USE DEF A!Go
<1>0. DOMAIN step = Admins \union Savers \union Sends /\ r \in DOMAIN step
  BY DEF IInv, Requests
<1>1. ASSUME NEW T \in SUBSET Topics, A!LoadConfig(r, T) PROVE IInv'
  <2> USE <1>1 DEF A!LoadConfig
  <2>1. Rows' /\ Requests' /\ OneSoul' /\ alone' \in BOOLEAN
    BY <1>0, SendKeepsRows DEF IInv, Requests, Steps
  <2>2. step[r] = "idle" /\ step'[r] = "loading"
    BY <1>0 DEF IInv, Requests
  <2>3. RunVars'
    <3>1. \A n : DOMAIN A!Merge(A!Nothing, configs[n].says) = Fields
      BY NothingFields, MergeBans
    <3> QED
      BY <3>1 DEF IInv, RunVars
  <2>4. ToolsOfRun'
    BY <2>2, <1>0 DEF IInv, Requests, RunVars, ToolsOfRun
  <2>5. MergedSoFar'
    <3>1. ASSUME NEW q \in Sends, q # r
          PROVE  /\ step'[q] = step[q] /\ A!InForce(q)' = A!InForce(q)
                 /\ standing'[q] = standing[q] /\ scope'[q] = scope[q]
                 /\ missed'[q] = missed[q] /\ topics'[q] = topics[q]
      BY <1>0, <3>1 DEF A!InForce, IInv, RunVars, Requests
    <3>2. /\ standing'[r].souls = A!SoulBans(souls)
          /\ standing'[r].config = A!ConfigBans(configs)
      BY DEF A!Standing, IInv, RunVars
    <3>3. ASSUME ~missed'[r]
          PROVE  A!ConfigBans(configs) \subseteq A!Bans(scope'[r])
      <4>1. CASE \E n \in A!Active(configs) :
              scope' = [scope EXCEPT
                          ![r] = A!Merge(A!Nothing, configs[n].says)]
        <5> PICK n \in A!Active(configs) :
              scope' = [scope EXCEPT
                          ![r] = A!Merge(A!Nothing, configs[n].says)]
          BY <4>1
        <5>1. A!Bans(scope'[r]) = A!Bans(configs[n].says)
          <6>1. scope'[r] = A!Merge(A!Nothing, configs[n].says)
            BY DEF IInv, RunVars
          <6>2. A!Bans(A!Merge(A!Nothing, configs[n].says)) =
                  A!Bans(A!Nothing) \union A!Bans(configs[n].says)
            BY NothingFields, MergeBans
          <6> HIDE <1>1 DEF A!LoadConfig
          <6> QED
            BY <6>1, <6>2, NothingFields
        <5> QED
          BY <5>1, EveryActiveForbids
      <4>2. CASE A!Active(configs) = {}
        BY <4>2, NoneActive
      <4> QED
        BY <4>1, <4>2, <3>3 DEF IInv, RunVars
    <3>4. souls' = souls
      OBVIOUS
    <3> HIDE <1>1 DEF A!LoadConfig
    <3> QED
      BY <2>2, <3>1, <3>2, <3>3, <3>4 DEF IInv, MergedSoFar
  <2> QED
    BY <2>1, <2>3, <2>4, <2>5 DEF IInv, Stopped, A!OnlyBuiltinsStop
<1>2. ASSUME A!LoadSouls(r) PROVE IInv'
  <2> USE <1>2 DEF A!LoadSouls
  <2>1. Rows' /\ Requests' /\ OneSoul' /\ alone' \in BOOLEAN
    BY <1>0, SendKeepsRows DEF IInv, Requests, Steps
  <2>2. step[r] = "loading" /\ step'[r] = "checking"
    BY <1>0 DEF IInv, Requests
  <2>3. PICK T : /\ scope' = [scope EXCEPT ![r] =
                                 A!Merge(scope[r], A!MergeAll(A!Nothing, T))]
                 /\ missed' \in [Sends -> BOOLEAN]
                 /\ ~missed'[r] => /\ ~missed[r]
                                   /\ T = SystemSouls \union A!UserSays(souls)
                 /\ \A q \in Sends \ {r} : missed'[q] = missed[q]
    BY DEF IInv, RunVars
  <2>4. /\ DOMAIN scope'[r] = Fields
        /\ A!Bans(scope'[r]) =
             A!Bans(scope[r]) \union A!Bans(A!MergeAll(A!Nothing, T))
    BY <2>3, MergeBans DEF IInv, RunVars
  <2>5. RunVars'
    BY <2>3, <2>4 DEF IInv, RunVars
  <2>6. ToolsOfRun'
    BY <2>2, <2>3, <1>0 DEF IInv, Requests, RunVars, ToolsOfRun
  <2>7. MergedSoFar'
    <3>1. ASSUME NEW q \in Sends, q # r
          PROVE  /\ step'[q] = step[q] /\ A!InForce(q)' = A!InForce(q)
                 /\ standing'[q] = standing[q] /\ scope'[q] = scope[q]
                 /\ missed'[q] = missed[q] /\ topics'[q] = topics[q]
      BY <1>0, <2>3, <3>1 DEF A!InForce, IInv, RunVars, Requests
    <3>2. ASSUME ~missed'[r] PROVE A!InForce(r)' \subseteq A!Bans(scope'[r])
      <4>1. A!Bans(scope'[r]) = A!Bans(scope[r]) \union A!SoulBans(souls)
        BY <2>3, <2>4, <3>2, SoulsMerged
      <4>2. A!InForce(r) \subseteq A!Bans(scope[r]) \union A!SoulBans(souls)
        BY <2>2, <2>3, <3>2 DEF A!InForce, IInv, MergedSoFar
      <4> QED
        BY <4>1, <4>2 DEF A!InForce
    <3>3. souls' = souls
      OBVIOUS
    <3> HIDE <1>2 DEF A!LoadSouls
    <3> QED
      BY <2>2, <3>1, <3>2, <3>3 DEF IInv, MergedSoFar
  <2> QED
    BY <2>1, <2>5, <2>6, <2>7 DEF IInv, Stopped, A!OnlyBuiltinsStop
<1>3. ASSUME A!AcceptMessage(r) PROVE IInv'
  <2> USE <1>3 DEF A!AcceptMessage
  <2>1. Rows' /\ Requests' /\ OneSoul' /\ alone' \in BOOLEAN
    BY <1>0, SendKeepsRows DEF IInv, Requests, Steps
  <2>2. step[r] = "checking" /\ step'[r] = "accepted"
    BY <1>0 DEF IInv, Requests
  <2>3. RunVars' /\ ToolsOfRun'
    BY <2>2, <1>0 DEF IInv, Requests, RunVars, ToolsOfRun
  <2>4. MergedSoFar'
    <3>1. \A q \in Sends : q # r => step'[q] = step[q]
      BY <1>0 DEF IInv, Requests
    <3> QED
      BY <2>2, <3>1 DEF IInv, MergedSoFar, A!InForce
  <2> QED
    BY <2>1, <2>3, <2>4 DEF IInv, Stopped, A!OnlyBuiltinsStop
<1>4. ASSUME A!RefuseMessage(r) \/ A!End(r) PROVE IInv'
  <2> USE <1>4 DEF A!RefuseMessage, A!End, A!ForgetRun
  <2>1. Rows' /\ Requests' /\ OneSoul' /\ alone' \in BOOLEAN
    BY <1>0, SendKeepsRows DEF IInv, Requests, Steps
  <2>2. step' = [step EXCEPT ![r] = "ended"] /\ step'[r] = "ended"
    BY <1>0 DEF IInv, Requests
  <2>3. RunVars'
    BY NothingFields DEF IInv, RunVars
  <2>4. ToolsOfRun'
    BY <2>2, <1>0 DEF IInv, Requests, RunVars, ToolsOfRun
  <2>5. MergedSoFar'
    <3>1. ASSUME NEW q \in Sends, q # r
          PROVE  /\ step'[q] = step[q] /\ A!InForce(q)' = A!InForce(q)
                 /\ standing'[q] = standing[q] /\ scope'[q] = scope[q]
                 /\ missed'[q] = missed[q] /\ topics'[q] = topics[q]
      <4>1. step'[q] = step[q]
        BY <1>0, <2>2, <3>1
      <4>2. /\ standing'[q] = standing[q] /\ scope'[q] = scope[q]
            /\ missed'[q] = missed[q] /\ topics'[q] = topics[q]
        BY <3>1 DEF IInv, RunVars
      <4> QED
        BY <4>1, <4>2 DEF A!InForce
    <3>2. souls' = souls
      OBVIOUS
    <3> HIDE <1>4 DEF A!RefuseMessage, A!End, A!ForgetRun
    <3> QED
      BY <2>2, <3>1, <3>2 DEF IInv, MergedSoFar
  <2> QED
    BY <2>1, <2>3, <2>4, <2>5 DEF IInv, Stopped, A!OnlyBuiltinsStop
<1>5. ASSUME A!StartRun(r) PROVE IInv'
  <2>c. step' \in [DOMAIN step -> Steps]
    BY <1>5 DEF A!StartRun, IInv, Requests, Steps
  <2>a. \A q \in DOMAIN step :
          q # r /\ step'[q] # step[q] => step'[q] = "ended"
    BY <1>5 DEF A!StartRun, IInv, Requests
  <2>b. UNCHANGED <<configs, souls, newest, found, wanted, alone>>
    BY <1>5 DEF A!StartRun
  <2>1. Rows' /\ Requests' /\ OneSoul' /\ alone' \in BOOLEAN
    BY <2>a, <2>b, <2>c, SendKeepsRows
  <2> USE <1>5 DEF A!StartRun
  <2>2. CASE \A b \in A!Builtins : A!CanExecute(scope[r], b)
    <3>1. /\ step' = [step EXCEPT ![r] = "running"] /\ step[r] = "accepted"
          /\ registry' = [registry EXCEPT ![r] = A!Register(scope[r])]
          /\ stopped' = None
      BY <2>2
    <3>2. step'[r] = "running"
      BY <1>0, <3>1
    <3>3. RunVars'
      BY <3>1 DEF IInv, RunVars
    <3>4. ToolsOfRun'
      <4>1. /\ A!Register(scope[r]) \subseteq A!Builtins \union A!ProjectTools
            /\ \A t \in A!Register(scope[r]) : A!CanExecute(scope[r], t)
        BY <2>2, Registered
      <4>2. ran[r] = None
        BY <3>1 DEF IInv, ToolsOfRun
      <4> HIDE DEF A!Register
      <4> QED
        BY <3>1, <3>2, <4>1, <4>2, <1>0 DEF IInv, Requests, RunVars, ToolsOfRun
    <3>5. MergedSoFar'
      <4>1. \A q \in Sends : q # r => step'[q] = step[q]
        BY <1>0, <3>1
      <4> QED
        BY <3>1, <3>2, <4>1 DEF IInv, MergedSoFar, A!InForce
    <3> QED
      BY <2>1, <3>1, <3>3, <3>4, <3>5 DEF IInv, Stopped, A!OnlyBuiltinsStop
  <2>3. CASE ~ \A b \in A!Builtins : A!CanExecute(scope[r], b)
    <3>1. /\ \A q \in DOMAIN step : step'[q] \in {"idle", "ended"}
          /\ \A q \in DOMAIN step : step'[q] = "idle" => step[q] = "idle"
          /\ DOMAIN step' = DOMAIN step
          /\ stopped' = r /\ registry' = registry
      BY <2>3
    <3>2. RunVars' /\ Stopped'
      BY <3>1 DEF IInv, RunVars, Stopped
    <3>3. ToolsOfRun'
      BY <3>1, <1>0 DEF IInv, ToolsOfRun
    <3>4. MergedSoFar'
      BY <3>1, <1>0 DEF MergedSoFar
    <3>5. A!OnlyBuiltinsStop'
      BY <2>3, <3>1 DEF A!OnlyBuiltinsStop
    <3> QED
      BY <2>1, <3>2, <3>3, <3>4, <3>5 DEF IInv
  <2> QED
    BY <2>2, <2>3
<1>6. ASSUME NEW t \in registry[r], A!CallTool(r, t) PROVE IInv'
  <2> USE <1>6 DEF A!CallTool
  <2>1. Rows' /\ Requests' /\ OneSoul' /\ alone' \in BOOLEAN
    BY <1>0, SendKeepsRows DEF IInv, Requests, Steps
  <2>2. step' = step
    BY <1>0 DEF IInv, Requests
  <2>3. RunVars' /\ ToolsOfRun'
    BY <2>2 DEF IInv, RunVars, ToolsOfRun
  <2>4. MergedSoFar'
    BY <2>2 DEF IInv, MergedSoFar, A!InForce
  <2> QED
    BY <2>1, <2>3, <2>4 DEF IInv, Stopped, A!OnlyBuiltinsStop
<1> QED
  BY <1>1, <1>2, <1>3, <1>4, <1>5, <1>6 DEF A!SendStep

-----------------------------------------------------------------------------
(* What a run's scope forbids stays forbidden to it, only a built-in tool  *)
(* the scope refuses stops the server, and saves that take turns leave one *)
(* soul, for any number of administrators, saves and runs at a time.       *)
THEOREM ScopesHold ==
  ASSUME A!ScopeAssumption PROVE A!Spec => []ScopeHolds
<1>1. A!Init => IInv
  BY InitHolds
<1>2. IInv /\ [A!Next]_A!vars => IInv'
  <2>1. ASSUME IInv, UNCHANGED A!vars PROVE IInv'
    BY <2>1 DEF IInv, A!vars, Rows, Requests, RunVars, ToolsOfRun, MergedSoFar,
                OneSoul, Stopped, A!OnlyBuiltinsStop, A!InForce
  <2> QED
    BY <2>1, AdminSteps, SoulSteps, SendSteps DEF A!Next
<1>3. IInv => ScopeHolds
  BY Implied DEF ScopeHolds
<1> QED
  BY <1>1, <1>2, <1>3, PTL DEF A!Spec
=============================================================================
