----------------------------- MODULE AgentScope -----------------------------
(***************************************************************************)
(* What an agent run may do: the global configurations of the super        *)
(* administrators, the souls (the system's and the user's own), and the    *)
(* SendMessage requests that merge them into a scope and run tools in it.  *)
(*                                                                         *)
(* A scope is put together from three reads that no transaction holds      *)
(* together and whose errors are ignored, then fixed for the whole run.    *)
(* The built-in tools are registered with MustRegister, which panics in a  *)
(* goroutine nobody recovers when the scope refuses one: the server stops. *)
(*                                                                         *)
(* One user and one session; all saves of a soul are that user's.          *)
(***************************************************************************)
EXTENDS Naturals, Sequences

CONSTANTS
  Admins,        \* requests that save a configuration, each handled once
  Savers,        \* requests that save the user's soul, each handled once
  Sends,         \* SendMessage requests, each handled once
  ConfigNames,   \* the names configurations are saved under
  ConfigSays,    \* what a configuration may say
  SoulSays,      \* what a soul may say
  SystemSouls,   \* what the system's souls say: only SQL changes them
  Capabilities,  \* the tools of the session's projects, by capability name
  Topics,        \* what a message may mention
  None

VARIABLES
  configs,   \* [ConfigNames]: None or the row [active, says]
  souls,     \* [Savers]: None or what the soul says that the request created
  newest,    \* None or the soul saved last, which a list shows first
  step,      \* [Admins \union Savers \union Sends]: where the request is
  found,     \* [Admins \union Savers]: what the first read found
  wanted,    \* [Admins \union Savers]: what is to be saved
  topics,    \* [Sends]: what the message mentions
  scope,     \* [Sends]: the merged scope
  missed,    \* [Sends]: has an error of a read been ignored
  registry,  \* [Sends]: the registered tools, as a set
  ran,       \* [Sends]: the tool executed last, or None
  stopped,   \* None, or the request whose run stopped the server
  standing,  \* [Sends]: the bans in force ever since the request began
  alone      \* have saves of the soul never overlapped

(* What the theorems assume of the constants: a request is of one kind,    *)
(* and None is no request and nothing a soul says.                         *)
ScopeAssumption ==
  /\ Admins \cap Savers = {}
  /\ (Admins \union Savers) \cap Sends = {}
  /\ None \notin Savers \union Sends \union SoulSays

vars == <<configs, souls, newest, step, found, wanted, topics, scope, missed,
          registry, ran, stopped, standing, alone>>

-----------------------------------------------------------------------------
(* What a source says: four lists, here sets.  A soul has no tool lists.   *)
Nothing == [allowedDomains |-> {}, forbiddenDomains |-> {},
            allowedTools |-> {}, forbiddenTools |-> {}]

MergeBroken(s, t) ==  \* a list that is given replaces the one before
  [k \in DOMAIN s |-> IF t[k] = {} THEN s[k] ELSE t[k]]

Merge(s, t) == [k \in DOMAIN s |-> s[k] \union t[k]]

MergeAll(s, T) == [k \in DOMAIN s |-> s[k] \union UNION { t[k] : t \in T }]

CanExecute(s, t) ==
  /\ t.name \notin s.forbiddenTools
  /\ t.domain \notin s.forbiddenDomains
  /\ s.allowedTools # {} => t.name \in s.allowedTools
  /\ s.allowedDomains # {} => t.domain \in s.allowedDomains

Builtins == { [name |-> "workflow_tool", domain |-> "workflow"],
              [name |-> "memory_tool", domain |-> "memory"],
              [name |-> "execute_sql", domain |-> "userdata"],
              [name |-> "done", domain |-> "control"] }

(* The enabled capabilities of the projects of the session.                *)
ProjectTools == { Capabilities[i] : i \in DOMAIN Capabilities }

(* The bans of a source, for the properties.                               *)
Bans(s) == { <<"tool", n>> : n \in s.forbiddenTools } \union
           { <<"domain", d>> : d \in s.forbiddenDomains }

Banned(t, B) == <<"tool", t.name>> \in B \/ <<"domain", t.domain>> \in B

Active(cs) == { n \in ConfigNames : cs[n] # None /\ cs[n].active }

UserSays(own) == { own[u] : u \in { v \in Savers : own[v] # None } }

(* A run reads one active configuration, whichever comes first: with       *)
(* several of them, what all forbid is in force.                           *)
ConfigBans(cs) ==
  { b \in UNION { Bans(cs[n].says) : n \in Active(cs) } :
      \A n \in Active(cs) : b \in Bans(cs[n].says) }

SoulBans(own) == Bans(MergeAll(Nothing, UserSays(own) \union SystemSouls))

Standing == [config |-> ConfigBans(configs), souls |-> SoulBans(souls)]

(* A change of the rows: what is no longer forbidden stands no more.       *)
KeepStanding ==
  standing' = [r \in Sends |->
                 [config |-> standing[r].config \cap ConfigBans(configs'),
                  souls |-> standing[r].souls \cap SoulBans(souls')]]

-----------------------------------------------------------------------------
ScopeTypeOK ==
  /\ \A n \in ConfigNames :
       configs[n] = None \/ configs[n].says \in ConfigSays
  /\ \A u \in Savers : souls[u] \in SoulSays \union {None}
  /\ newest # None => newest \in Savers /\ souls[newest] # None
  /\ \A r \in Sends : registry[r] \subseteq Builtins \union ProjectTools
  /\ \A r \in Sends : ran[r] \in registry[r] \union {None}
  /\ stopped # None => \A r \in DOMAIN step : step[r] \in {"idle", "ended"}

Init ==
  /\ configs = [n \in ConfigNames |-> None]
  /\ souls = [u \in Savers |-> None]
  /\ newest = None
  /\ step = [r \in Admins \union Savers \union Sends |-> "idle"]
  /\ found = [r \in Admins \union Savers |-> None]
  /\ wanted = [r \in Admins \union Savers |-> None]
  /\ topics = [r \in Sends |-> {}]
  /\ scope = [r \in Sends |-> Nothing]
  /\ missed = [r \in Sends |-> FALSE]
  /\ registry = [r \in Sends |-> {}]
  /\ ran = [r \in Sends |-> None]
  /\ stopped = None
  /\ standing = [r \in Sends |-> [config |-> {}, souls |-> {}]]
  /\ alone = TRUE

(* The values a handler that has answered no longer holds.                 *)
Forget(r) ==
  /\ found' = [found EXCEPT ![r] = None]
  /\ wanted' = [wanted EXCEPT ![r] = None]

ForgetRun(r) ==
  /\ topics' = [topics EXCEPT ![r] = {}]
  /\ scope' = [scope EXCEPT ![r] = Nothing]
  /\ missed' = [missed EXCEPT ![r] = FALSE]
  /\ registry' = [registry EXCEPT ![r] = {}]
  /\ ran' = [ran EXCEPT ![r] = None]
  /\ standing' = [standing EXCEPT ![r] = [config |-> {}, souls |-> {}]]

Go(r, from, to) ==
  /\ stopped = None
  /\ step[r] = from
  /\ step' = [step EXCEPT ![r] = to]

-----------------------------------------------------------------------------
(* PUT /admin/agent/god/config: GetByName, then Update or Create.          *)
FindConfig(a, n, active, says) ==
  /\ Go(a, "idle", "found")
  /\ found' = [found EXCEPT ![a] = IF configs[n] = None THEN "new" ELSE "old"]
  /\ wanted' = [wanted EXCEPT ![a] =
                  [name |-> n, active |-> active, says |-> says]]
  /\ UNCHANGED <<configs, souls, newest, topics, scope, missed, registry, ran,
                 stopped, standing, alone>>

(* Names are unique: a Create that comes second fails, and nothing is      *)
(* saved.  Other active configurations stay active.                        *)
SaveConfig(a) ==
  /\ Go(a, "found", "ended")
  /\ LET w == wanted[a]
     IN  configs' = IF found[a] = "new" /\ configs[w.name] # None
                      THEN configs
                      ELSE [configs EXCEPT ![w.name] = [active |-> w.active,
                                                        says |-> w.says]]
  /\ Forget(a)
  /\ UNCHANGED <<souls, newest, topics, scope, missed, registry, ran,
                 stopped, alone>>
  /\ KeepStanding

-----------------------------------------------------------------------------
(* PUT /agent/soul: ListByUser, then Update of the first or Create: what   *)
(* is found is the row to write, a new one being the request's own.        *)
FindSoul(u, says) ==
  /\ Go(u, "idle", "found")
  /\ found' = [found EXCEPT ![u] = IF newest = None THEN u ELSE newest]
  /\ wanted' = [wanted EXCEPT ![u] = says]
  /\ alone' = (alone /\ \A v \in Savers : step[v] # "found")
  /\ UNCHANGED <<configs, souls, newest, topics, scope, missed, registry, ran,
                 stopped, standing>>

(* The row saved last comes first from then on.                            *)
SaveSoulBroken(u) ==  \* always a row of its own
  /\ Go(u, "found", "ended")
  /\ souls' = [souls EXCEPT ![u] = wanted[u]]
  /\ newest' = u
  /\ Forget(u)
  /\ UNCHANGED <<configs, topics, scope, missed, registry, ran,
                 stopped, alone>>
  /\ KeepStanding

SaveSoul(u) ==
  /\ Go(u, "found", "ended")
  /\ souls' = [souls EXCEPT ![found[u]] = wanted[u]]
  /\ newest' = found[u]
  /\ Forget(u)
  /\ UNCHANGED <<configs, topics, scope, missed, registry, ran,
                 stopped, alone>>
  /\ KeepStanding

-----------------------------------------------------------------------------
(* POST /agent/sessions/:session_id/messages.                              *)

LoadConfig(r, T) ==
  /\ Go(r, "idle", "loading")
  /\ topics' = [topics EXCEPT ![r] = T]
  /\ standing' = [standing EXCEPT ![r] = Standing]
  /\ \/ /\ \/ \E n \in Active(configs) :
                scope' = [scope EXCEPT ![r] = Merge(Nothing, configs[n].says)]
           \/ Active(configs) = {} /\ scope' = scope
        /\ UNCHANGED missed
     \/ /\ missed' = [missed EXCEPT ![r] = TRUE]
        /\ UNCHANGED scope
  /\ UNCHANGED <<configs, souls, newest, found, wanted, registry, ran,
                 stopped, alone>>

(* Two reads, the system's souls and the user's; an error of either leaves *)
(* out what it would have read.                                            *)
LoadSouls(r) ==
  /\ Go(r, "loading", "checking")
  /\ \E system \in {{}, SystemSouls}, own \in {{}, UserSays(souls)} :
       LET T == system \union own
       IN  /\ scope' = [scope EXCEPT ![r] = Merge(@, MergeAll(Nothing, T))]
           /\ missed' = [missed EXCEPT ![r] = @ \/ system # SystemSouls
                                                \/ own # UserSays(souls)]
  /\ UNCHANGED <<configs, souls, newest, found, wanted, topics, registry, ran,
                 stopped, standing, alone>>

(* A message that mentions no forbidden domain is stored.                  *)
AcceptMessage(r) ==
  /\ topics[r] \intersect scope[r].forbiddenDomains = {}
  /\ Go(r, "checking", "accepted")
  /\ UNCHANGED <<configs, souls, newest, found, wanted, topics, scope, missed,
                 registry, ran, stopped, standing, alone>>

(* A message that mentions one is answered 403.                            *)
RefuseMessage(r) ==
  /\ topics[r] \intersect scope[r].forbiddenDomains # {}
  /\ Go(r, "checking", "ended")
  /\ ForgetRun(r)
  /\ UNCHANGED <<configs, souls, newest, found, wanted, stopped, alone>>

(* The built-in tools, then those of the projects that the scope accepts:  *)
(* each replaces the one of the same name before it.                       *)
Register(s) ==
  LET accepted ==
        { i \in DOMAIN Capabilities : CanExecute(s, Capabilities[i]) }
      Replaced(n, i) == \E j \in accepted : j > i /\ Capabilities[j].name = n
  IN  { b \in Builtins : ~Replaced(b.name, 0) } \union
      { Capabilities[i] : i \in
          { j \in accepted : ~Replaced(Capabilities[j].name, j) } }

StartRunBroken(r) ==  \* MustRegister for the tools of projects as well
  /\ LET tools == Builtins \union ProjectTools
     IN  IF \A b \in tools : CanExecute(scope[r], b)
           THEN /\ Go(r, "accepted", "running")
                /\ registry' = [registry EXCEPT ![r] = Register(scope[r])]
                /\ UNCHANGED stopped
           ELSE /\ Go(r, "accepted", "ended")
                /\ stopped' = r
                /\ UNCHANGED registry
  /\ UNCHANGED <<configs, souls, newest, found, wanted, topics, scope, missed,
                 ran, standing, alone>>

StartRunContained(r) ==  \* the other requests survive the panic
  /\ IF \A b \in Builtins : CanExecute(scope[r], b)
       THEN /\ Go(r, "accepted", "running")
            /\ registry' = [registry EXCEPT ![r] = Register(scope[r])]
            /\ UNCHANGED stopped
       ELSE /\ Go(r, "accepted", "ended")
            /\ stopped' = r
            /\ UNCHANGED registry
  /\ UNCHANGED <<configs, souls, newest, found, wanted, topics, scope, missed,
                 ran, standing, alone>>

(* The built-in tools, in the run's own goroutine: a refusal is a panic,   *)
(* and ends every request of the server.  Then the project tools: a        *)
(* refusal is reported and skipped.                                        *)
StartRun(r) ==
  /\ stopped = None
  /\ step[r] = "accepted"
  /\ IF \A b \in Builtins : CanExecute(scope[r], b)
       THEN /\ step' = [step EXCEPT ![r] = "running"]
            /\ registry' = [registry EXCEPT ![r] = Register(scope[r])]
            /\ UNCHANGED stopped
       ELSE /\ step' = [q \in DOMAIN step |-> IF step[q] = "idle" THEN "idle"
                                                                  ELSE "ended"]
            /\ stopped' = r
            /\ UNCHANGED registry
  /\ UNCHANGED <<configs, souls, newest, found, wanted, topics, scope, missed,
                 ran, standing, alone>>

(* The model calls a tool: one that is registered and passes the check a   *)
(* second time is executed, any other call is answered with an error.      *)
CallTool(r, t) ==
  /\ Go(r, "running", "running")
  /\ t \in registry[r]
  /\ CanExecute(scope[r], t)
  /\ ran' = [ran EXCEPT ![r] = t]
  /\ UNCHANGED <<configs, souls, newest, found, wanted, topics, scope, missed,
                 registry, stopped, standing, alone>>

(* The run is over, or a statement before it failed.                       *)
End(r) ==
  /\ \E from \in {"accepted", "running"} : Go(r, from, "ended")
  /\ ForgetRun(r)
  /\ UNCHANGED <<configs, souls, newest, found, wanted, stopped, alone>>

-----------------------------------------------------------------------------
SendStep(r) ==
  \/ \E T \in SUBSET Topics : LoadConfig(r, T)
  \/ LoadSouls(r)
  \/ AcceptMessage(r)
  \/ RefuseMessage(r)
  \/ StartRun(r)
  \/ \E t \in registry[r] : CallTool(r, t)
  \/ End(r)

Next ==
  \/ \E a \in Admins :
       \/ \E n \in ConfigNames, b \in BOOLEAN, s \in ConfigSays :
            FindConfig(a, n, b, s)
       \/ SaveConfig(a)
  \/ \E u \in Savers : \/ \E s \in SoulSays : FindSoul(u, s)
                       \/ SaveSoul(u)
  \/ \E r \in Sends : SendStep(r)

Spec == Init /\ [][Next]_vars

-----------------------------------------------------------------------------
InForce(r) == standing[r].config \union standing[r].souls

(* What a source has forbidden ever since the request began, no tool of    *)
(* its run does, whatever is saved while the scope is read piece by piece, *)
(* and however many configurations are active; nor is a message stored     *)
(* that mentions it.  An ignored error of a read is the one exception.     *)
StandingBansHold ==
  \A r \in Sends :
    step[r] \in {"accepted", "running"} /\ ~missed[r] =>
      /\ \A t \in registry[r] \union ({ran[r]} \ {None}) :
           ~Banned(t, InForce(r))
      /\ \A d \in topics[r] : <<"domain", d>> \notin InForce(r)

(* The server stops only for a built-in tool that the run's scope refuses: *)
(* no capability of a project and no name it is given can stop it.         *)
OnlyBuiltinsStop ==
  stopped # None => \E b \in Builtins : ~CanExecute(scope[stopped], b)

(* As long as saves of a soul take turns, the soul the user is shown is    *)
(* the only one of theirs, so that the bans they see are the bans they     *)
(* have and can lift.                                                      *)
EveryBanIsShown ==
  alone => \A s \in UserSays(souls) : Bans(s) \subseteq Bans(souls[newest])

(* All of that: a run does what its scope allows, and a scope forbids what *)
(* its sources forbid.                                                     *)
ScopeHolds ==
  ScopeTypeOK /\ StandingBansHold /\ OnlyBuiltinsStop /\ EveryBanIsShown
=============================================================================
