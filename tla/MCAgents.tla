------------------------------ MODULE MCAgents ------------------------------
(* Small instances of AgentSession and of five smaller components of the   *)
(* server, for TLC.  They share no state: a behaviour is one of any, and   *)
(* the variables of the others keep their initial values.                  *)
EXTENDS AgentSession, ServerRecords, TLC

VARIABLE part

scoping == <<configs, souls, newest, step, found, wanted, topics, scope,
             missed, registry, ran, stopped, standing, alone>>
sessionRows == <<sessions, attached, projects, visible, greeted, request,
                 tools, removed, seen>>
llm == <<profiles, used, preferred, stage, runner, asked, loaded>>
database == <<emptied, recorded, built, mode, files, snapshot, at, oneWay>>
hub == <<credential, events, search>>

-----------------------------------------------------------------------------
(* Scopes: a configuration or a soul that forbids a tool of a project, one *)
(* that allows only some, and one that forbids a built-in tool.  A project *)
(* tool with the name of a built-in tool, and one with a name of its own.  *)
Says(allowed, forbidden) ==
  [allowedDomains |-> allowed, forbiddenDomains |-> forbidden,
   allowedTools |-> {}, forbiddenTools |-> {}]
MCConfigSays == {Says({}, {"project:api"})}
MCSoulSays == {Says({"project:api"}, {"project:tool"}), Says({}, {"memory"})}
MCSystemSouls == {Says({"control", "workflow", "userdata", "memory"}, {})}
MCCapabilities == << [name |-> "done", domain |-> "project:api"],
                     [name |-> "search", domain |-> "project:tool"] >>
MCTopics == {"memory"}

ASSUME ScopeAssumption == A!ScopeAssumption
ASSUME SessionRowAssumption == R!SessionAssumption
ASSUME MigrationAssumption == M!MigrationAssumption
ASSUME HubAssumption == H!HubAssumption

(* Lists of events that shrink, grow and vanish.                           *)
MCLists == {<<1, 2, 3, 4, 5>>, <<2, 3, 4, 5>>, <<1, 2>>, <<>>}

-----------------------------------------------------------------------------
MCInit ==
  /\ part \in {"messages", "scopes", "sessions", "profiles", "migrations", "hub"}
  /\ Init /\ A!Init /\ R!Init /\ L!Init /\ M!Init /\ H!Init
  /\ part # "sessions" => visible = [u \in Users |-> {}]
  /\ part # "migrations" => emptied /\ \A p \in Processes : files[p] = Last
  /\ part # "hub" => events = <<>>

MCNext ==
  /\ UNCHANGED part
  /\ \/ /\ part = "messages" /\ Next
        /\ UNCHANGED <<scoping, sessionRows, llm, database, hub>>
     \/ /\ part = "scopes" /\ A!Next
        /\ UNCHANGED <<vars, sessionRows, llm, database, hub>>
     \/ /\ part = "sessions" /\ R!Next
        /\ UNCHANGED <<vars, scoping, llm, database, hub>>
     \/ /\ part = "profiles" /\ L!Next
        /\ UNCHANGED <<vars, scoping, sessionRows, database, hub>>
     \/ /\ part = "migrations" /\ M!Next
        /\ UNCHANGED <<vars, scoping, sessionRows, llm, hub>>
     \/ /\ part = "hub" /\ H!Next
        /\ UNCHANGED <<vars, scoping, sessionRows, llm, database>>

MCSpec ==
  MCInit /\ [][MCNext]_<<part, vars, scoping, sessionRows, llm, database, hub>>

(* No two of the sets that are permuted together meet in one part, so that *)
(* they may have the same elements, and the group stays small.             *)
Symmetry ==
  UNION { Permutations(S) : S \in {Requests, Users, Admins, Tenants, Processes,
                                   Savers, Projects} }
=============================================================================
