--------------------------- MODULE ServerRecords ----------------------------
(* The records that the server keeps beside its conversations: scopes,     *)
(* session rows, LLM profiles, the table of migrations and the searches of *)
(* the hub, side by side.                                                  *)
(* They share users, runs and projects by name only, and no variable.      *)

CONSTANTS Users, None,
  Admins, Savers, Sends, ConfigNames, ConfigSays, SoulSays, SystemSouls,
  Capabilities, Topics,
  Sessions, Projects, Makers, Attachers, Runs,
  Providers, Ids, Keys,
  Processes, Last, Bases, Forward, Checkouts,
  Tenants, ServerKey, NoKey, Searches, Depth, DefaultLimit, MaxLimit, Limits,
  Events, Lists, Unusable

VARIABLES
  configs, souls, newest, step, found, wanted, topics, scope, missed, registry,
  ran, stopped, standing, alone,
  sessions, attached, projects, visible, greeted, request, tools, removed, seen,
  profiles, used, preferred, stage, runner, asked, loaded,
  emptied, recorded, built, mode, files, snapshot, at, oneWay,
  credential, events, search

A == INSTANCE AgentScope
R == INSTANCE SessionRecords
L == INSTANCE LLMProfiles
M == INSTANCE Migrations
H == INSTANCE HubEvents

(* What is forbidden is not done, and only a forbidden built-in tool stops *)
(* the server (AgentScope).                                                *)
ScopeHolds == A!ScopeHolds

(* A session is its user's, with the projects it was given, and does not   *)
(* become active again (SessionRecords).                                   *)
SessionsHold == R!SessionsHold

(* A run has a profile of its user, and the profile its key (LLMProfiles). *)
ProfilesHold == L!ProfilesHold

(* The table of migrations says how far the database has come, and it does *)
(* not come further than the scripts can (Migrations).                     *)
MigrationsHold == M!MigrationsHold

(* With a key of its own, or the server's, a search finds what there is    *)
(* (HubEvents).                                                            *)
SearchesHold == H!SearchesHold
=============================================================================
