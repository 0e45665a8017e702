---------------------------- MODULE ProjectRows -----------------------------
(* The three sides of a project: the synchronisation of its capabilities,  *)
(* the records of projects and their details, and what a document becomes  *)
(* on its way to the model and back, side by side.  They share the names   *)
(* of integrations and no variable.                                        *)
EXTENDS CapabilitySync

CONSTANTS Projects, Capabilities, Tenants, System, Requests, MaxPublications,
          None,
          Documents, Values, Schemas, Depth, Configs

VARIABLES project, detail, reader, listed, hydrated,
          stage, doc, synced, schema, shown, config, sent

P == INSTANCE ProjectRecords
T == INSTANCE ProjectTools

(* Row-level security guards the records, though no handler does, and the  *)
(* database keeps the dates of publication (ProjectRecords).               *)
RecordsAreGuarded == P!RecordsAreGuarded

(* A capability's schema requires what it declares, the model is shown     *)
(* clean schemas that do, and calls have the right credentials             *)
(* (ProjectTools).                                                         *)
ToolsAreSound == T!ToolsAreSound
=============================================================================
