--------------------------- MODULE SessionRecords ---------------------------
(***************************************************************************)
(* The session rows of the agent's users and the projects attached to      *)
(* them.                                                                   *)
(*                                                                         *)
(* CreateSession is a row, one statement per project and a system message, *)
(* in no transaction; the row is listed and used from the first of them.   *)
(* Every statement runs under row-level security: sessions are their       *)
(* user's, attachments are those of the session, and projects are visible  *)
(* or not as the project handlers decide, which this module leaves open.   *)
(***************************************************************************)
EXTENDS Naturals, Sequences, FiniteSets

CONSTANTS
  Users,
  Sessions,   \* session ids: the bound on the sessions ever created
  Projects,
  Makers,     \* CreateSession requests, each handled once
  Attachers,  \* AttachProject requests, each handled once
  Runs,       \* agent runs, each made once
  None

VARIABLES
  sessions,   \* [Sessions]: None or the row [user, status]
  attached,   \* the rows of agent_session_projects: [session, project, by]
  projects,   \* the projects that exist
  visible,    \* [Users]: the projects row-level security shows
  greeted,    \* the sessions with a system message
  request,    \* [Makers \union Attachers]: where it is and what it holds
  tools,      \* [Runs]: None or the session and the projects whose tools it has
  removed,    \* the <<session, project>> ever detached, or deleted with it
  seen        \* [Users]: the projects ever visible

(* What the theorem assumes of the constants: None is not a row.           *)
SessionAssumption ==
  None \notin [user : Users, status : {"active", "archived", "deleted"}]

vars == <<sessions, attached, projects, visible, greeted, request, tools,
          removed, seen>>

Idle == [step |-> "idle", user |-> None, session |-> None, todo |-> <<>>,
         done |-> {}]

Pairs == { <<a.session, a.project>> : a \in attached }

OwnBroken(u, s) == sessions[s] # None  \* any session that exists

Own(u, s) == sessions[s] # None /\ sessions[s].user = u

SessionsTypeOK ==
  /\ \A s \in Sessions : sessions[s] # None =>
       sessions[s].status \in {"active", "archived", "deleted"}
  /\ \A a \in attached : sessions[a.session] # None /\ a.project \in projects
  /\ \A a, b \in attached :
       a.session = b.session /\ a.project = b.project => a = b
  /\ \A u \in Users : visible[u] \subseteq projects

Init ==
  /\ sessions = [s \in Sessions |-> None]
  /\ attached = {}
  /\ projects = Projects
  /\ visible \in [Users -> SUBSET Projects]
  /\ greeted = {}
  /\ request = [r \in Makers \union Attachers |-> Idle]
  /\ tools = [r \in Runs |-> None]
  /\ removed = {}
  /\ seen = visible

(* INSERT ... ON CONFLICT DO NOTHING, under the policy of the session's    *)
(* owner and the foreign key to projects, which asks nobody who may see    *)
(* the project.                                                            *)
CanInsert(u, s, p) == Own(u, s) /\ p \in projects

Insert(u, s, p) ==
  attached' = IF <<s, p>> \in Pairs THEN attached
              ELSE attached \union {[session |-> s, project |-> p, by |-> u]}

-----------------------------------------------------------------------------
(* POST /agent/sessions.                                                   *)
InsertSession(m, u, s, todo) ==
  /\ request[m] = Idle
  /\ sessions[s] = None
  /\ sessions' = [sessions EXCEPT ![s] = [user |-> u, status |-> "active"]]
  /\ request' = [request EXCEPT ![m] = [step |-> "attaching", user |-> u,
                                        session |-> s, todo |-> todo,
                                        done |-> {}]]
  /\ UNCHANGED <<attached, projects, visible, greeted, tools, removed, seen>>

(* No check that the user can see the project.                             *)
AttachNextBroken(m) ==  \* goes on when a project cannot be attached
  LET q == request[m] IN
  /\ q.step = "attaching"
  /\ q.todo # <<>>
  /\ \/ Insert(q.user, q.session, Head(q.todo)) /\ Head(q.todo) \in projects
     \/ UNCHANGED attached
  /\ request' = [request EXCEPT ![m].todo = Tail(@),
                             ![m].done = @ \union {Head(q.todo)}]
  /\ UNCHANGED <<sessions, projects, visible, greeted, tools, removed, seen>>

AttachNext(m) ==
  LET q == request[m] IN
  /\ q.step = "attaching"
  /\ q.todo # <<>>
  /\ CanInsert(q.user, q.session, Head(q.todo))
  /\ Insert(q.user, q.session, Head(q.todo))
  /\ request' = [request EXCEPT ![m].todo = Tail(@),
                             ![m].done = @ \union {Head(q.todo)}]
  /\ UNCHANGED <<sessions, projects, visible, greeted, tools, removed, seen>>

(* The system message, whose failure is ignored; then 201.                 *)
Greet(m) ==
  LET q == request[m] IN
  /\ q.step = "attaching"
  /\ q.todo = <<>>
  /\ greeted' \in {greeted, greeted \union {q.session}}
  /\ request' = [request EXCEPT ![m].step = "created"]
  /\ UNCHANGED <<sessions, attached, projects, visible, tools, removed, seen>>

(* A statement fails, for one because the project is gone: 500, and what   *)
(* has been written stays.                                                 *)
Fail(r) ==
  /\ request[r].step \in {"attaching", "checked"}
  /\ request' = [request EXCEPT ![r].step = "failed"]
  /\ UNCHANGED <<sessions, attached, projects, visible, greeted, tools,
                 removed, seen>>

-----------------------------------------------------------------------------
(* Both read the row and write it back with their status.                  *)
SetStatusBroken(u, s, status) ==  \* a second call takes the first back
  /\ Own(u, s)
  /\ sessions' = [sessions EXCEPT ![s].status =
                    IF @ = status THEN "active" ELSE status]
  /\ UNCHANGED <<attached, projects, visible, greeted, request, tools,
                 removed, seen>>

SetStatus(u, s, status) ==
  /\ Own(u, s)
  /\ sessions' = [sessions EXCEPT ![s].status = status]
  /\ UNCHANGED <<attached, projects, visible, greeted, request, tools,
                 removed, seen>>

ArchiveSession(u, s) == SetStatus(u, s, "archived")
DeleteSession(u, s) == SetStatus(u, s, "deleted")

-----------------------------------------------------------------------------
(* POST .../projects: the session and the project must be visible; then    *)
(* the row is inserted.                                                    *)
CheckAttach(a, u, s, p) ==
  /\ request[a] = Idle
  /\ Own(u, s)
  /\ p \in visible[u]
  /\ request' = [request EXCEPT ![a] = [step |-> "checked", user |-> u,
                                        session |-> s, todo |-> <<p>>,
                                        done |-> {}]]
  /\ UNCHANGED <<sessions, attached, projects, visible, greeted, tools,
                 removed, seen>>

AttachProject(a) ==
  LET q == request[a] IN
  /\ q.step = "checked"
  /\ CanInsert(q.user, q.session, q.todo[1])
  /\ Insert(q.user, q.session, q.todo[1])
  /\ request' = [request EXCEPT ![a].step = "attached"]
  /\ UNCHANGED <<sessions, projects, visible, greeted, tools, removed, seen>>

(* Deletes nothing, and answers 200, when the session is another's.        *)
DetachProject(u, s, p) ==
  /\ Own(u, s)
  /\ attached' = { a \in attached : ~(a.session = s /\ a.project = p) }
  /\ removed' = IF <<s, p>> \in Pairs THEN removed \union {<<s, p>>} ELSE removed
  /\ UNCHANGED <<sessions, projects, visible, greeted, request, tools, seen>>

-----------------------------------------------------------------------------
(* The project handlers: a project is shown, hidden or deleted, and the    *)
(* attachments of one that is deleted go with it.                          *)
ShowOrHide(u, p) ==
  /\ p \in projects
  /\ visible' = [visible EXCEPT ![u] = IF p \in @ THEN @ \ {p} ELSE @ \union {p}]
  /\ seen' = [seen EXCEPT ![u] = @ \union {p}]
  /\ UNCHANGED <<sessions, attached, projects, greeted, request, tools, removed>>

DeleteProjectBroken(p) ==  \* the attachments stay
  /\ p \in projects
  /\ projects' = projects \ {p}
  /\ visible' = [u \in Users |-> visible[u] \ {p}]
  /\ removed' = removed \union { <<s, p>> : s \in Sessions }
  /\ UNCHANGED <<sessions, attached, greeted, request, tools, seen>>

DeleteProject(p) ==
  /\ p \in projects
  /\ projects' = projects \ {p}
  /\ visible' = [u \in Users |-> visible[u] \ {p}]
  /\ attached' = { a \in attached : a.project # p }
  /\ removed' = removed \union { <<s, p>> : s \in Sessions }
  /\ UNCHANGED <<sessions, greeted, request, tools, seen>>

(* ListCapabilitiesBySession joins the attachments with the projects the   *)
(* user can see; so does the list of a session's projects.                 *)
ToolsOfBroken(u, s) == { p \in projects : <<s, p>> \in Pairs }  \* sees them all

ToolsOf(u, s) == { p \in visible[u] : <<s, p>> \in Pairs }

(* A run keeps the tools it has loaded.                                    *)
LoadTools(r, u, s) ==
  /\ tools[r] = None
  /\ Own(u, s)
  /\ tools' = [tools EXCEPT ![r] = [session |-> s, projects |-> ToolsOf(u, s)]]
  /\ UNCHANGED <<sessions, attached, projects, visible, greeted, request,
                 removed, seen>>

-----------------------------------------------------------------------------
Todos == { q \in UNION { [1..n -> Projects] : n \in 0..2 } :
             \A i, j \in DOMAIN q : q[i] = q[j] => i = j }

Next ==
  \/ \E m \in Makers : \/ \E u \in Users, s \in Sessions, todo \in Todos :
                            InsertSession(m, u, s, todo)
                       \/ AttachNext(m)
                       \/ Greet(m)
  \/ \E r \in Makers \union Attachers : Fail(r)
  \/ \E u \in Users, s \in Sessions : \/ ArchiveSession(u, s)
                                      \/ DeleteSession(u, s)
                                      \/ \E r \in Runs : LoadTools(r, u, s)
  \/ \E u \in Users, s \in Sessions, p \in Projects :
       \/ \E a \in Attachers : CheckAttach(a, u, s, p)
       \/ DetachProject(u, s, p)
  \/ \E a \in Attachers : AttachProject(a)
  \/ \E u \in Users, p \in Projects : ShowOrHide(u, p)
  \/ \E p \in Projects : DeleteProject(p)

Spec == Init /\ [][Next]_vars

-----------------------------------------------------------------------------
(* Whoever names a session, its projects are attached by its own user.     *)
OwnersAttach ==
  \A a \in attached : a.by = sessions[a.session].user

(* Attaching is not seeing: a project can be attached that the user cannot *)
(* see, on creation or because it was hidden in between, but no run of the *)
(* user has tools of a project they were never shown.                      *)
ToolsWereShown ==
  \A r \in Runs : tools[r] # None =>
    tools[r].projects \subseteq seen[sessions[tools[r].session].user]

(* A session answered 201 has every project that was asked for, unless one *)
(* was detached or deleted since; a session answered 500 need not.         *)
CreatedWhole ==
  \A m \in Makers, p \in Projects :
    request[m].step = "created" /\ p \in request[m].done =>
      <<request[m].session, p>> \in Pairs \union removed

(* What has left the list of active sessions does not come back to it,     *)
(* though an archived session can be deleted and a deleted one archived.   *)
NeverActiveAgain ==
  \A s \in Sessions :
    sessions[s] # None /\ sessions[s].status # "active" =>
      sessions'[s].status # "active"

(* All of that: a session is its user's, with the projects it was given.   *)
SessionsHold ==
  /\ [](SessionsTypeOK /\ OwnersAttach /\ ToolsWereShown /\ CreatedWhole)
  /\ [][NeverActiveAgain]_vars
=============================================================================
