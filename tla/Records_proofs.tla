--------------------------- MODULE Records_proofs ---------------------------
(* Proofs about the smaller components that keep rows, for any number of   *)
(* processes and rows: the session rows, the profiles and the migrations   *)
(* of ServerRecords, and the searches of the hub.                          *)
EXTENDS ServerRecords, Integers, Sequences, FiniteSets, SequenceTheorems,
        WellFoundedInduction, TLAPS

-----------------------------------------------------------------------------
(* Migrations                                                              *)

Modes == {"idle", "up", "down", "done", "stopped"}

MTypes ==
  /\ recorded \subseteq M!Versions
  /\ mode \in [Processes -> Modes]
  /\ files \in [Processes -> 0..Last]
  /\ snapshot \in [Processes -> SUBSET M!Versions]
  /\ at \in [Processes -> 0..(Last + 1)]
  /\ emptied \in BOOLEAN
  /\ oneWay \in BOOLEAN

(* One that migrates up has seen versions that are all there still, and    *)
(* those before the one it is at.                                          *)
GoingUp(p) ==
  /\ files[p] = Last
  /\ at[p] >= 1
  /\ snapshot[p] \subseteq recorded
  /\ \A w \in 1..Last : w < at[p] => w \in recorded

(* One that migrates down has seen all that are there, and none after the  *)
(* one it is at.                                                           *)
GoingDown(p) ==
  /\ files[p] = Last
  /\ at[p] <= Last
  /\ recorded \subseteq snapshot[p]
  /\ \A w \in 1..Last : w > at[p] => w \notin recorded

AllOneWay ==
  /\ \A p \in Processes : mode[p] = "up" => GoingUp(p)
  /\ \A p \in Processes : mode[p] = "down" => GoingDown(p)
  /\ \A p, q \in Processes : ~(mode[p] = "up" /\ mode[q] = "down")

MInv ==
  /\ MTypes
  /\ \A p \in Processes : mode[p] = "up" => at[p] >= 1
  /\ oneWay => AllOneWay
  /\ M!RecordedIsBuilt
  /\ M!NoGaps
  /\ M!ForwardStops

LEMMA MigrationsInit == ASSUME M!MigrationAssumption, M!Init PROVE MInv
<1>0. recorded = {} \/ recorded = M!Versions
  BY DEF M!Init
<1>1. MTypes
  <2>1. recorded \subseteq M!Versions /\ emptied \in BOOLEAN
    BY <1>0 DEF M!Init
  <2>2. files \in [Processes -> 0..Last]
    BY DEF M!Init, M!MigrationAssumption
  <2>3. at \in [Processes -> 0..(Last + 1)]
    BY DEF M!Init, M!MigrationAssumption
  <2> QED
    BY <2>1, <2>2, <2>3 DEF M!Init, MTypes, Modes
<1>2. M!RecordedIsBuilt /\ M!NoGaps /\ M!ForwardStops
  <2>1. M!RecordedIsBuilt
    BY DEF M!Init, M!RecordedIsBuilt
  <2>2. M!NoGaps
    BY <1>0 DEF M!NoGaps, M!Versions, M!MigrationAssumption
  <2>3. M!ForwardStops
    BY DEF M!Init, M!ForwardStops
  <2> QED
    BY <2>1, <2>2, <2>3
<1>3. \A p \in Processes : mode[p] = "idle"
  BY DEF M!Init
<1> QED
  BY <1>1, <1>2, <1>3 DEF MInv, AllOneWay

(* A version that has those before it, or a last one taken away, leaves no *)
(* gap.                                                                    *)
LEMMA MigrationStep ==
  ASSUME M!MigrationAssumption, MInv, NEW p \in Processes,
         \/ M!Start(p, "up") \/ M!Start(p, "down") \/ M!Skip(p)
         \/ M!Apply(p) \/ M!ApplyFails(p) \/ M!Revert(p) \/ M!RevertFails(p)
         \/ M!Finish(p) \/ M!Crash(p)
  PROVE  MInv'
<1> USE DEF M!MigrationAssumption, MInv, MTypes, Modes
<1>1. ASSUME NEW way \in {"up", "down"}, M!Start(p, way) PROVE MInv'
  <2> USE <1>1 DEF M!Start
  <2>1. MTypes' /\ \A q \in Processes : mode'[q] = "up" => at'[q] >= 1
    BY DEF M!Versions
  <2>2. oneWay' => AllOneWay'
    <3>1. SUFFICES ASSUME oneWay' PROVE AllOneWay'
      OBVIOUS
    <3>2. /\ AllOneWay /\ files[p] = Last
          /\ \A q \in Processes : mode[q] \in {"up", "down"} => mode[q] = way
      BY <3>1 DEF M!Running
    <3>3. /\ mode' = [mode EXCEPT ![p] = way] /\ UNCHANGED <<recorded, files>>
          /\ \A q \in Processes : q # p => /\ at'[q] = at[q]
                                          /\ snapshot'[q] = snapshot[q]
          /\ snapshot'[p] = recorded
          /\ at'[p] = IF way = "up" THEN 1 ELSE Last
      OBVIOUS
    <3> HIDE <1>1 DEF M!Start
    <3>4. \A q \in Processes : mode'[q] = "up" => GoingUp(q)'
      BY <3>2, <3>3 DEF AllOneWay, GoingUp
    <3>5. \A q \in Processes : mode'[q] = "down" => GoingDown(q)'
      BY <3>2, <3>3 DEF AllOneWay, GoingDown, M!Versions
    <3> QED
      BY <3>2, <3>3, <3>4, <3>5 DEF AllOneWay
  <2> QED
    BY <2>1, <2>2 DEF M!RecordedIsBuilt, M!NoGaps, M!ForwardStops
<1>2. CASE M!Skip(p)
  <2> USE <1>2 DEF M!Skip, M!Goto
  <2>1. MTypes' /\ \A q \in Processes : mode'[q] = "up" => at'[q] >= 1
    OBVIOUS
  <2>2. oneWay' => AllOneWay'
    BY DEF AllOneWay, GoingUp, GoingDown, M!NoGaps, M!Versions
  <2> QED
    BY <2>1, <2>2 DEF M!RecordedIsBuilt, M!NoGaps, M!ForwardStops
<1>3. CASE M!Apply(p)
  <2> DEFINE v == at[p]
  <2>1. /\ mode[p] = "up" /\ v <= files[p] /\ v \notin snapshot[p]
        /\ M!Needs(v) \subseteq built
        /\ built' = built \union {v}
        /\ recorded' = recorded \union {v}
        /\ at' = [at EXCEPT ![p] = v + 1]
        /\ UNCHANGED <<emptied, mode, files, snapshot, oneWay>>
    BY <1>3 DEF M!Apply, M!Goto
  <2>2. v \in 1..Last
    BY <2>1
  <2>3. MTypes' /\ \A q \in Processes : mode'[q] = "up" => at'[q] >= 1
    <3>1. v + 1 \in 0..(Last + 1) /\ v \in M!Versions
      BY <2>2 DEF M!Versions
    <3> HIDE DEF v
    <3> QED
      BY <2>1, <2>2, <3>1
  <2>4. oneWay' => AllOneWay'
    BY <2>1, <2>2 DEF AllOneWay, GoingUp, GoingDown, M!NoGaps, M!Versions
  <2>5. M!RecordedIsBuilt'
    BY <2>1 DEF M!RecordedIsBuilt
  <2>6. oneWay => \A w \in 1..Last : w < v => w \in recorded
    BY <2>1 DEF AllOneWay, GoingUp
  <2>7. M!NoGaps'
    BY <2>1, <2>2, <2>6 DEF M!NoGaps, M!Versions
  <2>8. M!ForwardStops'
    <3>1. SUFFICES ASSUME oneWay, emptied PROVE v < Forward
      BY <2>1 DEF M!ForwardStops
    <3>2. v # Forward
      BY <2>1, <3>1 DEF M!Needs, M!RecordedIsBuilt, M!ForwardStops
    <3>3. ~(v > Forward)
      BY <2>2, <2>6, <3>1 DEF M!ForwardStops
    <3> QED
      BY <2>2, <3>2, <3>3
  <2> QED
    BY <2>3, <2>4, <2>5, <2>7, <2>8
<1>4. CASE M!Revert(p)
  <2> DEFINE v == at[p]
  <2>1. /\ mode[p] = "down" /\ v <= files[p] /\ v \in snapshot[p]
        /\ recorded' = recorded \ {v}
        /\ built' = built \ {v}
        /\ emptied' = (emptied \/ built' = {})
        /\ at' = [at EXCEPT ![p] = v - 1]
        /\ UNCHANGED <<mode, files, snapshot, oneWay>>
    BY <1>4 DEF M!Revert, M!Goto
  <2>2. v \in 1..Last
    BY <2>1 DEF M!Versions
  <2>3. MTypes' /\ \A q \in Processes : mode'[q] = "up" => at'[q] >= 1
    BY <2>1, <2>2
  <2>4. oneWay' => AllOneWay'
    BY <2>1, <2>2 DEF AllOneWay, GoingUp, GoingDown
  <2>5. M!RecordedIsBuilt'
    BY <2>1 DEF M!RecordedIsBuilt
  <2>6. M!NoGaps'
    <3>1. SUFFICES ASSUME oneWay PROVE \A w \in recorded : w <= v
      BY <2>1, <2>2 DEF M!NoGaps, M!Versions
    <3> QED
      BY <2>1, <2>2, <3>1 DEF AllOneWay, GoingDown, M!Versions
  <2>7. M!ForwardStops'
    BY <2>1 DEF M!ForwardStops, M!RecordedIsBuilt
  <2> QED
    BY <2>3, <2>4, <2>5, <2>6, <2>7
<1>5. ASSUME \/ M!ApplyFails(p) \/ M!RevertFails(p) \/ M!Finish(p)
             \/ M!Crash(p)
      PROVE  MInv'
  <2>1. /\ UNCHANGED <<emptied, recorded, built, files, snapshot, at, oneWay>>
        /\ \E over \in {"done", "stopped"} : mode' = [mode EXCEPT ![p] = over]
    BY <1>5 DEF M!ApplyFails, M!RevertFails, M!Finish, M!Crash, M!Stop
  <2>2. MTypes' /\ \A q \in Processes : mode'[q] = "up" => at'[q] >= 1
    BY <2>1
  <2>3. oneWay' => AllOneWay'
    BY <2>1 DEF AllOneWay, GoingUp, GoingDown
  <2> QED
    BY <2>1, <2>2, <2>3 DEF M!RecordedIsBuilt, M!NoGaps, M!ForwardStops
<1> QED
  BY <1>1, <1>2, <1>3, <1>4, <1>5

(* schema_migrations says what is in the database, processes that go one   *)
(* way leave no gap, and a database that was empty does not get past the   *)
(* version that needs a later one, however many processes migrate at once, *)
(* from whatever checkouts, and whoever is killed.                         *)
THEOREM MigrationsAreRecorded ==
  ASSUME M!MigrationAssumption PROVE M!Spec => []MigrationsHold
<1>1. M!Init => MInv
  BY MigrationsInit
<1>2. MInv /\ [M!Next]_M!vars => MInv'
  <2>1. ASSUME MInv, UNCHANGED M!vars PROVE MInv'
    BY <2>1 DEF MInv, M!vars, MTypes, AllOneWay, GoingUp, GoingDown,
                M!RecordedIsBuilt, M!NoGaps, M!ForwardStops
  <2> QED
    BY <2>1, MigrationStep DEF M!Next
<1>3. MInv => MigrationsHold
  BY DEF MInv, MigrationsHold, M!MigrationsHold
<1> QED
  BY <1>1, <1>2, <1>3, PTL DEF M!Spec

-----------------------------------------------------------------------------
(* Sessions and their projects                                             *)

SessionRow == [user : Users, status : {"active", "archived", "deleted"}]

SessionRequest ==
  [step : {"idle", "attaching", "created", "checked", "attached", "failed"},
   user : Users \union {None}, session : Sessions \union {None},
   todo : Seq(Projects), done : SUBSET Projects]

STypes ==
  /\ sessions \in [Sessions -> SessionRow \union {None}]
  /\ projects \subseteq Projects
  /\ visible \in [Users -> SUBSET Projects]
  /\ seen \in [Users -> SUBSET Projects]
  /\ request \in [Makers \union Attachers -> SessionRequest]
  /\ DOMAIN tools = Runs

(* The rows that attach projects are of sessions and projects that exist,  *)
(* one for each pair, and made by the session's user.                      *)
Attachments ==
  /\ \A a \in attached :
       /\ a \in [session : Sessions, project : Projects, by : Users]
       /\ sessions[a.session] # None
       /\ a.project \in projects
       /\ a.by = sessions[a.session].user
  /\ \A a, b \in attached :
       a.session = b.session /\ a.project = b.project => a = b

(* What a request has attached is attached unless it was removed; a        *)
(* request under way is of a session.                                      *)
Done ==
  \A r \in Makers \union Attachers :
    /\ \A p \in request[r].done :
         <<request[r].session, p>> \in R!Pairs \union removed
    /\ request[r].step \in {"attaching", "checked"} =>
         request[r].session \in Sessions

Shown ==
  /\ \A u \in Users : visible[u] \subseteq projects \cap seen[u]
  /\ \A r \in Runs : tools[r] # None =>
       /\ tools[r].session \in Sessions
       /\ sessions[tools[r].session] # None
       /\ tools[r].projects \subseteq seen[sessions[tools[r].session].user]

SInv == STypes /\ Attachments /\ Done /\ Shown

LEMMA SessionsImplied ==
  SInv => /\ R!SessionsTypeOK /\ R!OwnersAttach
          /\ R!ToolsWereShown /\ R!CreatedWhole
<1> SUFFICES ASSUME SInv
             PROVE  /\ R!SessionsTypeOK /\ R!OwnersAttach
                    /\ R!ToolsWereShown /\ R!CreatedWhole
  OBVIOUS
<1>1. R!SessionsTypeOK
  BY DEF SInv, STypes, SessionRow, Attachments, Shown, R!SessionsTypeOK
<1>2. R!OwnersAttach /\ R!ToolsWereShown
  BY DEF SInv, Attachments, Shown, R!OwnersAttach, R!ToolsWereShown
<1>3. R!CreatedWhole
  BY DEF SInv, Done, R!CreatedWhole
<1> QED
  BY <1>1, <1>2, <1>3

LEMMA SessionsInit == R!Init => SInv
<1> SUFFICES ASSUME R!Init PROVE SInv
  OBVIOUS
<1>1. R!Idle \in SessionRequest /\ R!Idle.done = {} /\ R!Idle.step = "idle"
  BY DEF R!Idle, SessionRequest
<1>2. STypes
  BY <1>1 DEF R!Init, STypes
<1>3. Attachments /\ Done /\ Shown
  BY <1>1 DEF R!Init, Attachments, Done, Shown
<1> QED
  BY <1>2, <1>3 DEF SInv

(* One more row: the pairs are one more, and no row is double.             *)
LEMMA Inserted ==
  ASSUME NEW u, NEW s, NEW p, R!Insert(u, s, p)
  PROVE  R!Pairs' = R!Pairs \union {<<s, p>>}
<1>1. CASE <<s, p>> \in R!Pairs
  BY <1>1 DEF R!Insert, R!Pairs
<1>2. CASE <<s, p>> \notin R!Pairs
  <2> DEFINE row == [session |-> s, project |-> p, by |-> u]
  <2>1. attached' = attached \union {row} /\ row.session = s /\ row.project = p
    BY <1>2 DEF R!Insert
  <2> HIDE DEF row
  <2> QED
    BY <2>1 DEF R!Pairs
<1> QED
  BY <1>1, <1>2

LEMMA InsertKeeps ==
  ASSUME R!SessionAssumption, SInv, NEW u, NEW s \in Sessions, NEW p,
         R!CanInsert(u, s, p), R!Insert(u, s, p),
         UNCHANGED <<sessions, projects>>
  PROVE  Attachments'
<1>1. /\ sessions[s] # None /\ sessions[s].user = u /\ p \in projects
      /\ u \in Users /\ p \in Projects
  BY DEF R!CanInsert, R!Own, SInv, STypes, SessionRow
<1>2. CASE <<s, p>> \in R!Pairs
  BY <1>2 DEF R!Insert, SInv, Attachments
<1>3. CASE <<s, p>> \notin R!Pairs
  <2> DEFINE row == [session |-> s, project |-> p, by |-> u]
  <2>1. attached' = attached \union {row}
    BY <1>3 DEF R!Insert
  <2>2. \A a \in attached : ~(a.session = s /\ a.project = p)
    BY <1>3 DEF R!Pairs
  <2>3. /\ row \in [session : Sessions, project : Projects, by : Users]
        /\ row.session = s /\ row.project = p /\ row.by = u
    BY <1>1
  <2> HIDE DEF row
  <2> QED
    BY <1>1, <2>1, <2>2, <2>3 DEF SInv, Attachments
<1> QED
  BY <1>2, <1>3

(* A statement that leaves the rows and the projects alone.                *)
LEMMA KeptRows ==
  ASSUME SInv, UNCHANGED <<sessions, attached, projects>>
  PROVE  Attachments' /\ R!Pairs' = R!Pairs
  BY DEF SInv, Attachments, R!Pairs

(* One statement of a request: its session stays, and what it has done     *)
(* grows by what is attached.                                              *)
LEMMA DoneGrows ==
  ASSUME SInv, NEW r \in Makers \union Attachers, NEW q,
         request' = [request EXCEPT ![r] = q],
         R!Pairs \union removed \subseteq R!Pairs' \union removed',
         \A p \in q.done : <<q.session, p>> \in R!Pairs' \union removed',
         q.step \in {"attaching", "checked"} => q.session \in Sessions
  PROVE  Done'
  BY DEF SInv, STypes, Done

LEMMA MakerSteps ==
  ASSUME R!SessionAssumption, SInv, NEW m \in Makers,
         \/ \E u \in Users, s \in Sessions, todo \in R!Todos :
              R!InsertSession(m, u, s, todo)
         \/ R!AttachNext(m)
         \/ R!Greet(m)
  PROVE  SInv' /\ R!NeverActiveAgain
<1> USE DEF R!SessionAssumption
<1>1. ASSUME NEW u \in Users, NEW s \in Sessions, NEW todo \in R!Todos,
             R!InsertSession(m, u, s, todo)
      PROVE  SInv' /\ R!NeverActiveAgain
  <2> DEFINE row == [user |-> u, status |-> "active"]
             q == [step |-> "attaching", user |-> u, session |-> s,
                   todo |-> todo, done |-> {}]
  <2>1. /\ sessions[s] = None
        /\ sessions' = [sessions EXCEPT ![s] = row]
        /\ request' = [request EXCEPT ![m] = q]
        /\ UNCHANGED <<attached, projects, visible, greeted, tools, removed,
                       seen>>
    BY <1>1 DEF R!InsertSession
  <2>2. row \in SessionRow /\ row # None /\ row.user = u
    BY DEF SessionRow
  <2>3. q \in SessionRequest
    <3>1. todo \in Seq(Projects)
      <4> PICK n \in 0..2 : todo \in [1..n -> Projects]
        BY DEF R!Todos
      <4> QED
        OBVIOUS
    <3> QED
      BY <3>1 DEF SessionRequest
  <2>4. q.done = {} /\ q.session = s
    OBVIOUS
  <2>5. \A t \in Sessions : sessions[t] # None => sessions'[t] = sessions[t]
    BY <2>1 DEF SInv, STypes
  <2> HIDE DEF row, q
  <2>6. STypes'
    BY <2>1, <2>2, <2>3 DEF SInv, STypes
  <2>7. Attachments'
    BY <2>1, <2>5 DEF SInv, Attachments
  <2>8. Done'
    BY <2>1, <2>4, DoneGrows DEF R!Pairs
  <2>9. Shown'
    BY <2>1, <2>5 DEF SInv, Shown
  <2>10. R!NeverActiveAgain
    BY <2>5 DEF R!NeverActiveAgain
  <2> QED
    BY <2>6, <2>7, <2>8, <2>9, <2>10 DEF SInv
<1>2. ASSUME R!AttachNext(m) PROVE SInv' /\ R!NeverActiveAgain
  <2> DEFINE q == request[m]
             p == Head(q.todo)
             next == [[q EXCEPT !.todo = Tail(@)] EXCEPT
                        !.done = q.done \union {p}]
  <2>1. /\ q.step = "attaching" /\ q.todo # <<>>
        /\ R!CanInsert(q.user, q.session, p)
        /\ R!Insert(q.user, q.session, p)
        /\ request' = [request EXCEPT ![m] = next]
        /\ UNCHANGED <<sessions, projects, visible, greeted, tools, removed,
                       seen>>
    BY <1>2 DEF R!AttachNext, SInv, STypes, SessionRequest
  <2>2. q \in SessionRequest /\ q.session \in Sessions
    BY <2>1 DEF SInv, STypes, Done
  <2>3. p \in Projects /\ Tail(q.todo) \in Seq(Projects)
    BY <2>1, <2>2 DEF SessionRequest
  <2>4. /\ next \in SessionRequest /\ next.session = q.session
        /\ next.done = q.done \union {p}
    BY <2>2, <2>3 DEF SessionRequest
  <2>5. R!Pairs' = R!Pairs \union {<<q.session, p>>}
    BY <2>1, Inserted
  <2>6. \A d \in q.done : <<q.session, d>> \in R!Pairs \union removed
    BY DEF SInv, Done
  <2> HIDE DEF q, p, next
  <2>7. STypes'
    BY <2>1, <2>4 DEF SInv, STypes
  <2>8. Attachments'
    BY <2>1, <2>2, InsertKeeps
  <2>9. Done'
    BY <2>1, <2>2, <2>4, <2>5, <2>6, DoneGrows
  <2>10. Shown' /\ R!NeverActiveAgain
    BY <2>1 DEF SInv, Shown, R!NeverActiveAgain
  <2> QED
    BY <2>7, <2>8, <2>9, <2>10 DEF SInv
<1>3. ASSUME R!Greet(m) PROVE SInv' /\ R!NeverActiveAgain
  <2> DEFINE q == request[m]
             next == [q EXCEPT !.step = "created"]
  <2>1. /\ request' = [request EXCEPT ![m] = next]
        /\ UNCHANGED <<sessions, attached, projects, visible, tools, removed,
                       seen>>
    BY <1>3 DEF R!Greet
  <2>2. q \in SessionRequest
    BY DEF SInv, STypes
  <2>3. /\ next \in SessionRequest /\ next.session = q.session
        /\ next.done = q.done /\ next.step = "created"
    BY <2>2 DEF SessionRequest
  <2>4. \A d \in q.done : <<q.session, d>> \in R!Pairs \union removed
    BY DEF SInv, Done
  <2> HIDE DEF q, next
  <2>5. STypes'
    BY <2>1, <2>3 DEF SInv, STypes
  <2>6. Attachments' /\ R!Pairs' = R!Pairs
    BY <2>1, KeptRows
  <2>7. Done'
    BY <2>1, <2>3, <2>4, <2>6, DoneGrows
  <2>8. Shown' /\ R!NeverActiveAgain
    BY <2>1 DEF SInv, Shown, R!NeverActiveAgain
  <2> QED
    BY <2>5, <2>6, <2>7, <2>8 DEF SInv
<1> QED
  BY <1>1, <1>2, <1>3

LEMMA AttacherSteps ==
  ASSUME R!SessionAssumption, SInv,
         \/ \E r \in Makers \union Attachers : R!Fail(r)
         \/ \E a \in Attachers, u \in Users, s \in Sessions, p \in Projects :
              R!CheckAttach(a, u, s, p)
         \/ \E a \in Attachers : R!AttachProject(a)
  PROVE  SInv' /\ R!NeverActiveAgain
<1> USE DEF R!SessionAssumption
<1>1. ASSUME NEW r \in Makers \union Attachers, R!Fail(r)
      PROVE  SInv' /\ R!NeverActiveAgain
  <2> DEFINE q == request[r]
             next == [q EXCEPT !.step = "failed"]
  <2>1. /\ request' = [request EXCEPT ![r] = next]
        /\ UNCHANGED <<sessions, attached, projects, visible, tools, removed,
                       seen>>
    BY <1>1 DEF R!Fail
  <2>2. q \in SessionRequest
    BY DEF SInv, STypes
  <2>3. /\ next \in SessionRequest /\ next.session = q.session
        /\ next.done = q.done /\ next.step = "failed"
    BY <2>2 DEF SessionRequest
  <2>4. \A d \in q.done : <<q.session, d>> \in R!Pairs \union removed
    BY DEF SInv, Done
  <2> HIDE DEF q, next
  <2>5. STypes'
    BY <2>1, <2>3 DEF SInv, STypes
  <2>6. Attachments' /\ R!Pairs' = R!Pairs
    BY <2>1, KeptRows
  <2>7. Done'
    BY <2>1, <2>3, <2>4, <2>6, DoneGrows
  <2>8. Shown' /\ R!NeverActiveAgain
    BY <2>1 DEF SInv, Shown, R!NeverActiveAgain
  <2> QED
    BY <2>5, <2>6, <2>7, <2>8 DEF SInv
<1>2. ASSUME NEW a \in Attachers, NEW u \in Users, NEW s \in Sessions,
             NEW p \in Projects, R!CheckAttach(a, u, s, p)
      PROVE  SInv' /\ R!NeverActiveAgain
  <2> DEFINE next == [step |-> "checked", user |-> u, session |-> s,
                      todo |-> <<p>>, done |-> {}]
  <2>1. /\ request' = [request EXCEPT ![a] = next]
        /\ UNCHANGED <<sessions, attached, projects, visible, tools, removed,
                       seen>>
    BY <1>2 DEF R!CheckAttach
  <2>2. next \in SessionRequest /\ next.session = s /\ next.done = {}
    BY DEF SessionRequest
  <2> HIDE DEF next
  <2>3. STypes'
    BY <2>1, <2>2 DEF SInv, STypes
  <2>4. Attachments' /\ R!Pairs' = R!Pairs
    BY <2>1, KeptRows
  <2>5. Done'
    BY <2>1, <2>2, <2>4, DoneGrows
  <2>6. Shown' /\ R!NeverActiveAgain
    BY <2>1 DEF SInv, Shown, R!NeverActiveAgain
  <2> QED
    BY <2>3, <2>4, <2>5, <2>6 DEF SInv
<1>3. ASSUME NEW a \in Attachers, R!AttachProject(a)
      PROVE  SInv' /\ R!NeverActiveAgain
  <2> DEFINE q == request[a]
             p == q.todo[1]
             next == [q EXCEPT !.step = "attached"]
  <2>1. /\ q.step = "checked"
        /\ R!CanInsert(q.user, q.session, p)
        /\ R!Insert(q.user, q.session, p)
        /\ request' = [request EXCEPT ![a] = next]
        /\ UNCHANGED <<sessions, projects, visible, greeted, tools, removed,
                       seen>>
    BY <1>3 DEF R!AttachProject
  <2>2. q \in SessionRequest /\ q.session \in Sessions
    BY <2>1 DEF SInv, STypes, Done
  <2>3. /\ next \in SessionRequest /\ next.session = q.session
        /\ next.done = q.done /\ next.step = "attached"
    BY <2>2 DEF SessionRequest
  <2>4. R!Pairs' = R!Pairs \union {<<q.session, p>>}
    BY <2>1, Inserted
  <2>5. \A d \in q.done : <<q.session, d>> \in R!Pairs \union removed
    BY DEF SInv, Done
  <2> HIDE DEF q, p, next
  <2>6. STypes'
    BY <2>1, <2>3 DEF SInv, STypes
  <2>7. Attachments'
    BY <2>1, <2>2, InsertKeeps
  <2>8. Done'
    BY <2>1, <2>3, <2>4, <2>5, DoneGrows
  <2>9. Shown' /\ R!NeverActiveAgain
    BY <2>1 DEF SInv, Shown, R!NeverActiveAgain
  <2> QED
    BY <2>6, <2>7, <2>8, <2>9 DEF SInv
<1> QED
  BY <1>1, <1>2, <1>3

(* The statements that are a whole request.                                *)
LEMMA SessionStatements ==
  ASSUME R!SessionAssumption, SInv, NEW u \in Users, NEW s \in Sessions,
         \/ R!ArchiveSession(u, s)
         \/ R!DeleteSession(u, s)
         \/ \E r \in Runs : R!LoadTools(r, u, s)
         \/ \E p \in Projects : R!DetachProject(u, s, p)
  PROVE  SInv' /\ R!NeverActiveAgain
<1> USE DEF R!SessionAssumption
<1>1. ASSUME NEW status \in {"archived", "deleted"}, R!SetStatus(u, s, status)
      PROVE  SInv' /\ R!NeverActiveAgain
  <2> DEFINE row == [sessions[s] EXCEPT !.status = status]
  <2>1. /\ sessions[s] # None
        /\ sessions' = [sessions EXCEPT ![s] = row]
        /\ UNCHANGED <<attached, projects, visible, greeted, request, tools,
                       removed, seen>>
    BY <1>1 DEF R!SetStatus, R!Own
  <2>2. sessions[s] \in SessionRow
    BY <2>1 DEF SInv, STypes
  <2>3. /\ row \in SessionRow
        /\ row.user = sessions[s].user /\ row.status = status
    BY <2>2 DEF SessionRow
  <2>4. row # None
    BY <2>3 DEF SessionRow
  <2> HIDE DEF row
  <2>5. \A t \in Sessions : sessions[t] # None =>
          /\ sessions'[t] # None /\ sessions'[t].user = sessions[t].user
          /\ sessions'[t] = sessions[t] \/ sessions'[t].status # "active"
    BY <2>1, <2>3, <2>4 DEF SInv, STypes
  <2>6. STypes'
    BY <2>1, <2>3 DEF SInv, STypes
  <2>7. Attachments'
    BY <2>1, <2>5 DEF SInv, Attachments
  <2>8. Done'
    BY <2>1 DEF SInv, Done, R!Pairs
  <2>9. Shown'
    BY <2>1, <2>5 DEF SInv, Shown
  <2>10. R!NeverActiveAgain
    BY <2>5 DEF R!NeverActiveAgain
  <2> QED
    BY <2>6, <2>7, <2>8, <2>9, <2>10 DEF SInv
<1>2. ASSUME NEW r \in Runs, R!LoadTools(r, u, s)
      PROVE  SInv' /\ R!NeverActiveAgain
  <2> DEFINE kept == [session |-> s, projects |-> R!ToolsOf(u, s)]
  <2>1. /\ sessions[s] # None /\ sessions[s].user = u
        /\ tools' = [tools EXCEPT ![r] = kept]
        /\ UNCHANGED <<sessions, attached, projects, visible, request, removed,
                       seen>>
    BY <1>2 DEF R!LoadTools, R!Own
  <2>2. kept.session = s /\ kept.projects \subseteq visible[u]
    BY DEF R!ToolsOf
  <2> HIDE DEF kept
  <2>3. STypes'
    BY <2>1 DEF SInv, STypes
  <2>4. Attachments' /\ R!Pairs' = R!Pairs
    BY <2>1, KeptRows
  <2>5. Done'
    BY <2>1, <2>4 DEF SInv, Done
  <2>6. Shown' /\ R!NeverActiveAgain
    BY <2>1, <2>2 DEF SInv, STypes, Shown, R!NeverActiveAgain
  <2> QED
    BY <2>3, <2>4, <2>5, <2>6 DEF SInv
<1>3. ASSUME NEW p \in Projects, R!DetachProject(u, s, p)
      PROVE  SInv' /\ R!NeverActiveAgain
  <2>1. /\ attached' = { a \in attached : ~(a.session = s /\ a.project = p) }
        /\ removed' = IF <<s, p>> \in R!Pairs THEN removed \union {<<s, p>>}
                                              ELSE removed
        /\ UNCHANGED <<sessions, projects, visible, request, tools, seen>>
    BY <1>3 DEF R!DetachProject
  <2>2. R!Pairs \union removed \subseteq R!Pairs' \union removed'
    BY <2>1 DEF R!Pairs
  <2>3. STypes' /\ Shown' /\ R!NeverActiveAgain
    BY <2>1 DEF SInv, STypes, Shown, R!NeverActiveAgain
  <2>4. Attachments'
    BY <2>1 DEF SInv, Attachments
  <2>5. Done'
    BY <2>1, <2>2 DEF SInv, Done
  <2> QED
    BY <2>3, <2>4, <2>5 DEF SInv
<1> QED
  BY <1>1, <1>2, <1>3 DEF R!ArchiveSession, R!DeleteSession

LEMMA ProjectStatements ==
  ASSUME R!SessionAssumption, SInv, NEW p \in Projects,
         (\E u \in Users : R!ShowOrHide(u, p)) \/ R!DeleteProject(p)
  PROVE  SInv' /\ R!NeverActiveAgain
<1>1. ASSUME NEW u \in Users, R!ShowOrHide(u, p)
      PROVE  SInv' /\ R!NeverActiveAgain
  <2>1. /\ p \in projects
        /\ visible' = [visible EXCEPT ![u] = IF p \in visible[u]
                                             THEN visible[u] \ {p}
                                             ELSE visible[u] \union {p}]
        /\ seen' = [seen EXCEPT ![u] = seen[u] \union {p}]
        /\ UNCHANGED <<sessions, attached, projects, request, tools, removed>>
    BY <1>1 DEF R!ShowOrHide
  <2>2. \A v \in Users : /\ visible'[v] \subseteq projects' \cap seen'[v]
                          /\ seen[v] \subseteq seen'[v]
    BY <2>1 DEF SInv, STypes, Shown
  <2>3. STypes'
    BY <2>1 DEF SInv, STypes
  <2>4. Attachments' /\ R!Pairs' = R!Pairs
    BY <2>1, KeptRows
  <2>5. Done' /\ R!NeverActiveAgain
    BY <2>1, <2>4 DEF SInv, Done, R!NeverActiveAgain
  <2>6. Shown'
    <3>1. ASSUME NEW r \in Runs, tools[r] # None
          PROVE  sessions[tools[r].session].user \in Users
      BY <3>1 DEF SInv, STypes, SessionRow, Shown
    <3> QED
      BY <2>1, <2>2, <3>1 DEF SInv, Shown
  <2> QED
    BY <2>3, <2>4, <2>5, <2>6 DEF SInv
<1>2. ASSUME R!DeleteProject(p) PROVE SInv' /\ R!NeverActiveAgain
  <2>1. /\ projects' = projects \ {p}
        /\ visible' = [u \in Users |-> visible[u] \ {p}]
        /\ attached' = { a \in attached : a.project # p }
        /\ removed' = removed \union { <<s, p>> : s \in Sessions }
        /\ UNCHANGED <<sessions, request, tools, seen>>
    BY <1>2 DEF R!DeleteProject
  <2>2. R!Pairs \union removed \subseteq R!Pairs' \union removed'
    BY <2>1 DEF R!Pairs, SInv, Attachments
  <2>3. STypes' /\ Shown' /\ R!NeverActiveAgain
    BY <2>1 DEF SInv, STypes, Shown, R!NeverActiveAgain
  <2>4. Attachments'
    BY <2>1 DEF SInv, Attachments
  <2>5. Done'
    BY <2>1, <2>2 DEF SInv, Done
  <2> QED
    BY <2>3, <2>4, <2>5 DEF SInv
<1> QED
  BY <1>1, <1>2

(* Sessions hold the projects their owners attached, a session that was    *)
(* answered 201 has what was asked for, runs have tools of projects that   *)
(* their users were shown, and what has left the active list stays away:   *)
(* for any number of users, sessions and requests.                         *)
THEOREM SessionsStand ==
  ASSUME R!SessionAssumption PROVE R!Spec => SessionsHold
<1>1. R!Init => SInv
  BY SessionsInit
<1>2. SInv /\ [R!Next]_R!vars => SInv' /\ [R!NeverActiveAgain]_R!vars
  <2>1. ASSUME SInv, UNCHANGED R!vars PROVE SInv'
    BY <2>1 DEF SInv, R!vars, STypes, Attachments, Done, Shown, R!Pairs
  <2> QED
    BY <2>1, MakerSteps, AttacherSteps, SessionStatements, ProjectStatements
    DEF R!Next
<1>3. SInv => /\ R!SessionsTypeOK /\ R!OwnersAttach
              /\ R!ToolsWereShown /\ R!CreatedWhole
  BY SessionsImplied
<1> QED
  BY <1>1, <1>2, <1>3, PTL DEF R!Spec, SessionsHold, R!SessionsHold

-----------------------------------------------------------------------------
(* LLM profiles                                                            *)

(* The rows: no two of one id, and each id was handed out.                 *)
Distinct(s) == \A i, j \in DOMAIN s : s[i].id = s[j].id => i = j

PRows ==
  /\ profiles \in Seq(L!Profile)
  /\ Distinct(profiles)
  /\ used \subseteq Ids
  /\ \A p \in L!RowsOf(profiles) : p.id \in used

PRuns ==
  /\ DOMAIN preferred = Users
  /\ \A u \in Users : preferred[u] # None =>
       \E p \in L!RowsOf(profiles) : p.id = preferred[u]
  /\ loaded \in [Runs -> L!Profile \union {None}]
  /\ DOMAIN stage = Runs /\ DOMAIN runner = Runs /\ DOMAIN asked = Runs
  /\ L!RunsUseOwnProfiles

PInv == PRows /\ PRuns

LEMMA RowType ==
  ASSUME PRows, NEW p \in L!RowsOf(profiles) PROVE p \in L!Profile
  BY DEF PRows, L!RowsOf

(* A row put first.                                                        *)
LEMMA Prepended ==
  ASSUME NEW s \in Seq(L!Profile), NEW p \in L!Profile, Distinct(s),
         \A q \in L!RowsOf(s) : q.id # p.id
  PROVE  /\ <<p>> \o s \in Seq(L!Profile)
         /\ Distinct(<<p>> \o s)
         /\ L!RowsOf(<<p>> \o s) = {p} \union L!RowsOf(s)
<1> DEFINE t == <<p>> \o s
<1>1. /\ t \in Seq(L!Profile) /\ Len(t) = Len(s) + 1 /\ t[1] = p
      /\ \A i \in 1..Len(s) : t[i + 1] = s[i]
  OBVIOUS
<1>2. DOMAIN t = 1..(Len(s) + 1) /\ DOMAIN s = 1..Len(s) /\ Len(s) \in Nat
  BY <1>1
<1> HIDE DEF t
<1>3. \A i \in DOMAIN t : i = 1 \/ (i - 1 \in DOMAIN s /\ t[i] = s[i - 1])
  BY <1>1, <1>2
<1>4. L!RowsOf(t) = {p} \union L!RowsOf(s)
  <2>1. L!RowsOf(t) \subseteq {p} \union L!RowsOf(s)
    BY <1>1, <1>3 DEF L!RowsOf
  <2>2. p \in L!RowsOf(t)
    BY <1>1, <1>2 DEF L!RowsOf
  <2>3. ASSUME NEW q \in L!RowsOf(s) PROVE q \in L!RowsOf(t)
    <3> PICK i \in DOMAIN s : q = s[i]
      BY DEF L!RowsOf
    <3>1. i + 1 \in DOMAIN t /\ t[i + 1] = q
      BY <1>1, <1>2
    <3> QED
      BY <3>1 DEF L!RowsOf
  <2> QED
    BY <2>1, <2>2, <2>3
<1>5. Distinct(t)
  <2>1. \A i \in DOMAIN s : s[i].id # p.id
    BY DEF L!RowsOf
  <2>2. SUFFICES ASSUME NEW i \in DOMAIN t, NEW j \in DOMAIN t,
                        t[i].id = t[j].id
                 PROVE  i = j
    BY DEF Distinct
  <2>3. CASE i # 1 /\ j # 1
    <3>1. i - 1 = j - 1
      BY <1>3, <2>2, <2>3 DEF Distinct
    <3> QED
      BY <3>1, <1>2
  <2>4. CASE i = 1 \/ j = 1
    BY <1>1, <1>3, <2>1, <2>2, <2>4
  <2> QED
    BY <2>3, <2>4
<1> QED
  BY <1>1, <1>4, <1>5 DEF t

(* A row taken out.                                                        *)
LEMMA TakenOut ==
  ASSUME PRows, NEW p \in L!RowsOf(profiles)
  PROVE  /\ L!Without(p.id) \in Seq(L!Profile)
         /\ Distinct(L!Without(p.id))
         /\ L!RowsOf(L!Without(p.id)) =
              { q \in L!RowsOf(profiles) : q.id # p.id }
<1> DEFINE k == CHOOSE i \in DOMAIN profiles : profiles[i].id = p.id
           n == Len(profiles)
           At(i) == IF i < k THEN i ELSE i + 1
           t == L!Without(p.id)
<1>1. n \in Nat /\ DOMAIN profiles = 1..n
  BY DEF PRows
<1>2. k \in 1..n /\ profiles[k].id = p.id
  BY <1>1 DEF L!RowsOf
<1>3. t = [i \in 1..(n - 1) |-> profiles[At(i)]]
  BY DEF L!Without
<1> HIDE DEF k, n, t
<1>4. \A i \in 1..(n - 1) : At(i) \in 1..n /\ At(i) # k
  BY <1>1, <1>2
<1>5. \A i, j \in 1..(n - 1) : At(i) = At(j) => i = j
  BY <1>1, <1>2
<1>6. \A i \in 1..n : i # k => \E j \in 1..(n - 1) : At(j) = i
  <2> SUFFICES ASSUME NEW i \in 1..n, i # k
               PROVE  \E j \in 1..(n - 1) : At(j) = i
    OBVIOUS
  <2>1. CASE i < k
    <3>1. i \in 1..(n - 1) /\ At(i) = i
      BY <1>1, <1>2, <2>1
    <3> QED
      BY <3>1
  <2>2. CASE i > k
    <3>1. i - 1 \in 1..(n - 1) /\ At(i - 1) = i
      BY <1>1, <1>2, <2>2
    <3> QED
      BY <3>1
  <2> QED
    BY <1>1, <1>2, <2>1, <2>2
<1> HIDE DEF At
<1>7. DOMAIN t = 1..(n - 1) /\ \A i \in 1..(n - 1) : t[i] = profiles[At(i)]
  BY <1>3
<1>8. t \in Seq(L!Profile)
  <2>1. \A i \in 1..(n - 1) : profiles[At(i)] \in L!Profile
    BY <1>1, <1>4 DEF PRows
  <2>2. n - 1 \in Nat
    BY <1>1, <1>2
  <2> QED
    BY <1>3, <2>1, <2>2
<1>9. Distinct(t)
  BY <1>1, <1>4, <1>5, <1>7 DEF Distinct, PRows
<1>10. L!RowsOf(t) = { q \in L!RowsOf(profiles) : q.id # p.id }
  <2>1. \A i \in 1..n : profiles[i].id = p.id => i = k
    BY <1>1, <1>2 DEF Distinct, PRows
  <2>2. ASSUME NEW q \in L!RowsOf(t)
        PROVE  q \in L!RowsOf(profiles) /\ q.id # p.id
    BY <1>1, <1>4, <1>7, <2>1 DEF L!RowsOf
  <2>3. ASSUME NEW q \in L!RowsOf(profiles), q.id # p.id
        PROVE  q \in L!RowsOf(t)
    <3> PICK i \in 1..n : q = profiles[i]
      BY <1>1 DEF L!RowsOf
    <3>1. PICK j \in 1..(n - 1) : At(j) = i
      BY <1>2, <1>6, <2>3
    <3> QED
      BY <1>7, <3>1 DEF L!RowsOf
  <2> QED
    BY <2>2, <2>3
<1> QED
  BY <1>8, <1>9, <1>10 DEF t

LEMMA ProfilesInit == L!Init => PInv
<1> SUFFICES ASSUME L!Init PROVE PInv
  OBVIOUS
<1>1. PRows
  BY DEF L!Init, PRows, Distinct, L!RowsOf
<1>2. PRuns
  BY DEF L!Init, PRuns, L!RunsUseOwnProfiles
<1> QED
  BY <1>1, <1>2 DEF PInv

LEMMA CreateStep ==
  ASSUME PInv, NEW u \in Users, NEW v \in Providers,
         NEW k \in Keys \union {None}, NEW b \in BOOLEAN, L!Create(u, v, k, b)
  PROVE  PInv' /\ L!KeysStay
<1>1. PICK id \in Ids \ used :
        /\ used' = used \union {id}
        /\ profiles' = <<[id |-> id, user |-> u, provider |-> v, key |-> k,
                          active |-> b]>> \o profiles
        /\ UNCHANGED <<preferred, stage, runner, asked, loaded>>
  BY DEF L!Create
<1> DEFINE row == [id |-> id, user |-> u, provider |-> v, key |-> k,
                   active |-> b]
<1>2. row \in L!Profile /\ row.id = id
  BY DEF L!Profile
<1>3. profiles' = <<row>> \o profiles
  BY <1>1
<1> HIDE DEF row
<1>4. \A q \in L!RowsOf(profiles) : q.id # id
  BY DEF PInv, PRows
<1>5. /\ profiles' \in Seq(L!Profile) /\ Distinct(profiles')
      /\ L!RowsOf(profiles') = {row} \union L!RowsOf(profiles)
  BY <1>2, <1>3, <1>4, Prepended DEF PInv, PRows
<1>6. PRows'
  BY <1>1, <1>2, <1>5 DEF PInv, PRows
<1>7. PRuns'
  BY <1>1, <1>5 DEF PInv, PRuns, L!RunsUseOwnProfiles
<1>8. L!KeysStay
  <2> SUFFICES ASSUME NEW p \in L!RowsOf(profiles),
                      NEW q \in L!RowsOf(profiles'), p.id = q.id
               PROVE  p = q
    BY DEF L!KeysStay
  <2>1. q \in L!RowsOf(profiles)
    BY <1>2, <1>4, <1>5
  <2> QED
    BY <2>1 DEF PInv, PRows, Distinct, L!RowsOf
<1> QED
  BY <1>6, <1>7, <1>8 DEF PInv

LEMMA UpdateStep ==
  ASSUME PInv, NEW u \in Users, NEW id \in Ids, NEW v \in Providers,
         NEW k \in Keys \union {None}, NEW b \in BOOLEAN,
         L!Update(u, id, v, k, b)
  PROVE  PInv' /\ L!KeysStay
<1>1. PICK p \in L!RowsOf(profiles) :
        /\ p.id = id /\ p.user = u
        /\ profiles' = <<[p EXCEPT !.provider = v, !.active = b,
                                   !.key = IF k = None THEN p.key ELSE k]>>
                         \o L!Without(id)
        /\ UNCHANGED <<used, preferred, stage, runner, asked, loaded>>
  BY DEF L!Update
<1> DEFINE row == [p EXCEPT !.provider = v, !.active = b,
                            !.key = IF k = None THEN p.key ELSE k]
<1>2. p \in L!Profile
  BY RowType DEF PInv
<1>3. row \in L!Profile /\ row.id = id /\ (p.key # None => row.key # None)
  BY <1>1, <1>2 DEF L!Profile
<1>4. profiles' = <<row>> \o L!Without(id)
  BY <1>1
<1> HIDE DEF row
<1>5. /\ L!Without(id) \in Seq(L!Profile) /\ Distinct(L!Without(id))
      /\ L!RowsOf(L!Without(id)) = { q \in L!RowsOf(profiles) : q.id # id }
  BY <1>1, TakenOut DEF PInv
<1>6. /\ profiles' \in Seq(L!Profile) /\ Distinct(profiles')
      /\ L!RowsOf(profiles') = {row} \union L!RowsOf(L!Without(id))
  BY <1>3, <1>4, <1>5, Prepended
<1>7. PRows'
  BY <1>1, <1>3, <1>5, <1>6 DEF PInv, PRows
<1>8. PRuns'
  <2>1. \A q \in L!RowsOf(profiles) :
          \E t \in L!RowsOf(profiles') : t.id = q.id
    BY <1>3, <1>5, <1>6
  <2> QED
    BY <1>1, <2>1 DEF PInv, PRuns, L!RunsUseOwnProfiles
<1>9. L!KeysStay
  <2>1. \A q, t \in L!RowsOf(profiles) : q.id = t.id => q = t
    BY DEF PInv, PRows, Distinct, L!RowsOf
  <2> QED
    BY <1>1, <1>3, <1>5, <1>6, <2>1 DEF L!KeysStay
<1> QED
  BY <1>7, <1>8, <1>9 DEF PInv

LEMMA DeleteStep ==
  ASSUME PInv, NEW u \in Users, NEW id \in Ids, L!Delete(u, id)
  PROVE  PInv' /\ L!KeysStay
<1>1. /\ \A v \in Users : preferred[v] # id
      /\ profiles' = L!Without(id)
      /\ UNCHANGED <<used, preferred, stage, runner, asked, loaded>>
  BY DEF L!Delete
<1>2. /\ profiles' \in Seq(L!Profile) /\ Distinct(profiles')
      /\ L!RowsOf(profiles') = { q \in L!RowsOf(profiles) : q.id # id }
  BY <1>1, TakenOut DEF PInv, L!Delete
<1>3. PRows'
  BY <1>1, <1>2 DEF PInv, PRows
<1>4. PRuns'
  BY <1>1, <1>2 DEF PInv, PRuns, L!RunsUseOwnProfiles
<1>5. L!KeysStay
  <2>1. \A q, t \in L!RowsOf(profiles) : q.id = t.id => q = t
    BY DEF PInv, PRows, Distinct, L!RowsOf
  <2> QED
    BY <1>2, <2>1 DEF L!KeysStay
<1> QED
  BY <1>3, <1>4, <1>5 DEF PInv

(* The steps that leave the rows alone.                                    *)
LEMMA SameRows ==
  ASSUME PInv, UNCHANGED <<profiles, used>> PROVE PRows' /\ L!KeysStay
<1>1. PRows'
  BY DEF PInv, PRows, Distinct, L!RowsOf
<1>2. L!KeysStay
  <2>1. \A q, t \in L!RowsOf(profiles) : q.id = t.id => q = t
    BY DEF PInv, PRows, Distinct, L!RowsOf
  <2>2. L!RowsOf(profiles') = L!RowsOf(profiles)
    OBVIOUS
  <2> QED
    BY <2>1, <2>2 DEF L!KeysStay
<1> QED
  BY <1>1, <1>2

LEMMA PreferStep ==
  ASSUME PInv, NEW u \in Users, NEW id \in Ids \union {None}, L!Prefer(u, id)
  PROVE  PInv' /\ L!KeysStay
<1>1. /\ id = None \/ \E p \in L!RowsOf(profiles) : p.id = id
      /\ preferred' = [preferred EXCEPT ![u] = id]
      /\ UNCHANGED <<profiles, used, stage, runner, asked, loaded>>
  BY DEF L!Prefer
<1>2. PRuns'
  BY <1>1 DEF PInv, PRuns, L!RunsUseOwnProfiles
<1> QED
  BY <1>1, <1>2, SameRows DEF PInv

(* A run begins with a row of its user's, the one named or an active one.  *)
LEMMA LoadedIsOwn ==
  ASSUME PRows, NEW u, NEW id, NEW p \in L!LoadProfile(u, id)
  PROVE  /\ p \in L!RowsOf(profiles) /\ p.user = u
         /\ id # None => p.id = id
         /\ id = None => p.active
  BY DEF L!LoadProfile, L!FirstOf, L!RowsOf

LEMMA RunSteps ==
  ASSUME PInv, NEW r \in Runs,
         \/ \E u \in Users, id \in Ids \union {None} : L!Start(r, u, id)
         \/ L!Finish(r)
  PROVE  PInv' /\ L!KeysStay
<1>1. ASSUME NEW u \in Users, NEW id \in Ids \union {None}, L!Start(r, u, id)
      PROVE  PRuns' /\ UNCHANGED <<profiles, used>>
  <2> DEFINE name == L!Named(u, id)
  <2>1. /\ runner' = [runner EXCEPT ![r] = u]
        /\ asked' = [asked EXCEPT ![r] = name]
        /\ UNCHANGED <<profiles, used, preferred>>
    BY <1>1 DEF L!Start
  <2> HIDE DEF name
  <2>2. CASE \E p \in L!LoadProfile(u, name) :
               /\ loaded' = [loaded EXCEPT ![r] = p]
               /\ stage' = [stage EXCEPT ![r] = "running"]
    <3> PICK p \in L!LoadProfile(u, name) :
               /\ loaded' = [loaded EXCEPT ![r] = p]
               /\ stage' = [stage EXCEPT ![r] = "running"]
      BY <2>2
    <3>1. /\ p \in L!Profile /\ p.user = u
          /\ name # None => p.id = name
          /\ name = None => p.active
      BY LoadedIsOwn, RowType DEF PInv
    <3> QED
      BY <2>1, <3>1 DEF PInv, PRuns, L!RunsUseOwnProfiles
  <2>3. CASE loaded' = loaded /\ stage' = [stage EXCEPT ![r] = "ended"]
    BY <2>1, <2>3 DEF PInv, PRuns, L!RunsUseOwnProfiles
  <2> QED
    BY <1>1, <2>1, <2>2, <2>3 DEF L!Start, name
<1>2. ASSUME L!Finish(r) PROVE PRuns' /\ UNCHANGED <<profiles, used>>
  BY <1>2 DEF L!Finish, PInv, PRuns, L!RunsUseOwnProfiles
<1> QED
  BY <1>1, <1>2, SameRows DEF PInv

(* A run goes on with a profile of its own user, and a key that is stored  *)
(* stays, for any number of users, profiles and runs.                      *)
THEOREM ProfilesStand == L!Spec => ProfilesHold
<1>1. L!Init => PInv
  BY ProfilesInit
<1>2. PInv /\ [L!Next]_L!vars => PInv' /\ [L!KeysStay]_L!vars
  <2>1. ASSUME PInv, UNCHANGED L!vars PROVE PInv'
    <3>1. PRuns'
      BY <2>1 DEF L!vars, PInv, PRuns, L!RunsUseOwnProfiles
    <3> QED
      BY <2>1, <3>1, SameRows DEF L!vars, PInv
  <2> QED
    BY <2>1, CreateStep, UpdateStep, DeleteStep, PreferStep, RunSteps
    DEF L!Next
<1>3. PInv => L!ProfilesTypeOK /\ L!RunsUseOwnProfiles
  <2>1. ASSUME PInv PROVE L!RowsOf(profiles) \subseteq L!Profile
    BY <2>1, RowType DEF PInv
  <2> QED
    BY <2>1 DEF PInv, PRows, PRuns, Distinct, L!ProfilesTypeOK
<1> QED
  BY <1>1, <1>2, <1>3, PTL DEF L!Spec, ProfilesHold,
                              L!ProfilesHold

-----------------------------------------------------------------------------
(* Induction over the natural numbers, of a set instead of a formula.      *)

Below == {ss \in Nat \X Nat : ss[1] < ss[2]}

LEMMA Induction ==
  ASSUME NEW S \in SUBSET Nat, 0 \in S, \A n \in S : n + 1 \in S
  PROVE  S = Nat
<1>1. IsWellFoundedOn(Below, Nat)
  BY NatLessThanWellFounded DEF OpToRel, Below
<1>2. SUFFICES ASSUME Nat \ S # {} PROVE FALSE
  OBVIOUS
<1>3. PICK n \in Nat \ S : \A m \in Nat \ S : ~(<<m, n>> \in Below)
  BY <1>1, <1>2, WFMin
<1>4. n # 0 /\ n - 1 \in Nat /\ <<n - 1, n>> \in Below
  BY <1>3 DEF Below
<1> QED
  BY <1>3, <1>4

-----------------------------------------------------------------------------
(* The usable events of a list (HubEvents).  UsableOf is recursive: h goes *)
(* through the first n events of s as its definition does.                 *)

Kept(s, h, n) ==
  IF n = 0 THEN <<>>
  ELSE IF H!Usable(s[n]) THEN Append(h[n - 1], s[n]) ELSE h[n - 1]

Keeps(s, n, h) == \A i \in 0..n : h[i] = Kept(s, h, i)

LEMMA KeepsNothing ==
  ASSUME NEW s, NEW n \in Nat, NEW h, Keeps(s, n, h) PROVE h[0] = <<>>
<1>1. h[0] = Kept(s, h, 0)
  BY DEF Keeps
<1> QED
  BY <1>1, Zenon DEF Kept

LEMMA KeepsExists ==
  ASSUME NEW s, NEW n \in Nat PROVE \E h : Keeps(s, n, h)
<1> DEFINE S == {m \in Nat : \E h : Keeps(s, m, h)}
<1>1. 0 \in S
  <2>1. Keeps(s, 0, [i \in 0..0 |-> <<>>])
    BY DEF Keeps, Kept
  <2> QED
    BY <2>1
<1>2. ASSUME NEW m \in S PROVE m + 1 \in S
  <2>1. PICK h : Keeps(s, m, h)
    OBVIOUS
  <2> DEFINE g == [i \in 0..(m + 1) |-> Kept(s, h, i)]
  <2>2. \A i \in 0..m : h[i] = Kept(s, h, i)
    BY <2>1 DEF Keeps
  <2>3. ASSUME NEW i \in 0..(m + 1) PROVE g[i] = Kept(s, g, i)
    <3>1. g[i] = Kept(s, h, i)
      OBVIOUS
    <3>2. i # 0 => i - 1 \in 0..m /\ g[i - 1] = h[i - 1]
      BY <2>2
    <3> HIDE DEF g
    <3> QED
      BY <3>1, <3>2 DEF Kept
  <2>4. Keeps(s, m + 1, g)
    BY <2>3 DEF Keeps
  <2> QED
    BY <2>4
<1>3. S = Nat
  <2> HIDE DEF S
  <2>1. S \subseteq Nat
    BY DEF S
  <2> QED
    BY <1>1, <1>2, <2>1, Induction
<1> QED
  BY <1>3

LEMMA KeepsUnique ==
  ASSUME NEW s, NEW n \in Nat, NEW m \in Nat, NEW h, NEW g,
         Keeps(s, n, h), Keeps(s, m, g), n <= m
  PROVE  \A i \in 0..n : h[i] = g[i]
<1> DEFINE S == {i \in Nat : i <= n => h[i] = g[i]}
<1>1. /\ \A i \in 0..n : h[i] = Kept(s, h, i)
      /\ \A i \in 0..n : g[i] = Kept(s, g, i)
  BY DEF Keeps
<1>2. 0 \in S
  BY KeepsNothing
<1>3. ASSUME NEW i \in S PROVE i + 1 \in S
  <2>1. SUFFICES ASSUME i + 1 <= n PROVE h[i + 1] = g[i + 1]
    OBVIOUS
  <2>2. i + 1 \in 0..n /\ i + 1 # 0 /\ (i + 1) - 1 = i /\ h[i] = g[i]
    BY <2>1
  <2>3. h[i + 1] = Kept(s, h, i + 1) /\ g[i + 1] = Kept(s, g, i + 1)
    BY <1>1, <2>2
  <2> QED
    BY <2>2, <2>3 DEF Kept
<1>4. S = Nat
  <2> HIDE DEF S
  <2>1. S \subseteq Nat
    BY DEF S
  <2> QED
    BY <1>2, <1>3, <2>1, Induction
<1> QED
  BY <1>4

LEMMA UsableOfKeeps ==
  ASSUME NEW s, NEW n \in Nat, NEW h, Len(s) = n, Keeps(s, n, h)
  PROVE  H!UsableOf(s) = h[n]
<1> DEFINE To(m) == CHOOSE g : Keeps(s, m, g)
           k == [m \in Nat |-> To(m)[m]]
<1>1. \A m \in Nat : Keeps(s, m, To(m))
  BY KeepsExists
<1>2. ASSUME NEW m \in Nat PROVE k[m] = Kept(s, k, m)
  <2>1. k[m] = Kept(s, To(m), m)
    BY <1>1 DEF Keeps
  <2>2. m # 0 => To(m)[m - 1] = To(m - 1)[m - 1]
    <3>1. SUFFICES ASSUME m # 0 PROVE To(m)[m - 1] = To(m - 1)[m - 1]
      OBVIOUS
    <3>2. m - 1 \in Nat /\ m - 1 <= m /\ m - 1 \in 0..(m - 1)
      BY <3>1
    <3>3. Keeps(s, m, To(m)) /\ Keeps(s, m - 1, To(m - 1))
      BY <1>1, <3>2
    <3> HIDE DEF To
    <3> QED
      BY <3>2, <3>3, KeepsUnique
  <2>3. m # 0 => k[m - 1] = To(m - 1)[m - 1]
    <3> HIDE DEF To
    <3> QED
      OBVIOUS
  <2> HIDE DEF k, To
  <2> QED
    BY <2>1, <2>2, <2>3 DEF Kept
<1>3. k = [m \in Nat |-> Kept(s, k, m)]
  BY <1>2
<1> HIDE DEF k
<1> DEFINE kept == CHOOSE f : f = [m \in Nat |-> Kept(s, f, m)]
<1>4. kept = [m \in Nat |-> Kept(s, kept, m)]
  BY <1>3, Zenon
<1>5. H!UsableOf(s) = kept[n]
  BY Zenon DEF H!UsableOf, Kept
<1> HIDE DEF kept
<1>6. Keeps(s, n, kept)
  <2> DEFINE c == [m \in Nat |-> Kept(s, kept, m)]
  <2>1. \A m \in Nat : c[m] = Kept(s, kept, m)
    OBVIOUS
  <2>2. kept = c
    BY <1>4, Zenon
  <2> HIDE DEF c
  <2> QED
    BY <2>1, <2>2 DEF Keeps
<1>7. h[n] = kept[n]
  BY <1>6, KeepsUnique
<1> QED
  BY <1>5, <1>7

LEMMA KeepsType ==
  ASSUME NEW s \in Seq(Events), NEW h, Keeps(s, Len(s), h)
  PROVE  \A i \in 0..Len(s) : h[i] \in Seq(Events)
<1> DEFINE S == {i \in Nat : i <= Len(s) => h[i] \in Seq(Events)}
<1>1. 0 \in S
  <2>1. h[0] = <<>> /\ <<>> \in Seq(Events)
    BY KeepsNothing
  <2> QED
    BY <2>1
<1>2. ASSUME NEW i \in S PROVE i + 1 \in S
  <2>1. SUFFICES ASSUME i + 1 <= Len(s) PROVE h[i + 1] \in Seq(Events)
    OBVIOUS
  <2>2. h[i + 1] = Kept(s, h, i + 1) /\ h[i] \in Seq(Events) /\ s[i + 1] \in Events
    BY <2>1 DEF Keeps
  <2> QED
    BY <2>2 DEF Kept
<1>3. S = Nat
  <2> HIDE DEF S
  <2>1. S \subseteq Nat
    BY DEF S
  <2> QED
    BY <1>1, <1>2, <2>1, Induction
<1> QED
  BY <1>3

(* What is usable of two lists, one after the other.                       *)
LEMMA AppendBoth ==
  ASSUME NEW a \in Seq(Events), NEW b \in Seq(Events), NEW e \in Events
  PROVE  Append(a \o b, e) = a \o Append(b, e)
<1>1. Len(Append(a \o b, e)) = Len(a \o Append(b, e))
  OBVIOUS
<1>2. ASSUME NEW i \in 1..(Len(a) + Len(b) + 1)
      PROVE  Append(a \o b, e)[i] = (a \o Append(b, e))[i]
  OBVIOUS
<1>3. /\ Append(a \o b, e) \in Seq(Events) /\ a \o Append(b, e) \in Seq(Events)
      /\ Len(Append(a \o b, e)) = Len(a) + Len(b) + 1
  OBVIOUS
<1> QED
  BY <1>1, <1>2, <1>3, SeqEqual

LEMMA UsableOfBoth ==
  ASSUME NEW s \in Seq(Events), NEW t \in Seq(Events)
  PROVE  /\ H!UsableOf(s) \in Seq(Events)
         /\ H!UsableOf(s \o t) = H!UsableOf(s) \o H!UsableOf(t)
<1> DEFINE n == Len(s)
           m == Len(t)
           u == s \o t
<1>0. /\ n \in Nat /\ m \in Nat /\ n + m \in Nat
      /\ Len(u) = n + m /\ u \in Seq(Events)
      /\ \A i \in 1..n : u[i] = s[i]
      /\ \A j \in 1..m : u[n + j] = t[j] /\ t[j] \in Events
  OBVIOUS
<1>a. Len(s) = n /\ Len(t) = m /\ s \o t = u
  OBVIOUS
<1> HIDE DEF n, m, u
<1>1. PICK hs : Keeps(s, n, hs)
  BY <1>0, KeepsExists
<1>2. PICK ht : Keeps(t, m, ht)
  BY <1>0, KeepsExists
<1>3. PICK hu : Keeps(u, n + m, hu)
  BY <1>0, KeepsExists
<1>4. H!UsableOf(s) = hs[n] /\ H!UsableOf(t) = ht[m] /\ H!UsableOf(u) = hu[n + m]
  BY <1>0, <1>a, <1>1, <1>2, <1>3, UsableOfKeeps
<1>5. hs[n] \in Seq(Events) /\ \A j \in 0..m : ht[j] \in Seq(Events)
  BY <1>0, <1>a, <1>1, <1>2, KeepsType
<1>6. hu[n] = hs[n]
  <2>1. ASSUME NEW i \in 0..n PROVE hu[i] = Kept(s, hu, i)
    <3>1. hu[i] = Kept(u, hu, i)
      BY <1>0, <1>3 DEF Keeps
    <3>2. i # 0 => u[i] = s[i]
      BY <1>0
    <3> QED
      BY <3>1, <3>2 DEF Kept
  <2>2. Keeps(s, n, hu)
    BY <2>1 DEF Keeps
  <2> QED
    BY <1>0, <1>1, <2>2, KeepsUnique
<1> DEFINE Same(j) == hu[n + j] = hs[n] \o ht[j]
           S == {j \in Nat : j <= m => Same(j)}
<1>b. /\ S \subseteq Nat
      /\ \A j \in Nat : j \in S <=> (j <= m => Same(j))
  <2> HIDE DEF Same
  <2> QED
    OBVIOUS
<1> HIDE DEF S
<1>7. 0 \in S
  <2>1. ht[0] = <<>>
    BY <1>0, <1>2, KeepsNothing
  <2>2. n + 0 = n
    BY <1>0
  <2>3. hs[n] \o <<>> = hs[n]
    BY <1>5
  <2>4. Same(0)
    BY <1>6, <2>1, <2>2, <2>3
  <2> QED
    BY <1>b, <2>4
<1>8. ASSUME NEW j \in S PROVE j + 1 \in S
  <2>1. SUFFICES ASSUME j + 1 <= m
                 PROVE  Same(j + 1)
    <3> HIDE DEF Same
    <3> QED
      BY <1>b
  <2>2. /\ (n + (j + 1)) - 1 = n + j /\ n + (j + 1) # 0
        /\ (j + 1) - 1 = j /\ j + 1 # 0 /\ j \in 0..m /\ j <= m
        /\ j + 1 \in 0..m /\ n + (j + 1) \in 0..(n + m)
    BY <1>0, <1>b, <2>1
  <2>3. hu[n + (j + 1)] = Kept(u, hu, n + (j + 1)) /\ ht[j + 1] = Kept(t, ht, j + 1)
    BY <1>2, <1>3, <2>2 DEF Keeps
  <2>4. u[n + (j + 1)] = t[j + 1] /\ t[j + 1] \in Events
    <3>1. j + 1 \in 1..m
      BY <1>0, <1>b, <2>1
    <3> QED
      BY <1>0, <3>1
  <2>5. hu[n + j] = hs[n] \o ht[j] /\ ht[j] \in Seq(Events)
    BY <1>5, <1>b, <2>2
  <2>6. Append(hs[n] \o ht[j], t[j + 1]) = hs[n] \o Append(ht[j], t[j + 1])
    BY <1>5, <2>4, <2>5, AppendBoth
  <2> QED
    BY <2>2, <2>3, <2>4, <2>5, <2>6 DEF Kept
<1>9. S = Nat
  BY <1>7, <1>8, <1>b, Induction
<1>10. hu[n + m] = hs[n] \o ht[m]
  <2>1. m \in S /\ m <= m
    BY <1>0, <1>9
  <2> QED
    BY <1>0, <1>b, <2>1
<1> QED
  BY <1>a, <1>4, <1>5, <1>10

-----------------------------------------------------------------------------
(* Pages.                                                                  *)

LEMMA Times ==
  ASSUME NEW l \in Nat \ {0}, NEW a \in Nat, NEW b \in Nat, a <= b
  PROVE  l * a <= l * b
OBVIOUS

LEMMA Quotient ==
  ASSUME NEW a \in Nat, NEW l \in Nat \ {0}
  PROVE  a \div l \in Nat /\ l * (a \div l) <= a /\ a < l * (a \div l) + l
OBVIOUS

(* Pages of l are at most k if and only if so many hold n events.          *)
LEMMA PagesHold ==
  ASSUME NEW n \in Nat, NEW k \in Nat, NEW l \in Nat \ {0}
  PROVE  (n + l - 1) \div l \in Nat /\ ((n + l - 1) \div l <= k <=> n <= l * k)
<1> DEFINE q == (n + l - 1) \div l
<1>1. q \in Nat /\ l * q <= n + l - 1 /\ n + l - 1 < l * q + l
  BY Quotient
<1> HIDE DEF q
<1>2. ASSUME q <= k PROVE n <= l * k
  BY <1>1, <1>2, Times
<1>3. ASSUME ~(q <= k) PROVE ~(n <= l * k)
  <2>1. l * (k + 1) <= l * q
    BY <1>1, <1>3, Times
  <2>2. l * (k + 1) = l * k + l
    OBVIOUS
  <2> QED
    BY <1>1, <2>1, <2>2
<1> QED
  BY <1>1, <1>2, <1>3 DEF q

(* What is covered when the search stops: the page it has read, if that is *)
(* the first to end at Depth or after it, and no less than it in any case. *)
LEMMA CoveredPages ==
  ASSUME NEW l \in Nat \ {0}, NEW p \in Nat, Depth \in Nat, l * p < Depth
  PROVE  /\ H!Covered(l) \in Nat
         /\ l * (p + 1) <= H!Covered(l)
         /\ Depth <= l * (p + 1) => H!Covered(l) = l * (p + 1)
<1> DEFINE q == (Depth + l - 1) \div l
<1>1. q \in Nat /\ ~(q <= p) /\ (Depth <= l * (p + 1) => q <= p + 1)
  BY PagesHold
<1>2. H!Covered(l) = l * q
  BY DEF H!Covered
<1> HIDE DEF q
<1>3. l * q \in Nat /\ l * (p + 1) <= l * q
  BY <1>1, Times
<1>4. Depth <= l * (p + 1) => q = p + 1
  BY <1>1
<1> QED
  BY <1>2, <1>3, <1>4

First(n) == SubSeq(events, 1, n)
Least(a, b) == IF a < b THEN a ELSE b

(* The usable events up to b are those up to a and those between.          *)
LEMMA UsableUpTo ==
  ASSUME events \in Seq(Events), NEW a \in Nat, NEW b \in Nat,
         a <= b, b <= Len(events)
  PROVE  /\ H!UsableOf(First(a)) \in Seq(Events)
         /\ H!UsableOf(SubSeq(events, a + 1, b)) \in Seq(Events)
         /\ H!UsableOf(First(b)) =
              H!UsableOf(First(a)) \o H!UsableOf(SubSeq(events, a + 1, b))
<1>1. /\ First(a) \in Seq(Events) /\ SubSeq(events, a + 1, b) \in Seq(Events)
      /\ First(b) \in Seq(Events)
      /\ Len(First(a)) = a /\ Len(SubSeq(events, a + 1, b)) = b - a
      /\ Len(First(b)) = b
  BY DEF First
<1>2. First(b) = First(a) \o SubSeq(events, a + 1, b)
  <2> DEFINE c == First(a) \o SubSeq(events, a + 1, b)
  <2>1. c \in Seq(Events) /\ Len(c) = b
    BY <1>1
  <2>2. ASSUME NEW i \in 1..b PROVE First(b)[i] = c[i]
    <3>1. First(b)[i] = events[i]
      BY DEF First
    <3>2. CASE i <= a
      <4>1. c[i] = First(a)[i]
        BY <1>1, <3>2
      <4>2. First(a)[i] = events[i]
        BY <3>2 DEF First
      <4> QED
        BY <3>1, <4>1, <4>2
    <3>3. CASE ~(i <= a)
      <4>1. ASSUME NEW s \in Seq(Events), NEW t \in Seq(Events), NEW j \in 1..Len(t)
            PROVE  (s \o t)[Len(s) + j] = t[j]
        OBVIOUS
      <4>2. c[i] = SubSeq(events, a + 1, b)[i - a]
        <5>1. i - a \in 1..(b - a) /\ a + (i - a) = i
          BY <3>3
        <5> HIDE DEF c
        <5>2. c[a + (i - a)] = SubSeq(events, a + 1, b)[i - a]
          BY <1>1, <4>1, <5>1 DEF c
        <5> QED
          BY <5>1, <5>2
      <4>3. SubSeq(events, a + 1, b)[i - a] = events[i]
        BY <3>3
      <4> QED
        BY <3>1, <4>2, <4>3
    <3> QED
      BY <3>2, <3>3
  <2> HIDE DEF c
  <2>3. First(b) = c
    BY <1>1, <2>1, <2>2, SeqEqual
  <2> QED
    BY <2>3 DEF c
<1> QED
  BY <1>1, <1>2, UsableOfBoth

LEMMA UsableIsPrefix ==
  ASSUME events \in Seq(Events), NEW a \in Nat, NEW b \in Nat,
         a <= b, b <= Len(events)
  PROVE  H!IsPrefix(H!UsableOf(First(a)), H!UsableOf(First(b)))
<1>1. ASSUME NEW s \in Seq(Events), NEW t \in Seq(Events)
      PROVE  H!IsPrefix(s, s \o t)
  <2>1. SubSeq(s, 1, Len(s)) = SubSeq(s \o t, 1, Len(s))
    OBVIOUS
  <2> QED
    BY <2>1 DEF H!IsPrefix
<1> QED
  BY <1>1, UsableUpTo

-----------------------------------------------------------------------------
(* Searches.                                                               *)

Search ==
  [step : {"idle", "paging", "done", "failed"}, tenant : Tenants \union {NoKey},
   key : Tenants \union {ServerKey, NoKey}, limit : Nat, page : Nat,
   results : Seq(Events), still : BOOLEAN, deep : BOOLEAN]

HTypes == events \in Lists /\ search \in [Searches -> Search]

(* A search that pages has read the pages before the one it is at, of a    *)
(* list that has stood still, and there is more of it.                     *)
ReadSoFar(s) ==
  /\ s.page # 0 => s.limit * s.page < Len(events)
  /\ s.results = H!UsableOf(First(s.limit * s.page))

Paging(s) ==
  /\ s.limit # 0 /\ ~s.deep
  /\ s.key \in {s.tenant, ServerKey}
  /\ s.page # 0 => s.limit * s.page < Depth
  /\ s.still => ReadSoFar(s)

HInv ==
  /\ HTypes
  /\ \A r \in Searches : search[r].step = "paging" => Paging(search[r])

Answer(l) == H!UsableOf(First(Least(H!Covered(l), Len(events))))

(* The next page of a list that stands still.                              *)
LEMMA NextPage ==
  ASSUME H!HubAssumption, events \in Lists,
         NEW l \in Nat \ {0}, NEW p \in Nat, NEW results,
         p # 0 => l * p < Depth,
         p # 0 => l * p < Len(events),
         results = H!UsableOf(First(l * p))
  PROVE  LET more == results \o H!UsableOf(H!Page(l, p))
             last == \/ H!Page(l, p) = <<>>
                     \/ p + 1 >= H!TotalPages(l)
                     \/ (p + 1) * l >= Depth
         IN  /\ last => more = Answer(l)
             /\ ~last => /\ l * (p + 1) < Depth
                         /\ l * (p + 1) < Len(events)
                         /\ more = H!UsableOf(First(l * (p + 1)))
<1> DEFINE a == l * p
           c == l * (p + 1)
           n == Len(events)
           b == Least(c, n)
<1>1. /\ events \in Seq(Events) /\ n \in Nat /\ Depth \in Nat /\ Depth > 0
  BY DEF H!HubAssumption
<1>2. /\ a \in Nat /\ c \in Nat /\ c = a + l /\ p * l = a /\ (p + 1) * l = c
      /\ (p = 0 => a = 0)
  OBVIOUS
<1>3. a <= n /\ a < Depth
  BY <1>1, <1>2
<1>4. b \in Nat /\ a <= b /\ b <= n
  BY <1>1, <1>2, <1>3 DEF Least
<1>5. H!Page(l, p) = SubSeq(events, a + 1, b)
  BY <1>2 DEF H!Page, Least
<1>6. results \o H!UsableOf(H!Page(l, p)) = H!UsableOf(First(b))
  BY <1>1, <1>2, <1>3, <1>4, <1>5, UsableUpTo
<1>7. H!TotalPages(l) \in Nat /\ (p + 1 >= H!TotalPages(l) <=> n <= c)
  BY <1>1, PagesHold DEF H!TotalPages
<1>8. /\ H!Covered(l) \in Nat /\ c <= H!Covered(l)
      /\ Depth <= c => H!Covered(l) = c
  BY <1>1, <1>3, CoveredPages
<1>9. ASSUME H!Page(l, p) = <<>> PROVE n <= c
  <2>1. b - a <= 0
    <3>1. Len(SubSeq(events, a + 1, b)) = IF a + 1 <= b THEN b - a ELSE 0
      BY <1>1, <1>4
    <3>2. Len(<<>>) = 0
      OBVIOUS
    <3> HIDE DEF a, b
    <3> QED
      BY <1>2, <1>4, <1>5, <1>9, <3>1, <3>2
  <2> QED
    BY <1>1, <1>2, <1>3, <1>4, <2>1 DEF Least
<1> HIDE DEF a, c, n
<1>10. ASSUME n <= c \/ Depth <= c PROVE b = Least(H!Covered(l), n)
  BY <1>1, <1>2, <1>8, <1>10 DEF Least
<1>11. ASSUME ~(n <= c) PROVE b = c
  BY <1>1, <1>2, <1>11 DEF Least
<1> DEFINE more == results \o H!UsableOf(H!Page(l, p))
           last == \/ H!Page(l, p) = <<>>
                   \/ p + 1 >= H!TotalPages(l)
                   \/ (p + 1) * l >= Depth
<1>12. more = H!UsableOf(First(b))
  BY <1>6
<1>13. last => n <= c \/ Depth <= c
  BY <1>2, <1>7, <1>9
<1>14. ~last => ~(n <= c) /\ ~(Depth <= c)
  BY <1>1, <1>2, <1>7
<1> HIDE DEF b, more, last
<1>15. last => more = Answer(l)
  BY <1>10, <1>12, <1>13 DEF Answer, n
<1>16. ~last => c < Depth /\ c < n /\ more = H!UsableOf(First(c))
  BY <1>1, <1>2, <1>11, <1>12, <1>14
<1> QED
  BY <1>15, <1>16, Zenon DEF more, last, c, n

(* What one search does to another.                                        *)
LEMMA OnlyOne ==
  ASSUME HInv, NEW r \in Searches, NEW s,
         search' = [search EXCEPT ![r] = s], UNCHANGED <<credential, events>>,
         s \in Search,
         s.step = "paging" => Paging(s),
         search[r].step = "paging" /\ s.step = "done" /\ s.still =>
           IF s.deep THEN H!IsPrefix(s.results, Answer(s.limit))
           ELSE s.results = Answer(s.limit)
  PROVE  HInv' /\ H!AnswerIsTheList
<1>1. HTypes'
  BY DEF HInv, HTypes
<1>2. /\ search'[r] = s
      /\ \A q \in Searches : q # r => search'[q] = search[q]
  BY DEF HInv, HTypes
<1>3. ASSUME NEW q \in Searches, search'[q].step = "paging" PROVE Paging(search[q])'
  <2>1. Paging(search'[q])
    BY <1>2, <1>3 DEF HInv
  <2> QED
    BY <2>1 DEF Paging, ReadSoFar, First
<1>4. H!AnswerIsTheList
  BY <1>2 DEF H!AnswerIsTheList, Answer, First, Least
<1> QED
  BY <1>1, <1>3, <1>4 DEF HInv

LEMMA BeginStep ==
  ASSUME H!HubAssumption, HInv, NEW r \in Searches, NEW t \in Tenants, NEW n \in Limits,
         H!Begin(r, t, n)
  PROVE  HInv' /\ H!AnswerIsTheList
<1> DEFINE s == [H!Idle EXCEPT !.tenant = t, !.key = H!ProviderKey(t),
                  !.limit = H!PageSize(n),
                  !.step = IF H!ProviderKey(t) = NoKey THEN "failed" ELSE "paging"]
<1>1. /\ search[r].step = "idle" /\ search' = [search EXCEPT ![r] = s]
      /\ UNCHANGED <<credential, events>>
  BY DEF H!Begin
<1>2. H!PageSize(n) \in Nat \ {0} /\ H!ProviderKey(t) \in {t, ServerKey}
  BY DEF H!HubAssumption, H!PageSize, H!ProviderKey
<1>3. /\ s.step \in {"failed", "paging"} /\ s.tenant = t /\ s.key = H!ProviderKey(t)
      /\ s.limit = H!PageSize(n) /\ s.page = 0 /\ s.results = <<>>
      /\ s.still = TRUE /\ s.deep = FALSE
  BY DEF H!Idle
<1>4. s \in Search
  <2>1. H!Idle \in Search
    BY DEF H!Idle, Search
  <2>2. (IF H!ProviderKey(t) = NoKey THEN "failed" ELSE "paging") \in {"failed", "paging"}
    OBVIOUS
  <2> QED
    BY <1>2, <2>1, <2>2 DEF Search
<1> HIDE DEF s
<1>5. Paging(s)
  <2>1. s.limit * s.page = 0
    BY <1>2, <1>3
  <2>2. H!UsableOf(First(0)) = <<>>
    <3>1. First(0) = <<>>
      BY DEF First
    <3>2. Keeps(<<>>, 0, [i \in 0..0 |-> <<>>])
      BY DEF Keeps, Kept
    <3>3. Len(<<>>) = 0
      OBVIOUS
    <3> QED
      BY <3>1, <3>2, <3>3, UsableOfKeeps
  <2> QED
    BY <1>2, <1>3, <2>1, <2>2 DEF Paging, ReadSoFar
<1> QED
  BY <1>1, <1>4, <1>5, OnlyOne

LEMMA FetchStep ==
  ASSUME H!HubAssumption, HInv, NEW r \in Searches, H!FetchPage(r)
  PROVE  HInv' /\ H!AnswerIsTheList
<1> DEFINE o == search[r]
           page == H!Page(o.limit, o.page)
           more == o.results \o H!UsableOf(page)
           last == \/ page = <<>>
                   \/ o.page + 1 >= H!TotalPages(o.limit)
                   \/ (o.page + 1) * o.limit >= Depth
           s == [o EXCEPT !.results = more, !.page = @ + 1,
                          !.step = IF last THEN "done" ELSE "paging"]
<1>1. /\ o.step = "paging" /\ search' = [search EXCEPT ![r] = s]
      /\ UNCHANGED <<credential, events>>
  BY DEF H!FetchPage
<1>2. /\ o \in Search
      /\ Paging(o) /\ events \in Lists /\ events \in Seq(Events)
  BY <1>1 DEF HInv, HTypes, H!HubAssumption
<1>3. more \in Seq(Events)
  <2>1. page \in Seq(Events)
    <3> DEFINE b == IF (o.page + 1) * o.limit < Len(events)
                    THEN (o.page + 1) * o.limit ELSE Len(events)
    <3>0. o.page \in Nat /\ o.limit \in Nat /\ Len(events) \in Nat
      BY <1>2 DEF Search
    <3>1. o.page * o.limit + 1 \in Nat \ {0} /\ b \in Nat /\ b <= Len(events)
      <4> HIDE DEF o
      <4> QED
        BY <3>0
    <3> HIDE DEF b
    <3>2. SubSeq(events, o.page * o.limit + 1, b) \in Seq(Events)
      BY <1>2, <3>1
    <3> QED
      BY <3>2 DEF b, H!Page
  <2>2. H!UsableOf(page) \in Seq(Events)
    BY <1>2, <2>1, UsableOfBoth
  <2> QED
    BY <1>2, <2>2 DEF Search
<1>4. o.still => /\ last => more = Answer(o.limit)
                 /\ ~last => /\ o.limit * (o.page + 1) < Depth
                             /\ o.limit * (o.page + 1) < Len(events)
                             /\ more = H!UsableOf(First(o.limit * (o.page + 1)))
  <2>1. ASSUME o.still
        PROVE /\ o.page # 0 => o.limit * o.page < Depth
              /\ o.page # 0 => o.limit * o.page < Len(events)
              /\ o.results = H!UsableOf(First(o.limit * o.page))
    BY <1>2, <2>1 DEF Paging, ReadSoFar
  <2>2. o.limit \in Nat \ {0} /\ o.page \in Nat
    BY <1>2 DEF Paging, Search
  <2> HIDE DEF o
  <2> QED
    BY <1>2, <2>1, <2>2, NextPage
<1>5. ~last => o.limit * (o.page + 1) < Depth
  <2>0. o.page \in Nat /\ o.limit \in Nat
    BY <1>2 DEF Search
  <2>1. o.limit * (o.page + 1) = (o.page + 1) * o.limit /\ (o.page + 1) * o.limit \in Nat
    <3> HIDE DEF o
    <3> QED
      BY <2>0
  <2> QED
    BY <2>1 DEF H!HubAssumption
<1> HIDE DEF page, more, last
<1>6. /\ s.results = more /\ s.page = o.page + 1 /\ s.limit = o.limit
      /\ s.step = IF last THEN "done" ELSE "paging"
      /\ s.tenant = o.tenant /\ s.key = o.key /\ s.still = o.still /\ s.deep = o.deep
  BY <1>2
<1>7. s \in Search
  <2>1. (IF last THEN "done" ELSE "paging") \in {"done", "paging"}
    OBVIOUS
  <2>2. o.page + 1 \in Nat
    BY <1>2 DEF Search
  <2> QED
    BY <1>2, <1>3, <2>1, <2>2 DEF Search
<1> HIDE DEF s, o
<1>8. s.step = "paging" => Paging(s)
  BY <1>2, <1>4, <1>5, <1>6 DEF Paging, ReadSoFar
<1>9. s.step = "done" /\ s.still => ~s.deep /\ s.results = Answer(s.limit)
  BY <1>2, <1>4, <1>6 DEF Paging
<1> QED
  BY <1>1, <1>7, <1>8, <1>9, OnlyOne

LEMMA EndSteps ==
  ASSUME H!HubAssumption, HInv, NEW r \in Searches, H!PageTooDeep(r) \/ H!FetchFails(r)
  PROVE  HInv' /\ H!AnswerIsTheList
<1> DEFINE o == search[r]
<1>1. o \in Search /\ events \in Seq(Events)
  BY DEF HInv, HTypes, H!HubAssumption
<1>2. CASE H!PageTooDeep(r)
  <2> DEFINE s == [o EXCEPT !.step = "done", !.deep = TRUE]
  <2>1. /\ o.step = "paging" /\ o.page > 0 /\ UNCHANGED <<credential, events>>
        /\ search' = [search EXCEPT ![r].step = "done", ![r].deep = TRUE]
    BY <1>2 DEF H!PageTooDeep
  <2>2. search' = [search EXCEPT ![r] = s]
    BY <2>1 DEF HInv, HTypes
  <2>3. s \in Search /\ s.step = "done" /\ s.deep = TRUE /\ s.results = o.results
        /\ s.limit = o.limit /\ s.still = o.still
    BY <1>1 DEF Search
  <2>4. ASSUME o.still PROVE H!IsPrefix(o.results, Answer(o.limit))
    <3>1. /\ o.limit \in Nat \ {0} /\ o.page \in Nat
          /\ o.limit * o.page < Depth /\ o.limit * o.page < Len(events)
          /\ o.results = H!UsableOf(First(o.limit * o.page))
      BY <1>1, <2>1, <2>4 DEF HInv, Paging, ReadSoFar, Search
    <3> HIDE DEF o
    <3>2. o.limit * o.page \in Nat
      BY <3>1
    <3>3. /\ H!Covered(o.limit) \in Nat
          /\ o.limit * (o.page + 1) <= H!Covered(o.limit)
      BY <3>1, CoveredPages DEF H!HubAssumption
    <3>4. o.limit * o.page <= o.limit * (o.page + 1) /\ o.limit * (o.page + 1) \in Nat
      BY <3>1
    <3>5. /\ Least(H!Covered(o.limit), Len(events)) \in Nat
          /\ o.limit * o.page <= Least(H!Covered(o.limit), Len(events))
          /\ Least(H!Covered(o.limit), Len(events)) <= Len(events)
      BY <1>1, <3>1, <3>2, <3>3, <3>4 DEF Least
    <3> QED
      BY <1>1, <3>1, <3>2, <3>5, UsableIsPrefix DEF Answer
  <2> HIDE DEF s
  <2>5. s.step # "paging"
    BY <2>3
  <2> QED
    BY <2>1, <2>2, <2>3, <2>4, <2>5, OnlyOne
<1>3. CASE H!FetchFails(r)
  <2> DEFINE s == [o EXCEPT !.step = "failed", !.results = <<>>]
  <2>1. /\ UNCHANGED <<credential, events>>
        /\ search' = [search EXCEPT ![r].step = "failed", ![r].results = <<>>]
    BY <1>3 DEF H!FetchFails
  <2>2. search' = [search EXCEPT ![r] = s]
    BY <2>1 DEF HInv, HTypes
  <2>3. s \in Search /\ s.step = "failed"
    <3>1. <<>> \in Seq(Events)
      OBVIOUS
    <3> QED
      BY <1>1, <3>1 DEF Search
  <2> HIDE DEF s
  <2> QED
    BY <2>1, <2>2, <2>3, OnlyOne
<1> QED
  BY <1>2, <1>3

LEMMA ListSteps ==
  ASSUME HInv,
         \/ \E t \in Tenants : \/ \E a, b \in BOOLEAN : H!PutCredential(t, a, b)
                              \/ H!DeleteCredential(t)
         \/ \E list \in Lists : H!EventsChange(list)
  PROVE  HInv' /\ H!AnswerIsTheList
<1>1. ASSUME UNCHANGED <<events, search>> PROVE HInv' /\ H!AnswerIsTheList
  <2>1. ASSUME NEW r \in Searches, search'[r].step = "paging" PROVE Paging(search[r])'
    BY <1>1, <2>1 DEF HInv, Paging, ReadSoFar, First
  <2> QED
    BY <1>1, <2>1 DEF HInv, HTypes, H!AnswerIsTheList
<1>2. ASSUME NEW list \in Lists, H!EventsChange(list)
      PROVE  HInv' /\ H!AnswerIsTheList
  <2>1. ASSUME NEW r \in Searches
        PROVE  /\ search'[r] \in Search
               /\ search'[r].step = search[r].step
               /\ search[r].step = "paging" => Paging(search[r])'
    <3>1. /\ search[r] \in Search
          /\ search'[r] = [search[r] EXCEPT !.still = @ /\ search[r].step # "paging"]
      BY <1>2 DEF H!EventsChange, HInv, HTypes
    <3>2. /\ search'[r].step = search[r].step /\ search'[r].limit = search[r].limit
          /\ search'[r].deep = search[r].deep /\ search'[r].key = search[r].key
          /\ search'[r].tenant = search[r].tenant /\ search'[r].page = search[r].page
          /\ search'[r].still = (search[r].still /\ search[r].step # "paging")
          /\ search'[r] \in Search
      BY <3>1 DEF Search
    <3>3. search[r].step = "paging" => Paging(search[r])'
      BY <3>2 DEF HInv, Paging
    <3> QED
      BY <3>2, <3>3
  <2>2. /\ events' \in Lists
        /\ search' = [r \in Searches |-> search'[r]]
    BY <1>2 DEF H!EventsChange
  <2> QED
    BY <2>1, <2>2 DEF HInv, HTypes, H!AnswerIsTheList
<1> QED
  BY <1>1, <1>2 DEF H!PutCredential, H!DeleteCredential

(* With its tenant's key or the server's, a search of a list that stands   *)
(* still is answered with all of its usable events up to the depth that    *)
(* the provider allows, or with the beginning of them, however many pages  *)
(* it takes, and for every size of a page and every list.                  *)
THEOREM SearchesFind ==
  ASSUME H!HubAssumption PROVE H!Spec => SearchesHold
<1>1. H!Init => HInv
  BY DEF H!Init, H!Idle, HInv, HTypes, Search
<1>2. HInv /\ [H!Next]_H!vars => HInv' /\ [H!AnswerIsTheList]_H!vars
  <2>1. ASSUME HInv, UNCHANGED H!vars PROVE HInv'
    <3>1. ASSUME NEW r \in Searches, search'[r].step = "paging" PROVE Paging(search[r])'
      BY <2>1, <3>1 DEF H!vars, HInv, Paging, ReadSoFar, First
    <3> QED
      BY <2>1, <3>1 DEF H!vars, HInv, HTypes
  <2> QED
    BY <2>1, BeginStep, FetchStep, EndSteps, ListSteps DEF H!Next
<1>3. HInv => \A r \in Searches : H!OwnKey(r)
  BY DEF HInv, Paging, H!OwnKey
<1> QED
  BY <1>1, <1>2, <1>3, PTL DEF H!Spec, SearchesHold, H!SearchesHold
=============================================================================
