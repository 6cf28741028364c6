---------------------------- MODULE GitHubProofs ----------------------------
(***************************************************************************)
(* Proofs about the GitHub integration: Connections, for any projects,     *)
(* requests in progress, repositories, plans and answers of GitHub, and    *)
(* Workbench, for any members, files, issues and numbers of scans.         *)
(***************************************************************************)
EXTENDS Connections, Workbench, SequenceTheorems, WellFoundedInduction, TLAPS

USE ConnectionsAssumption

Works == {"refresh", "connect", "patch", "fanConnect"}

(* Only a project has a connection, an authorization or a request that     *)
(* works on it.                                                            *)
RowsExist ==
    /\ Connected \subseteq projects
    /\ \A e \in envelopes : e.project \in projects
    /\ \A r \in Requests : req[r].at \in Works => req[r].project \in projects

TypeInv == TypeOK /\ RowsExist

(* A sign-in has not looked at a connected project yet, or it was          *)
(* connected afterwards.                                                   *)
LookInv == \A r \in Requests : req[r].at = "look" => Connected \subseteq req[r].todo \cup req[r].late

(* A refresh carries the choice that is stored, or that was overwritten    *)
(* after it was read.                                                      *)
ChoiceInv ==
    \A r \in Requests :
        LET p == req[r].project
        IN  req[r].at = "refresh" /\ conn[p] # None /\ p \notin req[r].late
              => req[r].meta.selected = conn[p].meta.selected

LEMMA MetaTypes ==
  /\ NoMeta \in Metadata /\ Idle \in Handlers
  /\ \A meta \in Metadata, repos \in SUBSET Repos :
        /\ RefreshedMeta(meta, repos) \in Metadata
        /\ RefreshedMeta(meta, repos).selected = meta.selected
  BY DEF NoMeta, Metadata, Idle, Handlers, Steps, RefreshedMeta

(* What another request holds after a write of p's row.                    *)
LEMMA LateParts ==
  ASSUME TypeInv, NEW p \in Projects, NEW r, NEW handler \in Handlers, NEW q \in Requests, q # r
  PROVE  LET new == Late(p, r, handler)[q]
         IN  /\ new \in Handlers /\ new.at = req[q].at /\ new.project = req[q].project
             /\ new.meta = req[q].meta /\ new.todo = req[q].todo
             /\ req[q].late \subseteq new.late
             /\ req[q].at \in {"look", "refresh"} => p \in new.late
  BY DEF TypeInv, TypeOK, Handlers, Late

(* A request that takes a step of its own, the rows being as they are.     *)
LEMMA StepKeeps ==
  ASSUME TypeInv, LookInv, ChoiceInv, NEW r \in Requests, NEW handler \in Handlers,
         Step(r, handler), projects \subseteq projects', projects' \subseteq Projects,
         envelopes' = envelopes,
         handler.at \in Works => handler.project \in projects',
         handler.at = "look" => Connected \subseteq handler.todo \cup handler.late,
         handler.at = "refresh" =>
            handler.meta.selected = conn[handler.project].meta.selected
  PROVE  TypeInv' /\ LookInv' /\ ChoiceInv'
<1>1. /\ conn' = conn /\ req' \in [Requests -> Handlers] /\ req'[r] = handler
      /\ \A q \in Requests \ {r} : req'[q] = req[q]
  BY DEF Step, TypeInv, TypeOK
<1>2. TypeInv'
  BY <1>1 DEF TypeInv, TypeOK, RowsExist, Connected
<1>3. LookInv'
  BY <1>1 DEF LookInv, Connected
<1>4. ChoiceInv'
  BY <1>1 DEF ChoiceInv
<1> QED
  BY <1>2, <1>3, <1>4

(* A write of a row, by a request or by none of them.                      *)
LEMMA WriteKeeps ==
  ASSUME TypeInv, LookInv, ChoiceInv, NEW p \in projects, NEW row \in Rows \cup {None}, NEW r,
         NEW handler \in Handlers, SetRow(p, row, r, handler), handler.at \in {"idle", "fan"},
         UNCHANGED <<projects, envelopes>>
  PROVE  TypeInv' /\ LookInv' /\ ChoiceInv'
<1>0. p \in Projects
  BY DEF TypeInv, TypeOK
<1>1. /\ conn' \in [Projects -> Rows \cup {None}] /\ req' = Late(p, r, handler)
      /\ \A q \in Projects \ {p} : conn'[q] = conn[q]
  BY <1>0 DEF SetRow, TypeInv, TypeOK
<1>2. \A q \in Requests : q = r => req'[q] = handler
  BY <1>1 DEF Late
<1>3. \A q \in Requests : q # r =>
         /\ req'[q] \in Handlers /\ req'[q].at = req[q].at /\ req'[q].project = req[q].project
         /\ req'[q].meta = req[q].meta /\ req'[q].todo = req[q].todo
         /\ req[q].late \subseteq req'[q].late
         /\ req[q].at \in {"look", "refresh"} => p \in req'[q].late
  BY <1>0, <1>1, LateParts
<1>4. req' \in [Requests -> Handlers]
  BY <1>1, <1>2, <1>3 DEF Late
<1>5. Connected' \subseteq Connected \cup {p}
  BY <1>1 DEF Connected
<1>6. TypeInv'
  BY <1>1, <1>2, <1>3, <1>4, <1>5 DEF TypeInv, TypeOK, RowsExist, Works
<1>7. LookInv'
  BY <1>2, <1>3, <1>5 DEF LookInv
<1>8. ChoiceInv'
  <2> SUFFICES ASSUME NEW q \in Requests, req'[q].at = "refresh", conn'[req'[q].project] # None,
                      req'[q].project \notin req'[q].late
               PROVE  req'[q].meta.selected = conn'[req'[q].project].meta.selected
    BY DEF ChoiceInv
  <2>1. q # r
    BY <1>2
  <2>2. /\ req[q].at = "refresh" /\ req[q].project = req'[q].project
        /\ req[q].project # p /\ req[q].project \notin req[q].late
    BY <1>3, <2>1
  <2>3. req[q].project \in Projects
    BY <2>2 DEF TypeInv, TypeOK, RowsExist, Works
  <2> QED
    BY <1>1, <1>3, <2>1, <2>2, <2>3 DEF ChoiceInv
<1> QED
  BY <1>6, <1>7, <1>8

Inv == TypeInv /\ LookInv /\ ChoiceInv

LEMMA InvInit == Init => Inv
<1> SUFFICES ASSUME Init PROVE Inv
  OBVIOUS
<1>1. req \in [Requests -> Handlers] /\ \A r \in Requests : req[r].at = "idle"
  BY MetaTypes DEF Init, Idle
<1> QED
  BY <1>1 DEF Init, Inv, TypeInv, TypeOK, RowsExist, Connected, Works, LookInv, ChoiceInv

(* A request held by another, in the form the steps use.                   *)
LEMMA HeldTypes ==
  ASSUME TypeInv, NEW r \in Requests
  PROVE  /\ req[r] \in Handlers /\ req[r].meta \in Metadata
         /\ req[r].meta.repos \in SUBSET Repos /\ req[r].meta.selected \in SUBSET Repos
         /\ req[r].todo \subseteq Projects /\ req[r].left \subseteq Repos
         /\ req[r].at \in Works => req[r].project \in projects /\ req[r].project \in Projects
  BY DEF TypeInv, TypeOK, RowsExist, Handlers, Metadata

LEMMA RowTypes ==
  ASSUME TypeInv, NEW p \in Projects, conn[p] # None
  PROVE  /\ conn[p] \in Rows /\ conn[p].meta \in Metadata /\ p \in projects
         /\ \A meta \in Metadata : [conn[p] EXCEPT !.meta = meta] \in Rows
  BY DEF TypeInv, TypeOK, RowsExist, Connected, Rows

LEMMA InvStep == Inv /\ [Next]_vars => Inv'
<1> SUFFICES ASSUME Inv, [Next]_vars PROVE Inv'
  OBVIOUS
<1> USE DEF Inv
<1>1. CASE UNCHANGED vars
  BY <1>1 DEF vars, TypeInv, TypeOK, RowsExist, Connected, LookInv, ChoiceInv
<1>2. ASSUME NEW p \in Projects, CreateProject(p) \/ Authorize(p) PROVE Inv'
  <2>1. /\ UNCHANGED <<conn, req>> /\ projects \subseteq projects' /\ projects' \subseteq Projects
        /\ envelopes' \subseteq [project : Projects, app : BOOLEAN]
        /\ \A e \in envelopes' : e.project \in projects'
    BY <1>2 DEF CreateProject, Authorize, TypeInv, TypeOK, RowsExist
  <2> QED
    BY <2>1 DEF TypeInv, TypeOK, RowsExist, Connected, LookInv, ChoiceInv
<1>3. ASSUME NEW p \in Projects, Disconnect(p) PROVE Inv'
  BY <1>3, MetaTypes, RowTypes, WriteKeeps DEF Disconnect, Idle
<1>4. ASSUME NEW e \in envelopes, Callback(e) PROVE Inv'
  <2>1. PICK repos \in Answers :
          SetRow(e.project,
                 [token |-> ~e.app, meta |-> [NoMeta EXCEPT !.repos = repos]], None, Idle)
    BY <1>4 DEF Callback
  <2>2. [token |-> ~e.app, meta |-> [NoMeta EXCEPT !.repos = repos]] \in Rows
    BY DEF TypeInv, TypeOK, Rows, Metadata, NoMeta
  <2>3. e.project \in projects
    BY DEF TypeInv, RowsExist
  <2> QED
    BY <1>4, <2>1, <2>2, <2>3, MetaTypes, WriteKeeps DEF Callback, Idle
<1>5. ASSUME NEW e \in envelopes, Expire(e) PROVE Inv'
  BY <1>5 DEF Expire, TypeInv, TypeOK, RowsExist, Connected, LookInv, ChoiceInv
<1>6. ASSUME NEW r \in Requests, Step(r, Idle), UNCHANGED <<projects, envelopes>> PROVE Inv'
  BY <1>6, MetaTypes, StepKeeps DEF Idle, Works, TypeInv, TypeOK
<1>7. ASSUME NEW r \in Requests, SignIn(r) PROVE Inv'
  <2>1. PICK repos \in Answers :
          Step(r, [Idle EXCEPT !.at = "look", !.meta.repos = repos, !.todo = LooksAt])
    BY <1>7 DEF SignIn
  <2> DEFINE h == [Idle EXCEPT !.at = "look", !.meta.repos = repos, !.todo = LooksAt]
  <2>2. h \in Handlers /\ h.at = "look" /\ h.todo = projects
    BY DEF Idle, Handlers, Steps, NoMeta, Metadata, LooksAt, TypeInv, TypeOK
  <2>3. Connected \subseteq h.todo \cup h.late
    BY <2>2 DEF TypeInv, RowsExist
  <2> HIDE DEF h
  <2> QED
    BY <1>7, <2>1, <2>2, <2>3, StepKeeps DEF SignIn, h, Works, TypeInv, TypeOK
<1>8. ASSUME NEW r \in Requests, NEW p \in Projects, SignInLook(r, p), conn[p] = None PROVE Inv'
  <2> DEFINE h == [req[r] EXCEPT !.todo = @ \ {p}, !.late = @ \ {p}]
  <2>1. Step(r, h) /\ UNCHANGED <<projects, envelopes>> /\ req[r].at = "look"
    BY <1>8 DEF SignInLook
  <2>2. /\ h \in Handlers /\ h.at = "look"
        /\ h.todo = req[r].todo \ {p} /\ h.late = req[r].late \ {p}
    BY <2>1, HeldTypes DEF Handlers
  <2>3. Connected \subseteq h.todo \cup h.late
    BY <1>8, <2>1, <2>2 DEF LookInv, Connected
  <2> HIDE DEF h
  <2> QED
    BY <2>1, <2>2, <2>3, StepKeeps DEF Works, TypeInv, TypeOK
<1>9. ASSUME NEW r \in Requests, NEW p \in Projects, SignInLook(r, p), conn[p] # None PROVE Inv'
  <2> DEFINE m == RefreshedMeta(conn[p].meta, req[r].meta.repos)
             h == [req[r] EXCEPT !.at = "refresh", !.project = p, !.late = {}, !.meta = m]
  <2>1. Step(r, h) /\ UNCHANGED <<projects, envelopes>>
    BY <1>9 DEF SignInLook
  <2>2. m \in Metadata /\ m.selected = conn[p].meta.selected /\ p \in projects
    BY <1>9, RowTypes, HeldTypes, MetaTypes
  <2> HIDE DEF m
  <2>3. h \in Handlers /\ h.at = "refresh" /\ h.project = p /\ h.meta = m
    BY <2>2, HeldTypes DEF Handlers, Steps
  <2> HIDE DEF h
  <2> QED
    BY <2>1, <2>2, <2>3, StepKeeps DEF TypeInv, TypeOK
<1>10. ASSUME NEW r \in Requests, SignInRefresh(r) \/ PatchWrite(r) PROVE Inv'
  <2>1. req[r].project \in projects /\ req[r].project \in Projects
    BY <1>10, HeldTypes DEF SignInRefresh, PatchWrite, Works
  <2>2. CASE conn[req[r].project] = None
    BY <1>6, <1>10, <2>2 DEF SignInRefresh, PatchWrite
  <2>3. CASE conn[req[r].project] # None
    <3>1. [conn[req[r].project] EXCEPT !.meta = req[r].meta] \in Rows
      BY <2>1, <2>3, RowTypes, HeldTypes
    <3> QED
      BY <1>10, <2>1, <2>3, <3>1, MetaTypes, WriteKeeps DEF SignInRefresh, PatchWrite, Idle
  <2> QED
    BY <2>2, <2>3
<1>11. ASSUME NEW r \in Requests, NEW p \in Projects, SignInCreate(r, p) PROVE Inv'
  <2> DEFINE h == [req[r] EXCEPT !.at = "connect", !.project = p, !.late = {}]
  <2>1. Step(r, h) /\ projects' = projects \cup {p} /\ envelopes' = envelopes
    BY <1>11 DEF SignInCreate
  <2>2. h \in Handlers /\ h.at = "connect" /\ h.project = p
    BY HeldTypes DEF Handlers, Steps
  <2> HIDE DEF h
  <2> QED
    BY <2>1, <2>2, StepKeeps DEF TypeInv, TypeOK
<1>12. ASSUME NEW r \in Requests, SignInConnect(r) PROVE Inv'
  <2>1. req[r].project \in projects
    BY <1>12, HeldTypes DEF SignInConnect, Works
  <2>2. CASE conn[req[r].project] # None
    BY <1>6, <1>12, <2>2 DEF SignInConnect
  <2>3. CASE conn[req[r].project] = None
    <3>1. [token |-> TRUE, meta |-> [NoMeta EXCEPT !.repos = req[r].meta.repos]] \in Rows
      BY HeldTypes DEF Rows, Metadata, NoMeta
    <3> QED
      BY <1>12, <2>1, <2>3, <3>1, MetaTypes, WriteKeeps DEF SignInConnect, Idle
  <2> QED
    BY <2>2, <2>3
<1>13. ASSUME NEW r \in Requests, NEW p \in Projects, PatchRead(r, p) PROVE Inv'
  <2>1. PICK chosen \in SUBSET Repos :
          Step(r, [Idle EXCEPT !.at = "patch", !.project = p,
                      !.meta = [conn[p].meta EXCEPT !.selected = chosen]])
    BY <1>13 DEF PatchRead
  <2>2. conn[p].meta \in Metadata /\ p \in projects
    BY <1>13, RowTypes DEF PatchRead
  <2>3. [conn[p].meta EXCEPT !.selected = chosen] \in Metadata
    BY <2>2 DEF Metadata
  <2> DEFINE h == [Idle EXCEPT !.at = "patch", !.project = p,
                      !.meta = [conn[p].meta EXCEPT !.selected = chosen]]
  <2>4. h \in Handlers /\ h.at = "patch" /\ h.project = p
    BY <2>3, MetaTypes DEF Handlers, Steps, Idle
  <2>5. Step(r, h) /\ UNCHANGED <<projects, envelopes>>
    BY <1>13, <2>1 DEF PatchRead
  <2> HIDE DEF h
  <2> QED
    BY <2>2, <2>4, <2>5, StepKeeps DEF TypeInv, TypeOK
<1>14. ASSUME NEW r \in Requests, NEW p \in Projects, FanOut(r, p) PROVE Inv'
  <2>1. PICK chosen \in SUBSET Repos :
          Step(r, [Idle EXCEPT !.at = "fan", !.left = chosen,
                      !.meta = [repos |-> conn[p].meta.repos, selected |-> {}]])
    BY <1>14 DEF FanOut
  <2> DEFINE h == [Idle EXCEPT !.at = "fan", !.left = chosen,
                      !.meta = [repos |-> conn[p].meta.repos, selected |-> {}]]
  <2>2. conn[p].meta \in Metadata
    BY <1>14, RowTypes DEF FanOut
  <2>3. h \in Handlers /\ h.at = "fan"
    BY <2>2, MetaTypes DEF Handlers, Steps, Idle, Metadata
  <2>4. Step(r, h) /\ UNCHANGED <<projects, envelopes>>
    BY <1>14, <2>1 DEF FanOut
  <2> HIDE DEF h
  <2> QED
    BY <2>3, <2>4, StepKeeps DEF TypeInv, TypeOK, Works
<1>15. ASSUME NEW r \in Requests, NEW p \in Projects, NEW repo \in Repos, FanProject(r, p, repo)
       PROVE  Inv'
  <2> DEFINE h == [req[r] EXCEPT !.at = "fanConnect", !.project = p, !.left = @ \ {repo},
                                 !.meta.selected = {repo}]
  <2>1. Step(r, h) /\ projects' = projects \cup {p} /\ envelopes' = envelopes
    BY <1>15 DEF FanProject
  <2>2. /\ req[r] \in Handlers /\ req[r].meta \in Metadata /\ req[r].left \subseteq Repos
        /\ [req[r].meta EXCEPT !.selected = {repo}] \in Metadata
    BY HeldTypes DEF Metadata
  <2>3. h \in Handlers /\ h.at = "fanConnect" /\ h.project = p
    BY <2>2 DEF Handlers, Steps
  <2> HIDE DEF h
  <2> QED
    BY <2>1, <2>3, StepKeeps DEF TypeInv, TypeOK
<1>16. ASSUME NEW r \in Requests, FanConnect(r) PROVE Inv'
  <2>1. req[r].project \in projects
    BY <1>16, HeldTypes DEF FanConnect, Works
  <2>2. CASE conn[req[r].project] # None
    BY <1>6, <1>16, <2>2 DEF FanConnect
  <2>3. CASE conn[req[r].project] = None
    <3>1. [token |-> TRUE, meta |-> req[r].meta] \in Rows
      BY HeldTypes DEF Rows
    <3>2. LET h == [req[r] EXCEPT !.at = "fan", !.project = None]
          IN  h \in Handlers /\ h.at = "fan"
      BY HeldTypes DEF Handlers, Steps
    <3> QED
      BY <1>16, <2>1, <2>3, <3>1, <3>2, WriteKeeps DEF FanConnect
  <2> QED
    BY <2>2, <2>3
<1>17. ASSUME NEW r \in Requests, FanEnd(r) \/ Fails(r) PROVE Inv'
  BY <1>6, <1>17 DEF FanEnd, Fails
<1> QED
  BY <1>1, <1>2, <1>3, <1>4, <1>5, <1>7, <1>8, <1>9, <1>10, <1>11, <1>12, <1>13, <1>14, <1>15,
     <1>16, <1>17 DEF Next

LEMMA InvAlways == Spec => []Inv
  BY InvInit, InvStep, PTL DEF Spec

(* The rows and the requests have their types, and only projects have any. *)
THEOREM TypeCorrect == Spec => []TypeInv
<1>1. Inv => TypeInv
  BY DEF Inv
<1> QED
  BY <1>1, InvAlways, PTL

-----------------------------------------------------------------------------
(* A step moves at most one request; a write of a row also marks others.   *)
LEMMA StepMoves ==
  ASSUME TypeInv, NEW r \in Requests, NEW handler, Step(r, handler), NEW q \in Requests
  PROVE  req'[q] = IF q = r THEN handler ELSE req[q]
  BY DEF Step, TypeInv, TypeOK

LEMMA WriteMoves ==
  ASSUME TypeInv, NEW p \in Projects, NEW row, NEW r, NEW handler \in Handlers,
         SetRow(p, row, r, handler), NEW q \in Requests
  PROVE  IF q = r THEN req'[q] = handler ELSE req'[q].at = req[q].at
<1>1. q = r => req'[q] = handler
  BY DEF SetRow, Late
<1>2. q # r => req'[q].at = req[q].at
  BY LateParts DEF SetRow
<1> QED
  BY <1>1, <1>2

(* A sign-in comes to connect a project only by creating one.              *)
LEMMA OnlyCreateConnects ==
  ASSUME Inv, [Next]_vars, NEW r \in Requests, req[r].at = "look", req'[r].at = "connect"
  PROVE  \E p \in Projects : SignInCreate(r, p)
<1> USE DEF Inv
<1>1. CASE UNCHANGED vars
  BY <1>1 DEF vars
<1>2. ASSUME NEW p \in Projects, CreateProject(p) \/ Authorize(p) PROVE FALSE
  BY <1>2 DEF CreateProject, Authorize
<1>3. ASSUME NEW p \in Projects, NEW row, NEW q, NEW handler \in Handlers,
             SetRow(p, row, q, handler), handler.at # "connect"
      PROVE  FALSE
  BY <1>3, WriteMoves
<1>4. Idle.at = "idle" /\ Idle \in Handlers
  BY MetaTypes DEF Idle
<1>5. ASSUME NEW p \in Projects, Disconnect(p) PROVE FALSE
  BY <1>3, <1>4, <1>5 DEF Disconnect
<1>6. ASSUME NEW e \in envelopes, Callback(e) \/ Expire(e) PROVE FALSE
  <2>1. e.project \in Projects
    BY DEF TypeInv, TypeOK
  <2> QED
    BY <1>3, <1>4, <1>6, <2>1 DEF Callback, Expire
<1>7. ASSUME NEW q \in Requests, NEW handler, Step(q, handler),
             q # r \/ handler.at # "connect"
      PROVE  FALSE
  BY <1>7, StepMoves
<1>8. ASSUME NEW q \in Requests,
             SignIn(q) \/ FanEnd(q) \/ Fails(q)
             \/ \E p \in Projects : PatchRead(q, p) \/ FanOut(q, p)
      PROVE  FALSE
  BY <1>4, <1>7, <1>8 DEF SignIn, FanEnd, Fails, PatchRead, FanOut, Idle
<1>9. ASSUME NEW q \in Requests, NEW p \in Projects, SignInLook(q, p) PROVE FALSE
  <2>1. req[q] \in Handlers
    BY HeldTypes
  <2> QED
    BY <1>7, <1>9, <2>1 DEF SignInLook, Handlers
<1>10. ASSUME NEW q \in Requests, SignInRefresh(q) \/ PatchWrite(q) \/ SignInConnect(q) PROVE FALSE
  <2>1. req[q].project \in Projects
    BY <1>10, HeldTypes DEF SignInRefresh, PatchWrite, SignInConnect, Works
  <2> QED
    BY <1>3, <1>4, <1>7, <1>10, <2>1 DEF SignInRefresh, PatchWrite, SignInConnect
<1>11. ASSUME NEW q \in Requests, FanConnect(q) PROVE FALSE
  <2>1. req[q].project \in Projects /\ req[q] \in Handlers
    BY <1>11, HeldTypes DEF FanConnect, Works
  <2>2. LET h == [req[q] EXCEPT !.at = "fan", !.project = None]
        IN  h \in Handlers /\ h.at = "fan"
    BY <2>1 DEF Handlers, Steps
  <2> QED
    BY <1>3, <1>4, <1>7, <1>11, <2>1, <2>2 DEF FanConnect
<1>12. ASSUME NEW q \in Requests, NEW p \in Projects, NEW repo \in Repos, FanProject(q, p, repo)
       PROVE  FALSE
  <2>1. q # r
    BY <1>12 DEF FanProject
  <2> QED
    BY <1>7, <1>12, <2>1 DEF FanProject
<1>13. ASSUME NEW q \in Requests, NEW p \in Projects, SignInCreate(q, p), q # r PROVE FALSE
  BY <1>7, <1>13 DEF SignInCreate
<1> QED
  BY <1>1, <1>2, <1>5, <1>6, <1>8, <1>9, <1>10, <1>11, <1>12, <1>13 DEF Next

(* A sign-in creates a project only if every connected one was connected   *)
(* after the sign-in had looked at it.                                     *)
THEOREM SignInReuses == Spec => SignInReusesTheProject
<1> DEFINE Reuses == \A r \in Requests : req[r].at = "look" /\ req'[r].at = "connect"
                        => Connected \subseteq req[r].late
<1>1. ASSUME Inv, [Next]_vars PROVE Reuses
  <2> SUFFICES ASSUME NEW r \in Requests, req[r].at = "look", req'[r].at = "connect"
               PROVE  Connected \subseteq req[r].late
    OBVIOUS
  <2>1. PICK p \in Projects : SignInCreate(r, p)
    BY <1>1, OnlyCreateConnects
  <2> QED
    BY <1>1, <2>1 DEF SignInCreate, Inv, LookInv
<1>2. ASSUME Inv, [Next]_vars PROVE [Reuses]_vars
  BY <1>1, <1>2
<1> QED
  BY <1>2, InvAlways, PTL DEF Spec, SignInReusesTheProject

(* A choice of repositories changes by another choice, or by a refresh     *)
(* that read the row before a write it did not see.                        *)
LEMMA ChoiceStep ==
  ASSUME Inv, [Next]_vars, NEW p \in Projects, conn[p] # None, conn'[p] # None,
         conn'[p].meta.selected # conn[p].meta.selected
  PROVE  \E r \in Requests :
           /\ req[r].project = p /\ req'[r].at = "idle"
           /\ \/ req[r].at = "patch"
              \/ req[r].at = "refresh" /\ p \in req[r].late
<1> USE DEF Inv
<1>1. \/ \E q \in Projects : Disconnect(q)
      \/ \E e \in envelopes : Callback(e)
      \/ \E r \in Requests : SignInRefresh(r) \/ PatchWrite(r) \/ SignInConnect(r) \/ FanConnect(r)
  BY DEF Next, vars, CreateProject, Authorize, Expire, SignIn, SignInLook, SignInCreate, PatchRead,
     FanOut, FanProject, FanEnd, Fails, Step
<1>2. ASSUME NEW q \in Projects, NEW row, NEW r, NEW handler, SetRow(q, row, r, handler)
      PROVE  p = q /\ row # None /\ conn'[p] = row
  BY <1>2 DEF SetRow, TypeInv, TypeOK
<1>3. ASSUME NEW q \in Projects, Disconnect(q) PROVE FALSE
  BY <1>2, <1>3 DEF Disconnect
<1>4. ASSUME NEW e \in envelopes, Callback(e) PROVE FALSE
  <2>1. e.project \in Projects
    BY DEF TypeInv, TypeOK
  <2> QED
    BY <1>2, <1>4, <2>1 DEF Callback
<1>5. ASSUME NEW r \in Requests, SignInConnect(r) \/ FanConnect(r) PROVE FALSE
  <2>1. req[r].project \in Projects
    BY <1>5, HeldTypes DEF SignInConnect, FanConnect, Works
  <2>2. conn[req[r].project] = None
    BY <1>5 DEF SignInConnect, FanConnect, Step
  <2> QED
    BY <1>2, <1>5, <2>1, <2>2 DEF SignInConnect, FanConnect
<1>6. ASSUME NEW r \in Requests, SignInRefresh(r) \/ PatchWrite(r)
      PROVE  /\ req[r].project = p /\ req'[r].at = "idle"
             /\ \/ req[r].at = "patch"
                \/ req[r].at = "refresh" /\ p \in req[r].late
  <2>1. req[r].project \in Projects
    BY <1>6, HeldTypes DEF SignInRefresh, PatchWrite, Works
  <2>2. SetRow(req[r].project, [conn[req[r].project] EXCEPT !.meta = req[r].meta], r, Idle)
    BY <1>6 DEF SignInRefresh, PatchWrite, Step
  <2>3. p = req[r].project /\ conn'[p] = [conn[p] EXCEPT !.meta = req[r].meta]
    BY <1>2, <2>1, <2>2
  <2>4. conn'[p].meta = req[r].meta
    BY <2>3, RowTypes DEF Rows
  <2>5. req'[r] = Idle
    BY <2>1, <2>2, MetaTypes, WriteMoves
  <2>6. req[r].at = "refresh" => p \in req[r].late
    BY <2>3, <2>4 DEF ChoiceInv
  <2> QED
    BY <1>6, <2>3, <2>5, <2>6 DEF SignInRefresh, PatchWrite, Idle
<1> QED
  BY <1>1, <1>3, <1>4, <1>5, <1>6

(* A choice is undone by an overlap alone.                                 *)
THEOREM OnlyOverlapLosesChoices == Spec => ChoiceLostOnlyByOverlap
<1> DEFINE Kept == \A p \in Projects :
                      conn[p] # None /\ conn'[p] # None
                        /\ conn'[p].meta.selected # conn[p].meta.selected
                        => \E r \in Requests :
                             /\ req[r].project = p /\ req'[r].at = "idle"
                             /\ \/ req[r].at = "patch"
                                \/ req[r].at = "refresh" /\ p \in req[r].late
<1>1. ASSUME Inv, [Next]_vars PROVE [Kept]_vars
  BY <1>1, ChoiceStep
<1> QED
  BY <1>1, InvAlways, PTL DEF Spec, ChoiceLostOnlyByOverlap

-----------------------------------------------------------------------------
(* Workbench. *)

HIDE ConnectionsAssumption
USE WorkbenchAssumption

(* The last of some positions of a sequence.                               *)
LEMMA NewestIsMember ==
  ASSUME NEW n \in Nat, NEW S, S \subseteq 1 .. n, S # {}
  PROVE  Newest(S) \in S
<1> DEFINE R == {ss \in Nat \X Nat : ss[1] < ss[2]}
           T == {n - k : k \in S}
<1>1. IsWellFoundedOn(R, Nat)
  <2>1. R = OpToRel(<, Nat)
    BY DEF OpToRel
  <2> QED
    BY <2>1, NatLessThanWellFounded
<1>2. T \subseteq Nat /\ T # {}
  <2>1. \A k \in S : n - k \in Nat
    OBVIOUS
  <2>2. PICK k \in S : TRUE
    OBVIOUS
  <2>3. n - k \in T
    BY <2>2
  <2>4. T \subseteq Nat
    BY <2>1
  <2> QED
    BY <2>3, <2>4
<1>3. PICK t \in T : \A u \in T : ~(<<u, t>> \in R)
  <2> HIDE DEF R, T
  <2> QED
    BY <1>1, <1>2, WFMin
<1>4. PICK k \in S : t = n - k
  BY <1>3
<1>5. ASSUME NEW j \in S PROVE j <= k
  <2>1. j \in Nat /\ k \in Nat /\ j <= n /\ k <= n /\ n - j \in T
    OBVIOUS
  <2>2. /\ <<n - j, t>> \in Nat \X Nat
        /\ <<n - j, t>>[1] = n - j /\ <<n - j, t>>[2] = t
    BY <1>2, <1>3, <2>1
  <2>3. ~(n - j < t)
    BY <1>3, <2>1, <2>2
  <2> QED
    BY <1>4, <2>1, <2>3
<1> QED
  BY <1>5 DEF Newest

LEMMA LatestIsRow ==
  ASSUME rows \in Seq(ScanRows), rows # << >>
  PROVE  Latest \in 1 .. Len(rows)
<1>1. Len(rows) \in Nat /\ DOMAIN rows = 1 .. Len(rows) /\ 1 \in DOMAIN rows
  <2>1. Len(rows) \in Nat \ {0}
    BY EmptySeq
  <2>2. DOMAIN rows = 1 .. Len(rows)
    OBVIOUS
  <2> QED
    BY <2>1, <2>2
<1> DEFINE S == IF Succeeded = {} THEN DOMAIN rows ELSE Succeeded
<1>2. S \subseteq 1 .. Len(rows) /\ S # {}
  BY <1>1 DEF Succeeded
<1>3. Newest(S) \in S
  BY <1>1, <1>2, NewestIsMember
<1> QED
  BY <1>2, <1>3 DEF Latest

Deeps(n) == [row : 1 .. n, snap : SUBSET (Issues \cup Recomputed), found : SUBSET Issues,
             todo : SUBSET Files, stale : BOOLEAN]
Pushes == [region : Issues, draft : Drafts, sha : SUBSET Marks]

LEMMA FixedIsMarks == \A d \in Drafts : Fixed(d) \subseteq Marks
  BY DEF Fixed, Drafts

LEMMA MissedIsDraft ==
  ASSUME content \in [Files -> SUBSET Marks], NEW f \in Files, NEW new \in SUBSET Marks,
         NEW d \in Drafts \cup {Nothing}
  PROVE  Missed(d, f, new) \in Drafts \cup {Nothing}
  BY DEF Missed, Drafts, SymDiff

LEMMA WriteType ==
  ASSUME WorkbenchTypeOK, NEW f \in Files, NEW new \in SUBSET Marks, Write(f, new)
  PROVE  /\ content' \in [Files -> SUBSET Marks]
         /\ gen' \in [Members -> Drafts \cup {Nothing}]
         /\ [m \in Members |-> Missed(fix[m], f, new)] \in [Members -> Drafts \cup {Nothing}]
         /\ content'[f] = new
<1>1. \A m \in Members : /\ Missed(gen[m], f, new) \in Drafts \cup {Nothing}
                        /\ Missed(fix[m], f, new) \in Drafts \cup {Nothing}
  BY MissedIsDraft DEF WorkbenchTypeOK
<1> QED
  BY <1>1 DEF WorkbenchTypeOK, Write

LEMMA OvertakenType ==
  ASSUME WorkbenchTypeOK, NEW k
  PROVE  Overtaken(k) \in [Members -> Deeps(Len(rows)) \cup {Nothing}]
<1>1. \A d \in Deeps(Len(rows)) : [d EXCEPT !.stale = TRUE] \in Deeps(Len(rows))
  BY DEF Deeps
<1>2. deep \in [Members -> Deeps(Len(rows)) \cup {Nothing}]
  BY DEF WorkbenchTypeOK, Deeps
<1> QED
  BY <1>1, <1>2 DEF Overtaken

LEMMA WorkbenchTypeInit == WorkbenchInit => WorkbenchTypeOK
  BY EmptySeq DEF WorkbenchInit, WorkbenchTypeOK, Marks

LEMMA TypeViews ==
  ASSUME WorkbenchTypeOK,
         \/ \E f \in Files : TeamPush(f)
         \/ \E m \in Members, i \in Issues : Select(m, i)
         \/ \E m \in Members : Generate(m) \/ Answer(m) \/ CommitFix(m) \/ Put(m) \/ PutFails(m)
  PROVE  WorkbenchTypeOK'
<1>1. ASSUME NEW f \in Files, TeamPush(f) PROVE WorkbenchTypeOK'
  <2>1. PICK new \in SUBSET Marks : Write(f, new)
    BY <1>1 DEF TeamPush, WorkbenchTypeOK, Marks
  <2>2. /\ content' \in [Files -> SUBSET Marks]
        /\ gen' \in [Members -> Drafts \cup {Nothing}]
        /\ fix' \in [Members -> Drafts \cup {Nothing}]
    BY <1>1, <2>1, WriteType DEF TeamPush
  <2> QED
    BY <1>1, <2>2 DEF TeamPush, WorkbenchTypeOK, validation
<1>2. ASSUME NEW m \in Members, NEW i \in Issues, Select(m, i) PROVE WorkbenchTypeOK'
  BY <1>2 DEF Select, WorkbenchTypeOK, repository, validation
<1>3. ASSUME NEW m \in Members, Generate(m) PROVE WorkbenchTypeOK'
  <2>1. [issue |-> sel[m], base |-> content[At[sel[m]]], since |-> {}] \in Drafts
    BY <1>3 DEF Generate, WorkbenchTypeOK, Drafts
  <2> QED
    BY <1>3, <2>1 DEF Generate, WorkbenchTypeOK, repository, validation
<1>4. ASSUME NEW m \in Members, Answer(m) PROVE WorkbenchTypeOK'
  BY <1>4 DEF Answer, WorkbenchTypeOK, repository, validation
<1>5. ASSUME NEW m \in Members, CommitFix(m) PROVE WorkbenchTypeOK'
  <2>1. [region |-> sel[m], draft |-> fix[m], sha |-> content[At[sel[m]]]] \in Pushes
    BY <1>5 DEF CommitFix, WorkbenchTypeOK, Pushes
  <2> QED
    BY <1>5, <2>1 DEF CommitFix, WorkbenchTypeOK, Pushes, repository, validation
<1>6. ASSUME NEW m \in Members, Put(m) PROVE WorkbenchTypeOK'
  <2> DEFINE f == At[push[m].region]
             new == Fixed(push[m].draft)
             missed == [n \in Members |-> Missed(fix[n], f, new)]
  <2>1. push[m] \in Pushes
    BY <1>6 DEF Put, WorkbenchTypeOK, Pushes
  <2>2. f \in Files /\ new \in SUBSET Marks
    BY <2>1, FixedIsMarks DEF Pushes
  <2>3. Write(f, new) /\ (fix' = [missed EXCEPT ![m] = Nothing] \/ fix' = missed)
    BY <1>6 DEF Put
  <2>4. /\ content' \in [Files -> SUBSET Marks]
        /\ gen' \in [Members -> Drafts \cup {Nothing}]
        /\ missed \in [Members -> Drafts \cup {Nothing}]
    BY <2>2, <2>3, WriteType
  <2> HIDE DEF f, new, missed
  <2>5. fix' \in [Members -> Drafts \cup {Nothing}]
    BY <2>3, <2>4
  <2> QED
    BY <1>6, <2>4, <2>5 DEF Put, WorkbenchTypeOK, validation
<1>7. ASSUME NEW m \in Members, PutFails(m) PROVE WorkbenchTypeOK'
  BY <1>7 DEF PutFails, WorkbenchTypeOK, repository, validation
<1> QED
  BY <1>1, <1>2, <1>3, <1>4, <1>5, <1>6, <1>7

LEMMA TypeScans ==
  ASSUME WorkbenchTypeOK,
         \/ StartScan
         \/ \E k \in DOMAIN rows : FinishScan(k)
         \/ \E m \in Members : DeepScanStart(m) \/ DeepScanSave(m) \/ DeepScanFails(m)
         \/ \E m \in Members, f \in Files : DeepScanFile(m, f)
  PROVE  /\ WorkbenchTypeOK'
         /\ Len(rows') >= Len(rows)
<1> DEFINE D == Deeps(Len(rows))
<1>0. /\ deep \in [Members -> D \cup {Nothing}] /\ rows \in Seq(ScanRows) /\ Len(rows) \in Nat
      /\ DOMAIN rows = 1 .. Len(rows)
  BY DEF WorkbenchTypeOK, Deeps
<1>1. CASE StartScan
  <2> DEFINE row == [status |-> "running", issues |-> {}, findings |-> {}]
  <2>1. row \in ScanRows
    BY DEF ScanRows
  <2>2. rows' \in Seq(ScanRows) /\ Len(rows') = Len(rows) + 1
    BY <1>0, <1>1, <2>1 DEF StartScan
  <2>3. Deeps(Len(rows)) \subseteq Deeps(Len(rows'))
    BY <1>0, <2>2 DEF Deeps
  <2>4. deep' \in [Members -> Deeps(Len(rows')) \cup {Nothing}]
    BY <1>0, <1>1, <2>3 DEF StartScan
  <2> QED
    BY <1>0, <1>1, <2>2, <2>4 DEF StartScan, WorkbenchTypeOK, Deeps, repository, views, validation
<1>2. ASSUME NEW k \in DOMAIN rows, FinishScan(k) PROVE WorkbenchTypeOK' /\ Len(rows') >= Len(rows)
  <2>1. PICK r \in ScanRows : rows' = [rows EXCEPT ![k] = r]
    <3> DEFINE found == {i \in Issues \ AiIssues : i \in content[At[i]]}
    <3>1. [status |-> "succeeded", issues |-> found, findings |-> found \cup Infra] \in ScanRows
      BY DEF ScanRows
    <3>2. rows[k] \in ScanRows /\ [rows[k] EXCEPT !.status = "failed"] \in ScanRows
      <4>1. rows[k] \in ScanRows
        BY <1>0
      <4> QED
        BY <4>1 DEF ScanRows
    <3> QED
      BY <1>2, <3>1, <3>2 DEF FinishScan
  <2>2. rows' \in Seq(ScanRows) /\ Len(rows') = Len(rows)
    BY <1>0, <2>1, ExceptSeq
  <2>3. Overtaken(k) \in [Members -> Deeps(Len(rows)) \cup {Nothing}]
    BY OvertakenType
  <2>4. deep' \in [Members -> Deeps(Len(rows')) \cup {Nothing}]
    BY <1>2, <2>2, <2>3 DEF FinishScan
  <2> QED
    BY <1>0, <1>2, <2>2, <2>4 DEF FinishScan, WorkbenchTypeOK, Deeps, repository, views, validation
<1>3. ASSUME NEW m \in Members, DeepScanStart(m)
      PROVE  WorkbenchTypeOK' /\ rows' = rows
  <2> DEFINE d == [row |-> Latest, snap |-> OfGraph(rows[Latest]), found |-> {},
                   todo |-> {f \in Files : RepoOf[f] = FirstRepo}, stale |-> FALSE]
  <2>1. Latest \in 1 .. Len(rows)
    BY <1>0, <1>3, LatestIsRow DEF DeepScanStart
  <2>2. OfGraph(rows[Latest]) \subseteq Issues \cup Recomputed
    <3>1. rows[Latest] \in ScanRows
      BY <1>0, <2>1
    <3> QED
      BY <3>1 DEF ScanRows, OfGraph
  <2>3. d \in D
    BY <2>1, <2>2 DEF Deeps
  <2> QED
    BY <1>0, <1>3, <2>3 DEF DeepScanStart, WorkbenchTypeOK, Deeps, repository, views, validation
<1>4. ASSUME NEW m \in Members, NEW f \in Files, DeepScanFile(m, f)
      PROVE  WorkbenchTypeOK' /\ rows' = rows
  <2>1. PICK flagged \in SUBSET AiIssues :
           deep' = [deep EXCEPT ![m].found = @ \cup flagged, ![m].todo = @ \ {f}]
    BY <1>4 DEF DeepScanFile
  <2>2. deep[m] \in D
    BY <1>0, <1>4 DEF DeepScanFile, Busy
  <2>3. [deep[m] EXCEPT !.found = @ \cup flagged, !.todo = @ \ {f}] \in D
    BY <2>2 DEF Deeps
  <2>4. deep' \in [Members -> D \cup {Nothing}]
    BY <1>0, <2>1, <2>3
  <2> QED
    BY <1>0, <1>4, <2>4 DEF DeepScanFile, WorkbenchTypeOK, Deeps, repository, views, validation
<1>5. ASSUME NEW m \in Members, DeepScanSave(m) PROVE WorkbenchTypeOK' /\ Len(rows') >= Len(rows)
  <2> DEFINE k == deep[m].row
             r == [rows[k] EXCEPT !.issues = Merged(deep[m]) \cap Issues, !.findings = Merged(deep[m])]
  <2>1. k \in 1 .. Len(rows) /\ Merged(deep[m]) \subseteq Issues \cup Infra
    BY <1>0, <1>5, WorkbenchAssumption DEF DeepScanSave, Busy, Deeps, Merged, WorkbenchAssumption
  <2>2. r \in ScanRows
    <3>1. rows[k] \in ScanRows
      BY <1>0, <2>1
    <3> QED
      BY <2>1, <3>1 DEF ScanRows
  <2>3. rows' = [rows EXCEPT ![k] = r]
    BY <1>0, <1>5, <2>1 DEF DeepScanSave
  <2>4. rows' \in Seq(ScanRows) /\ Len(rows') = Len(rows)
    BY <1>0, <2>1, <2>2, <2>3, ExceptSeq
  <2>5. deep' \in [Members -> D \cup {Nothing}]
    <3>1. Overtaken(k) \in [Members -> D \cup {Nothing}]
      BY OvertakenType
    <3> QED
      BY <1>5, <3>1 DEF DeepScanSave
  <2> QED
    BY <1>0, <1>5, <2>4, <2>5 DEF DeepScanSave, WorkbenchTypeOK, Deeps, repository, views, validation
<1>6. ASSUME NEW m \in Members, DeepScanFails(m)
      PROVE  WorkbenchTypeOK' /\ rows' = rows
  BY <1>6 DEF DeepScanFails, WorkbenchTypeOK, repository, views, validation
<1> QED
  BY <1>0, <1>1, <1>2, <1>3, <1>4, <1>5, <1>6

LEMMA TypeFindings ==
  ASSUME WorkbenchTypeOK,
         \/ \E i \in Issues : OpenPullRequest(i)
         \/ \E f \in Issues \cup Infra : TriageFinding(f)
         \/ \E x \in Issues \cup Infra : CheckFinding(x)
         \/ ValidationStart \/ ValidationEnd
  PROVE  WorkbenchTypeOK' /\ UNCHANGED <<content, rows, views, deep>>
<1> DEFINE Runs == [todo : SUBSET (Issues \cup Infra), checks : SUBSET Checks]
<1>0. run \in Runs \cup {Nothing} /\ rows \in Seq(ScanRows) /\ DOMAIN rows = 1 .. Len(rows) /\ Len(rows) \in Nat
  BY DEF WorkbenchTypeOK
<1>1. ASSUME NEW i \in Issues, OpenPullRequest(i)
      PROVE  WorkbenchTypeOK' /\ UNCHANGED <<content, rows, views, deep>>
  BY <1>1 DEF OpenPullRequest, WorkbenchTypeOK, validation, views
<1>2. ASSUME NEW f \in Issues \cup Infra, TriageFinding(f)
      PROVE  WorkbenchTypeOK' /\ UNCHANGED <<content, rows, views, deep>>
  BY <1>2 DEF TriageFinding, WorkbenchTypeOK, SymDiff, repository, validation, views
<1>3. ASSUME NEW x \in Issues \cup Infra, CheckFinding(x)
      PROVE  WorkbenchTypeOK' /\ UNCHANGED <<content, rows, views, deep>>
  <2>1. PICK outcome \in Outcomes :
           run' = [todo |-> run.todo \ {x},
                   checks |-> run.checks \cup {[finding |-> x, outcome |-> outcome]}]
    BY <1>3 DEF CheckFinding, SecretChecks, CodeChecks, Outcomes
  <2>2. run \in Runs
    BY <1>0, <1>3 DEF CheckFinding
  <2>3. run' \in Runs
    BY <2>1, <2>2 DEF Checks
  <2> QED
    BY <1>3, <2>3 DEF CheckFinding, WorkbenchTypeOK, repository, views
<1>4. CASE ValidationStart
  <2>1. Newest(Succeeded) \in 1 .. Len(rows)
    BY <1>0, <1>4, NewestIsMember DEF ValidationStart, Succeeded
  <2>2. rows[Newest(Succeeded)] \in ScanRows
    BY <1>0, <2>1
  <2>3. run' \in Runs
    BY <1>4, <2>2 DEF ValidationStart, ScanRows
  <2> QED
    BY <1>4, <2>3 DEF ValidationStart, WorkbenchTypeOK, repository, views
<1>5. CASE ValidationEnd
  BY <1>0, <1>5 DEF ValidationEnd, WorkbenchTypeOK, repository, views
<1> QED
  BY <1>1, <1>2, <1>3, <1>4, <1>5

LEMMA WorkbenchTypeStep ==
  WorkbenchTypeOK /\ [WorkbenchNext]_workbenchVars => WorkbenchTypeOK'
<1> SUFFICES ASSUME WorkbenchTypeOK, [WorkbenchNext]_workbenchVars PROVE WorkbenchTypeOK'
  OBVIOUS
<1>1. CASE UNCHANGED workbenchVars
  BY <1>1 DEF workbenchVars, WorkbenchTypeOK
<1>2. CASE WorkbenchNext
  BY <1>2, TypeViews, TypeScans, TypeFindings DEF WorkbenchNext
<1> QED
  BY <1>1, <1>2

(* The workbench keeps its types: a deep scan in progress, for one, always *)
(* holds a row there is.                                                   *)
THEOREM WorkbenchTypeCorrect == WorkbenchSpec => []WorkbenchTypeOK
  BY WorkbenchTypeInit, WorkbenchTypeStep, PTL DEF WorkbenchSpec

-----------------------------------------------------------------------------
(* A draft knows what its file has changed since it was read, and a commit *)
(* under way what changed up to its sha lookup.                            *)
Aware(d, marks) == SymDiff(marks, d.base) \subseteq d.since

DraftsAware ==
    \A m \in Members :
        /\ gen[m] # Nothing => Aware(gen[m], content[At[gen[m].issue]])
        /\ fix[m] # Nothing => Aware(fix[m], content[At[fix[m].issue]])

PushesAware ==
    \A m \in Members :
        push[m] # Nothing /\ At[push[m].region] = At[push[m].draft.issue]
            => Aware(push[m].draft, push[m].sha)

(* A deep scan that no change of its row overtook still holds the graph of *)
(* that row.                                                               *)
SnapsCurrent ==
    \A m \in Members :
        deep[m] # Nothing /\ ~deep[m].stale => deep[m].snap = OfGraph(rows[deep[m].row])

WorkbenchInv == WorkbenchTypeOK /\ DraftsAware /\ PushesAware /\ SnapsCurrent

(* Writing a file keeps the drafts of it aware: what they missed is added. *)
LEMMA MissedIsAware ==
  ASSUME content \in [Files -> SUBSET Marks], NEW f \in Files, NEW new \in SUBSET Marks,
         content' = [content EXCEPT ![f] = new],
         NEW d \in Drafts, d # Nothing, Aware(d, content[At[d.issue]])
  PROVE  Aware(Missed(d, f, new), content'[At[Missed(d, f, new).issue]])
<1>1. At[d.issue] \in Files
  BY DEF Drafts
<1>2. CASE At[d.issue] # f
  BY <1>1, <1>2 DEF Missed, Aware
<1>3. CASE At[d.issue] = f
  <2>1. /\ Missed(d, f, new).issue = d.issue
        /\ Missed(d, f, new).base = d.base
        /\ Missed(d, f, new).since = d.since \cup SymDiff(content[f], new)
    BY <1>3 DEF Missed, Drafts
  <2>2. content'[f] = new
    OBVIOUS
  <2>3. SymDiff(new, d.base) \subseteq SymDiff(content[f], d.base) \cup SymDiff(content[f], new)
    BY DEF SymDiff
  <2> QED
    BY <1>3, <2>1, <2>2, <2>3 DEF Aware
<1> QED
  BY <1>2, <1>3

LEMMA WriteKeepsAware ==
  ASSUME WorkbenchTypeOK, DraftsAware, NEW f \in Files, NEW new \in SUBSET Marks, Write(f, new),
         \A m \in Members : fix'[m] = Missed(fix[m], f, new) \/ fix'[m] = Nothing
  PROVE  DraftsAware'
<1>1. content' = [content EXCEPT ![f] = new] /\ content \in [Files -> SUBSET Marks]
  BY DEF Write, WorkbenchTypeOK
<1>2. ASSUME NEW d \in Drafts \cup {Nothing}, d # Nothing => Aware(d, content[At[d.issue]]),
             Missed(d, f, new) # Nothing
      PROVE  Aware(Missed(d, f, new), content'[At[Missed(d, f, new).issue]])
  BY <1>1, <1>2, MissedIsAware DEF Missed
<1>3. SUFFICES ASSUME NEW m \in Members
               PROVE  /\ gen'[m] # Nothing => Aware(gen'[m], content'[At[gen'[m].issue]])
                      /\ fix'[m] # Nothing => Aware(fix'[m], content'[At[fix'[m].issue]])
  BY DEF DraftsAware, Aware
<1>4. /\ gen[m] \in Drafts \cup {Nothing} /\ fix[m] \in Drafts \cup {Nothing}
      /\ gen[m] # Nothing => Aware(gen[m], content[At[gen[m].issue]])
      /\ fix[m] # Nothing => Aware(fix[m], content[At[fix[m].issue]])
  BY DEF WorkbenchTypeOK, DraftsAware
<1>5. gen'[m] = Missed(gen[m], f, new)
  BY DEF Write
<1> QED
  BY <1>2, <1>4, <1>5

LEMMA AwareViews ==
  ASSUME WorkbenchTypeOK, DraftsAware, PushesAware,
         \/ \E f \in Files : TeamPush(f)
         \/ \E m \in Members, i \in Issues : Select(m, i)
         \/ \E m \in Members : Generate(m) \/ Answer(m) \/ CommitFix(m) \/ Put(m) \/ PutFails(m)
  PROVE  DraftsAware' /\ PushesAware'
<1>1. ASSUME NEW f \in Files, TeamPush(f) PROVE DraftsAware' /\ PushesAware'
  <2>1. PICK new \in SUBSET Marks : Write(f, new)
    BY <1>1 DEF TeamPush, WorkbenchTypeOK, Marks
  <2>2. content'[f] = new
    BY <2>1, WriteType
  <2>3. \A m \in Members : fix'[m] = Missed(fix[m], f, new)
    BY <1>1, <2>2 DEF TeamPush
  <2>4. DraftsAware'
    BY <2>1, <2>3, WriteKeepsAware
  <2> QED
    BY <1>1, <2>4 DEF TeamPush, PushesAware, Aware
<1>2. ASSUME NEW m \in Members, NEW i \in Issues, Select(m, i) PROVE DraftsAware' /\ PushesAware'
  BY <1>2 DEF Select, WorkbenchTypeOK, DraftsAware, PushesAware, Aware, repository
<1>3. ASSUME NEW m \in Members, Generate(m) PROVE DraftsAware' /\ PushesAware'
  <2> DEFINE d == [issue |-> sel[m], base |-> content[At[sel[m]]], since |-> {}]
  <2>1. Aware(d, content[At[d.issue]])
    BY DEF Aware, SymDiff
  <2> HIDE DEF d
  <2>2. content' = content /\ push' = push
    BY <1>3 DEF Generate, repository
  <2>3. gen' = [gen EXCEPT ![m] = d] /\ fix' = [fix EXCEPT ![m] = Nothing]
    BY <1>3 DEF Generate, d
  <2>4. DraftsAware'
    BY <2>1, <2>2, <2>3 DEF WorkbenchTypeOK, DraftsAware, Aware
  <2> QED
    BY <2>2, <2>4 DEF PushesAware, Aware
<1>4. ASSUME NEW m \in Members, Answer(m) PROVE DraftsAware' /\ PushesAware'
  BY <1>4 DEF Answer, WorkbenchTypeOK, DraftsAware, PushesAware, Aware, repository
<1>5. ASSUME NEW m \in Members, CommitFix(m) PROVE DraftsAware' /\ PushesAware'
  <2> DEFINE p == [region |-> sel[m], draft |-> fix[m], sha |-> content[At[sel[m]]]]
  <2>1. At[p.region] = At[p.draft.issue] => Aware(p.draft, p.sha)
    BY <1>5 DEF CommitFix, DraftsAware
  <2> HIDE DEF p
  <2>2. /\ content' = content /\ gen' = gen /\ fix' = fix
        /\ push' = [push EXCEPT ![m] = p]
    BY <1>5 DEF CommitFix, repository, p
  <2>3. PushesAware'
    BY <2>1, <2>2 DEF WorkbenchTypeOK, PushesAware, Aware
  <2> QED
    BY <2>2, <2>3 DEF DraftsAware, Aware
<1>6. ASSUME NEW m \in Members, Put(m) PROVE DraftsAware' /\ PushesAware'
  <2> DEFINE f == At[push[m].region]
             new == Fixed(push[m].draft)
             missed == [n \in Members |-> Missed(fix[n], f, new)]
  <2>1. push[m] \in Pushes
    BY <1>6 DEF Put, WorkbenchTypeOK, Pushes
  <2>2. f \in Files /\ new \in SUBSET Marks
    BY <2>1, FixedIsMarks DEF Pushes
  <2>3. Write(f, new) /\ (fix' = [missed EXCEPT ![m] = Nothing] \/ fix' = missed)
    BY <1>6 DEF Put
  <2>4. \A n \in Members : fix'[n] = Missed(fix[n], f, new) \/ fix'[n] = Nothing
    BY <2>3
  <2> HIDE DEF f, new, missed
  <2>5. DraftsAware'
    BY <2>2, <2>3, <2>4, WriteKeepsAware
  <2>6. PushesAware'
    BY <1>6 DEF Put, WorkbenchTypeOK, PushesAware, Aware
  <2> QED
    BY <2>5, <2>6
<1>7. ASSUME NEW m \in Members, PutFails(m) PROVE DraftsAware' /\ PushesAware'
  BY <1>7 DEF PutFails, WorkbenchTypeOK, DraftsAware, PushesAware, Aware, repository
<1> QED
  BY <1>1, <1>2, <1>3, <1>4, <1>5, <1>6, <1>7

LEMMA SnapsScans ==
  ASSUME WorkbenchTypeOK, SnapsCurrent,
         \/ StartScan
         \/ \E k \in DOMAIN rows : FinishScan(k)
         \/ \E m \in Members : DeepScanStart(m) \/ DeepScanSave(m) \/ DeepScanFails(m)
         \/ \E m \in Members, f \in Files : DeepScanFile(m, f)
  PROVE  SnapsCurrent'
<1> DEFINE D == Deeps(Len(rows))
<1>0. /\ deep \in [Members -> D \cup {Nothing}] /\ rows \in Seq(ScanRows) /\ Len(rows) \in Nat
      /\ DOMAIN rows = 1 .. Len(rows)
  BY DEF WorkbenchTypeOK, Deeps
<1>1. CASE StartScan
  <2>1. \A k \in 1 .. Len(rows) : rows'[k] = rows[k]
    BY <1>0, <1>1 DEF StartScan
  <2>2. \A m \in Members : deep[m] # Nothing => deep[m].row \in 1 .. Len(rows)
    BY <1>0 DEF Deeps
  <2> QED
    BY <1>1, <2>1, <2>2 DEF StartScan, SnapsCurrent
(* Whoever read row k before it changes is marked. *)
<1>a. ASSUME NEW k \in 1 .. Len(rows), NEW m \in Members, Overtaken(k)[m] # Nothing,
             ~Overtaken(k)[m].stale
      PROVE  /\ deep[m] # Nothing /\ ~deep[m].stale /\ deep[m].row # k
             /\ Overtaken(k)[m] = deep[m] /\ deep[m].row \in 1 .. Len(rows)
  <2>1. deep[m] # Nothing /\ deep[m] \in D
    BY <1>0, <1>a DEF Overtaken
  <2>2. [deep[m] EXCEPT !.stale = TRUE].stale = TRUE
    BY <2>1 DEF Deeps
  <2> QED
    BY <1>a, <2>1, <2>2 DEF Overtaken, Deeps
<1>2. ASSUME NEW k \in DOMAIN rows, FinishScan(k) PROVE SnapsCurrent'
  <2>1. \A j \in 1 .. Len(rows) : j # k => rows'[j] = rows[j]
    BY <1>0, <1>2 DEF FinishScan
  <2> QED
    BY <1>0, <1>2, <1>a, <2>1 DEF FinishScan, SnapsCurrent
<1>3. ASSUME NEW m \in Members, DeepScanStart(m) PROVE SnapsCurrent'
  BY <1>0, <1>3 DEF DeepScanStart, SnapsCurrent
<1>4. ASSUME NEW m \in Members, NEW f \in Files, DeepScanFile(m, f) PROVE SnapsCurrent'
  <2>1. PICK flagged \in SUBSET AiIssues :
           deep' = [deep EXCEPT ![m].found = @ \cup flagged, ![m].todo = @ \ {f}]
    BY <1>4 DEF DeepScanFile
  <2>2. deep[m] \in D /\ deep[m] # Nothing
    BY <1>0, <1>4 DEF DeepScanFile, Busy
  <2> DEFINE d == [deep[m] EXCEPT !.found = @ \cup flagged, !.todo = @ \ {f}]
  <2>3. d.row = deep[m].row /\ d.snap = deep[m].snap /\ d.stale = deep[m].stale
    BY <2>2 DEF Deeps
  <2>4. deep' = [deep EXCEPT ![m] = d]
    BY <1>0, <2>1
  <2> HIDE DEF d
  <2> QED
    BY <1>0, <1>4, <2>2, <2>3, <2>4 DEF DeepScanFile, SnapsCurrent
<1>5. ASSUME NEW m \in Members, DeepScanSave(m) PROVE SnapsCurrent'
  <2> DEFINE k == deep[m].row
  <2>1. k \in 1 .. Len(rows)
    BY <1>0, <1>5 DEF DeepScanSave, Busy, Deeps
  <2>2. \A j \in 1 .. Len(rows) : j # k => rows'[j] = rows[j]
    BY <1>0, <1>5 DEF DeepScanSave
  <2>3. \A n \in Members : deep'[n] = Nothing \/ deep'[n] = Overtaken(k)[n]
    BY <1>5 DEF DeepScanSave, Overtaken
  <2> HIDE DEF k
  <2> QED
    BY <1>a, <2>1, <2>2, <2>3 DEF SnapsCurrent
<1>6. ASSUME NEW m \in Members, DeepScanFails(m) PROVE SnapsCurrent'
  BY <1>0, <1>6 DEF DeepScanFails, SnapsCurrent
<1> QED
  BY <1>1, <1>2, <1>3, <1>4, <1>5, <1>6

LEMMA WorkbenchInvStep ==
  WorkbenchInv /\ [WorkbenchNext]_workbenchVars => WorkbenchInv'
<1> SUFFICES ASSUME WorkbenchInv, [WorkbenchNext]_workbenchVars PROVE WorkbenchInv'
  OBVIOUS
<1>1. WorkbenchTypeOK /\ WorkbenchTypeOK' /\ DraftsAware /\ PushesAware /\ SnapsCurrent
  BY WorkbenchTypeStep DEF WorkbenchInv
<1>2. ASSUME UNCHANGED <<content, gen, fix, push>> PROVE DraftsAware' /\ PushesAware'
  BY <1>1, <1>2 DEF DraftsAware, PushesAware, Aware
<1>3. ASSUME UNCHANGED <<rows, deep>> PROVE SnapsCurrent'
  BY <1>1, <1>3 DEF SnapsCurrent
<1>4. CASE UNCHANGED workbenchVars
  BY <1>1, <1>2, <1>3, <1>4 DEF workbenchVars, WorkbenchInv
<1>5. CASE \/ \E f \in Files : TeamPush(f)
           \/ \E m \in Members, i \in Issues : Select(m, i)
           \/ \E m \in Members : Generate(m) \/ Answer(m) \/ CommitFix(m) \/ Put(m) \/ PutFails(m)
  <2>1. UNCHANGED <<rows, deep>>
    BY <1>5 DEF TeamPush, Select, Generate, Answer, CommitFix, Put, PutFails
  <2> QED
    BY <1>1, <1>3, <1>5, <2>1, AwareViews DEF WorkbenchInv
<1>6. CASE \/ StartScan
           \/ \E k \in DOMAIN rows : FinishScan(k)
           \/ \E m \in Members : DeepScanStart(m) \/ DeepScanSave(m) \/ DeepScanFails(m)
           \/ \E m \in Members, f \in Files : DeepScanFile(m, f)
  <2>1. UNCHANGED <<content, gen, fix, push>>
    BY <1>6 DEF StartScan, FinishScan, DeepScanStart, DeepScanSave, DeepScanFails,
                DeepScanFile, repository, views
  <2> QED
    BY <1>1, <1>2, <1>6, <2>1, SnapsScans DEF WorkbenchInv
<1>7. CASE \/ \E i \in Issues : OpenPullRequest(i)
           \/ \E f \in Issues \cup Infra : TriageFinding(f)
           \/ \E x \in Issues \cup Infra : CheckFinding(x)
           \/ ValidationStart \/ ValidationEnd
  <2>1. UNCHANGED <<content, rows, views, deep>>
    BY <1>1, <1>7, TypeFindings
  <2> QED
    BY <1>1, <1>2, <1>3, <2>1 DEF WorkbenchInv, views
<1> QED
  BY <1>4, <1>5, <1>6, <1>7 DEF WorkbenchNext

LEMMA WorkbenchInvariant == WorkbenchSpec => []WorkbenchInv
<1>1. WorkbenchInit => WorkbenchInv
  BY WorkbenchTypeInit DEF WorkbenchInit, WorkbenchInv, DraftsAware, PushesAware, SnapsCurrent
<1> QED
  BY <1>1, WorkbenchInvStep, PTL DEF WorkbenchSpec

(* For any members and files, a fix pushed to the file it was generated    *)
(* for undoes only what changed since the file was read for it.            *)
THEOREM PushesOverwriteOnlyUnseen == WorkbenchSpec => PushOverwritesOnlyUnseen
<1> DEFINE Overwrites == \A m \in Members : \A p \in {push[m]} \ {Nothing} :
              push'[m] = Nothing /\ content' # content /\ At[p.region] = At[p.draft.issue]
                => SymDiff(content[At[p.region]], content'[At[p.region]])
                     \subseteq {p.draft.issue} \cup p.draft.since
<1>1. WorkbenchInv /\ [WorkbenchNext]_workbenchVars => [Overwrites]_workbenchVars
  <2> SUFFICES ASSUME WorkbenchInv, WorkbenchNext, NEW m \in Members, push[m] # Nothing,
                      push'[m] = Nothing, content' # content,
                      At[push[m].region] = At[push[m].draft.issue]
               PROVE  SymDiff(content[At[push[m].region]], content'[At[push[m].region]])
                        \subseteq {push[m].draft.issue} \cup push[m].draft.since
    OBVIOUS
  <2>1. \/ \E f \in Files : TeamPush(f)
        \/ \E n \in Members : Put(n)
    BY TypeFindings
       DEF WorkbenchInv, WorkbenchNext, Select, Generate, Answer, CommitFix, PutFails, StartScan,
           FinishScan, DeepScanStart, DeepScanSave, DeepScanFails, DeepScanFile, repository
  <2>2. Put(m)
    BY <2>1 DEF TeamPush, Put, WorkbenchInv, WorkbenchTypeOK
  <2> DEFINE p == push[m]
             f == At[p.region]
  <2>3. p \in Pushes
    BY DEF WorkbenchInv, WorkbenchTypeOK, Pushes
  <2>4. content'[f] = p.draft.base \ {p.draft.issue} /\ content[f] = p.sha
    <3>1. Write(f, Fixed(p.draft)) /\ content[f] = p.sha
      BY <2>2 DEF Put, Accepted
    <3>2. f \in Files /\ content \in [Files -> SUBSET Marks]
      BY <2>3 DEF Pushes, WorkbenchInv, WorkbenchTypeOK
    <3> QED
      BY <3>1, <3>2 DEF Write, Fixed
  <2>5. SymDiff(p.sha, p.draft.base) \subseteq p.draft.since
    BY DEF WorkbenchInv, PushesAware, Aware
  <2> QED
    BY <2>4, <2>5 DEF SymDiff
<1> QED
  BY <1>1, WorkbenchInvariant, PTL DEF WorkbenchSpec, PushOverwritesOnlyUnseen

(* For any scans and deep scans in progress, no code issue and nothing     *)
(* computed from the graph leaves a row but by the scan's own end or by a  *)
(* merge of what was read too early.                                       *)
THEOREM IssuesSurviveMerges == WorkbenchSpec => IssuesLostOnlyByOverlap
<1> DEFINE Loses == \A k \in DOMAIN rows :
              \/ OfGraph(rows[k]) \subseteq OfGraph(rows'[k])
              \/ rows[k].status = "running" /\ rows'[k].status # "running"
              \/ \E m \in Members : /\ deep[m] # Nothing /\ deep'[m] = Nothing
                                    /\ deep[m].row = k /\ deep[m].stale
<1>1. WorkbenchInv /\ [WorkbenchNext]_workbenchVars => [Loses]_workbenchVars
  <2> SUFFICES ASSUME WorkbenchInv, WorkbenchNext, NEW k \in DOMAIN rows PROVE
                 \/ OfGraph(rows[k]) \subseteq OfGraph(rows'[k])
                 \/ rows[k].status = "running" /\ rows'[k].status # "running"
                 \/ \E m \in Members : /\ deep[m] # Nothing /\ deep'[m] = Nothing
                                       /\ deep[m].row = k /\ deep[m].stale
    OBVIOUS
  <2>1. /\ rows \in Seq(ScanRows) /\ DOMAIN rows = 1 .. Len(rows) /\ Len(rows) \in Nat
        /\ deep \in [Members -> Deeps(Len(rows)) \cup {Nothing}]
    BY DEF WorkbenchInv, WorkbenchTypeOK, Deeps
  <2>2. \/ rows' = rows
        \/ StartScan
        \/ \E j \in DOMAIN rows : FinishScan(j)
        \/ \E m \in Members : DeepScanSave(m)
    BY TypeFindings
       DEF WorkbenchInv, WorkbenchNext, TeamPush, Select, Generate, Answer, CommitFix, Put,
           PutFails, DeepScanStart, DeepScanFails, DeepScanFile, repository
  <2>3. CASE StartScan
    BY <2>1, <2>3 DEF StartScan
  <2>4. ASSUME NEW j \in DOMAIN rows, FinishScan(j)
        PROVE  \/ OfGraph(rows[k]) \subseteq OfGraph(rows'[k])
               \/ rows[k].status = "running" /\ rows'[k].status # "running"
    <3>1. rows[j] \in ScanRows
      BY <2>1
    <3>2. CASE j # k
      <4>1. rows'[k] = rows[k]
        BY <2>1, <2>4, <3>2 DEF FinishScan
      <4> QED
        BY <4>1 DEF OfGraph
    <3>3. CASE j = k
      BY <2>1, <2>4, <3>1, <3>3 DEF FinishScan, ScanRows
    <3> QED
      BY <3>2, <3>3
  <2>5. ASSUME NEW m \in Members, DeepScanSave(m), deep[m].row = k, ~deep[m].stale
        PROVE  OfGraph(rows[k]) \subseteq OfGraph(rows'[k])
    <3>1. rows[k] \in ScanRows
      BY <2>1
    <3>2. deep[m].snap = OfGraph(rows[k])
      BY <2>5 DEF DeepScanSave, Busy, WorkbenchInv, SnapsCurrent
    <3>3. rows'[k].issues = Merged(deep[m]) \cap Issues /\ rows'[k].findings = Merged(deep[m])
      BY <2>1, <2>5, <3>1 DEF DeepScanSave, ScanRows
    <3>4. OfGraph(rows[k]) \subseteq Issues \cup Recomputed
      BY <3>1 DEF OfGraph, ScanRows
    <3> QED
      BY <3>2, <3>3, <3>4 DEF Merged, OfGraph
  <2>6. ASSUME NEW m \in Members, DeepScanSave(m), deep[m].row # k
        PROVE  rows'[k] = rows[k]
    BY <2>1, <2>6 DEF DeepScanSave
  <2>7. ASSUME NEW m \in Members, DeepScanSave(m)
        PROVE  deep[m] # Nothing /\ deep'[m] = Nothing
    BY <2>1, <2>7 DEF DeepScanSave, Busy, Overtaken
  <2>8. \A m \in Members : deep[m] # Nothing => deep[m].stale \in BOOLEAN
    BY <2>1 DEF Deeps
  <2> QED
    BY <2>2, <2>3, <2>4, <2>5, <2>6, <2>7, <2>8
<1> QED
  BY <1>1, WorkbenchInvariant, PTL DEF WorkbenchSpec, IssuesLostOnlyByOverlap
=============================================================================
