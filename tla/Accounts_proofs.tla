--------------------------- MODULE Accounts_proofs ---------------------------
(***************************************************************************)
(* What the handlers owe the accounts, for any number of handlers,         *)
(* accounts and requests.  None of the four properties is inductive: each  *)
(* says what holds of the tables, and needs what a handler that is past    *)
(* its check may still rely on when it writes.  That is the subject of the *)
(* operators called Fits below; they hold as long as the pairs of          *)
(* operations a property names have not overlapped, since met knows every  *)
(* pair of handlers that run (MetKnown).                                   *)
(***************************************************************************)
EXTENDS Accounts, FiniteSetTheorems, TLAPS

Op == {"create", "update", "delete", "assign", "login"}

\* A handler has an operation while it runs, and a creation has a role.
Shape(h) == /\ h.pc = "idle" <=> h.op = "none"
            /\ h.op = "create" => h.body.role \in Role
MetKnown == \A r, q \in Request :
              r # q /\ request[r].op # "none" /\ request[q].op # "none"
                => {request[r].op, request[q].op} \in met
Base == TypeOK /\ (\A r \in Request : Shape(request[r])) /\ MetKnown

\* A step of a handler under way: it goes on to h, or ends.
Moves(r, h) ==
  /\ request' = [request EXCEPT ![r] = h] /\ h \in Handler /\ Shape(h)
  /\ h.op \in {"none", request[r].op}
  /\ UNCHANGED <<served, met>>

\* Accounts of the right form, whatever a step makes of them.
Tables ==
  /\ DOMAIN users \subseteq Id /\ \A i \in DOMAIN users : users[i] \in Account
  /\ assigned \subseteq Id /\ owning \in [Id -> Ownership] /\ signedIn \subseteq Name

------------------------------------------------------------------------------
\* A handler that is not running.
LEMMA IdleFits == Idle \in Handler /\ Idle.pc = "idle" /\ Idle.op = "none" /\ Shape(Idle)
                  /\ Nothing \in Body
  BY LimitsAssumption DEF Idle, Handler, Shape, Id, Name, Nothing, Body

\* The types and the pairs that have met are kept by a step of a handler under way.
LEMMA MoveKeeps ==
  ASSUME Base, NEW r \in Request, NEW h, Moves(r, h), Tables'
  PROVE  Base'
<1>1. request' \in [Request -> Handler] /\ served' = served /\ met' = met
  BY DEF Base, TypeOK, Moves
<1>2. TypeOK'
  BY <1>1 DEF Base, TypeOK, Tables
<1>3. \A q \in Request : request'[q] = IF q = r THEN h ELSE request[q]
  BY DEF Base, TypeOK, Moves
<1>4. \A q \in Request : Shape(request[q])'
  BY <1>3 DEF Base, Moves, Shape
<1>5. MetKnown'
  <2> SUFFICES ASSUME NEW p \in Request, NEW q \in Request, p # q,
                      request'[p].op # "none", request'[q].op # "none"
               PROVE  {request'[p].op, request'[q].op} \in met
    BY <1>1 DEF MetKnown
  <2>1. request'[p].op = request[p].op /\ request'[q].op = request[q].op
    BY <1>3 DEF Moves
  <2> QED
    BY <2>1 DEF Base, MetKnown
<1> QED
  BY <1>2, <1>4, <1>5 DEF Base

\* and by one that arrives and meets those that run.
LEMMA ArriveKeeps ==
  ASSUME Base, NEW r \in Request, NEW op \in Op, NEW i \in Id, NEW name \in Name,
         NEW body \in Body, op = "create" => body.role \in Role,
         Arrives(r, op, i, name, body), UNCHANGED <<users, assigned, owning, signedIn>>
  PROVE  Base'
<1> DEFINE h == [Idle EXCEPT !.op = op, !.pc = "read", !.id = i, !.name = name, !.body = body]
<1>1. h \in Handler /\ Shape(h) /\ h.op = op
  BY IdleFits DEF Idle, Handler, Shape, Op
<1> HIDE DEF h
<1>2. /\ request' = [request EXCEPT ![r] = h] /\ request[r].pc = "idle"
      /\ served' = served + 1 /\ served < MaxRequests
      /\ met' = met \cup {{op, request[q].op} : q \in Running}
  BY DEF Arrives, h
<1>3. \A q \in Request : request'[q] = IF q = r THEN h ELSE request[q]
  BY <1>2 DEF Base, TypeOK
<1>4. \A q \in Request : request[q].op # "none" <=> q \in Running
  BY DEF Base, Shape, Running
<1>5. \A q \in Running : request[q].op \in Op
  BY <1>4 DEF Base, TypeOK, Handler, Running, Op
<1>6. met' \subseteq {{a, b} : a, b \in Op}
  <2>1. met \subseteq {{a, b} : a, b \in Op}
    BY DEF Base, TypeOK, Op
  <2>2. \A q \in Running : {op, request[q].op} \in {{a, b} : a, b \in Op}
    BY <1>5
  <2> QED
    BY <1>2, <2>1, <2>2
<1>7. TypeOK'
  <2>1. request' \in [Request -> Handler]
    BY <1>1, <1>2 DEF Base, TypeOK
  <2>2. served' \in 0 .. MaxRequests
    BY <1>2, LimitsAssumption DEF Base, TypeOK
  <2>3. Tables
    BY DEF Base, TypeOK, Tables
  <2> QED
    BY <1>6, <2>1, <2>2, <2>3 DEF TypeOK, Tables, Op
<1>8. \A q \in Request : Shape(request[q])'
  BY <1>1, <1>3 DEF Base, Shape
<1>9. MetKnown'
  <2> SUFFICES ASSUME NEW p \in Request, NEW q \in Request, p # q,
                      request'[p].op # "none", request'[q].op # "none"
               PROVE  {request'[p].op, request'[q].op} \in met'
    BY DEF MetKnown
  <2>1. CASE p = r
    BY <1>1, <1>2, <1>3, <1>4, <2>1
  <2>2. CASE q = r
    <3>1. request'[p].op = request[p].op /\ request'[q].op = op /\ p \in Running
      BY <1>1, <1>3, <1>4, <2>2
    <3>2. {op, request[p].op} \in met'
      BY <1>2, <3>1
    <3>3. {op, request[p].op} = {request[p].op, op}
      OBVIOUS
    <3> QED
      BY <3>1, <3>2, <3>3
  <2>3. CASE p # r /\ q # r
    BY <1>2, <1>3, <2>3 DEF Base, MetKnown
  <2> QED
    BY <2>1, <2>2, <2>3
<1> QED
  BY <1>7, <1>8, <1>9 DEF Base

------------------------------------------------------------------------------
\* The types hold at first.
LEMMA InitBase == Init => Base
<1> SUFFICES ASSUME Init PROVE Base
  OBVIOUS
<1>1. PICK S \in SUBSET Id : \E role \in [S -> Role], active \in [S -> BOOLEAN] :
        /\ Cardinality(S) <= MaxUsers
        /\ users = [i \in S |-> [name |-> i, role |-> role[i], active |-> active[i]]]
  BY Zenon DEF Init
<1>2. Id \subseteq Name
  BY LimitsAssumption DEF Id, Name
<1>3. DOMAIN users \subseteq Id /\ \A i \in DOMAIN users : users[i] \in Account
  BY <1>1, <1>2 DEF Account
<1>4. signedIn \subseteq Name
  BY <1>3 DEF Init, Account
<1>5. TypeOK
  <2>1. owning \in [Id -> Ownership]
    BY DEF Init, Ownership
  <2> QED
    BY <1>3, <1>4, <2>1, IdleFits, LimitsAssumption DEF Init, TypeOK
<1>6. \A r \in Request : request[r] = Idle
  BY DEF Init
<1>7. (\A r \in Request : Shape(request[r])) /\ MetKnown
  BY <1>6, IdleFits DEF MetKnown
<1> QED
  BY <1>5, <1>7 DEF Base

\* The places of a handler that runs.
Place == {"read", "name", "count", "self", "assignments", "owners", "write", "revoke"}

\* How a handler ends,
LEMMA EndMoves ==
  ASSUME Base, NEW r \in Request, End(r), UNCHANGED <<served, met>>
  PROVE  Moves(r, Idle)
  BY IdleFits DEF End, Moves

\* goes on,
LEMMA GotoMoves ==
  ASSUME Base, NEW r \in Request, request[r].op # "none", NEW pc \in Place, Goto(r, pc),
         UNCHANGED <<served, met>>
  PROVE  Moves(r, [request[r] EXCEPT !.pc = pc])
<1>1. request[r] \in Handler /\ Shape(request[r]) /\ request' = [request EXCEPT ![r].pc = pc]
  BY DEF Base, TypeOK, Goto
<1> QED
  BY <1>1 DEF Handler, Shape, Place, Moves

\* or passes a check.
LEMMA PassMoves ==
  ASSUME Base, NEW r \in Request, request[r].op # "none", NEW pc \in Place, NEW check,
         Pass(r, check, pc), UNCHANGED <<served, met>>
  PROVE  \E h : Moves(r, h)
  BY EndMoves, GotoMoves DEF Pass

\* Every step keeps the types.
LEMMA BaseKeeps == Base /\ [Next]_vars => Base'
<1> SUFFICES ASSUME Base, [Next]_vars PROVE Base'
  OBVIOUS
<1> USE DEF Place
<1>a. Tables /\ request \in [Request -> Handler]
  BY DEF Base, TypeOK, Tables
<1>1. ASSUME NEW r \in Request, Create(r) PROVE Base'
  <2>1. ASSUME NEW name \in Name, NEW role \in Role, CreateArrives(r, name, role) PROVE Base'
    <3>1. 1 \in Id
      BY LimitsAssumption DEF Id
    <3>2. [Nothing EXCEPT !.role = role] \in Body
      BY DEF Nothing, Body
    <3>3. [Nothing EXCEPT !.role = role].role \in Role
      BY DEF Nothing
    <3> QED
      BY <2>1, <3>1, <3>2, <3>3, ArriveKeeps DEF CreateArrives, Op
  <2>2. CASE CreateCounts(r)
    BY <1>a, <2>2, PassMoves, MoveKeeps DEF CreateCounts, At, Tables
  <2>3. CASE CreateLooksUpName(r)
    BY <1>a, <2>3, PassMoves, MoveKeeps DEF CreateLooksUpName, At, Tables
  <2>4. CASE CreateInserts(r) /\ NameTaken(request[r].name)
    BY <1>a, <2>4, EndMoves, MoveKeeps DEF CreateInserts, Tables
  <2>5. CASE CreateInserts(r) /\ ~NameTaken(request[r].name)
    <3>1. PICK i \in Id :
            users' = [j \in DOMAIN users \cup {i} |->
                       IF j = i THEN [name |-> request[r].name, active |-> TRUE,
                                      role |-> request[r].body.role]
                       ELSE users[j]]
      BY <2>5 DEF CreateInserts
    <3>2. request[r].name \in Name /\ request[r].body.role \in Role
      BY <1>a, <2>5 DEF CreateInserts, At, Base, Shape, Handler
    <3>3. Tables'
      BY <1>a, <2>5, <3>1, <3>2 DEF CreateInserts, Tables, Account
    <3> QED
      BY <2>5, <3>3, EndMoves, MoveKeeps DEF CreateInserts
  <2> QED
    BY <1>1, <2>1, <2>2, <2>3, <2>4, <2>5 DEF Create
<1>2. ASSUME NEW r \in Request, Update(r) PROVE Base'
  <2>1. ASSUME NEW i \in DOMAIN users, NEW body \in Body, UpdateArrives(r, i, body)
        PROVE  Base'
    <3>1. i \in Id /\ 1 \in Name
      BY <1>a, LimitsAssumption DEF Tables, Name, Id
    <3> QED
      BY <2>1, <3>1, ArriveKeeps DEF UpdateArrives, Op
  <2>2. CASE UpdateReads(r)
    <3>1. CASE request[r].id \notin DOMAIN users
      BY <1>a, <2>2, <3>1, EndMoves, MoveKeeps DEF UpdateReads, Tables
    <3>2. CASE request[r].id \in DOMAIN users
      <4> DEFINE i == request[r].id
                 h == [request[r] EXCEPT
                   !.pc = IF WouldLoseAdmin(users[i], request[r].body) THEN "count" ELSE "write",
                   !.wasActive = users[i].active, !.name = users[i].name]
      <4>1. request' = [request EXCEPT ![r] = h]
        BY <1>a, <2>2, <3>2 DEF UpdateReads
      <4>2. users[i].active \in BOOLEAN /\ users[i].name \in Name
        BY <1>a, <3>2 DEF Tables, Account
      <4>3. request[r] \in Handler /\ Shape(request[r]) /\ request[r].op = "update"
        BY <1>a, <2>2 DEF Base, UpdateReads, At
      <4>4. h \in Handler /\ h.pc \in {"count", "write"} /\ h.op = "update"
        BY <4>2, <4>3 DEF Handler
      <4>5. Moves(r, h)
        BY <2>2, <4>1, <4>3, <4>4 DEF Moves, Shape, UpdateReads
      <4> QED
        BY <1>a, <2>2, <4>5, MoveKeeps DEF UpdateReads, Tables
    <3> QED
      BY <3>1, <3>2
  <2>3. CASE UpdateCounts(r)
    BY <1>a, <2>3, PassMoves, MoveKeeps DEF UpdateCounts, CountAdmins, Tables
  <2>4. CASE UpdateWrites(r)
    <3>1. \A i \in DOMAIN users : Updated(users[i], request[r].body) \in Account
      BY <1>a DEF Tables, Account, Updated, Handler, Body
    <3>2. Tables'
      BY <1>a, <2>4, <3>1 DEF UpdateWrites, Tables
    <3>3. \E h : Moves(r, h)
      BY <2>4, PassMoves DEF UpdateWrites, At
    <3> QED
      BY <3>2, <3>3, MoveKeeps
  <2>5. CASE UpdateRevokes(r)
    BY <1>a, <2>5, EndMoves, MoveKeeps DEF UpdateRevokes, Tables
  <2> QED
    BY <1>2, <2>1, <2>2, <2>3, <2>4, <2>5 DEF Update
<1>3. ASSUME NEW r \in Request, Delete(r) PROVE Base'
  <2>1. ASSUME NEW i \in DOMAIN users, NEW orphan \in BOOLEAN, DeleteArrives(r, i, orphan)
        PROVE  Base'
    <3>1. i \in Id /\ 1 \in Name
      BY <1>a, LimitsAssumption DEF Tables, Name, Id
    <3>2. [Nothing EXCEPT !.orphan = orphan] \in Body
      BY DEF Nothing, Body
    <3> QED
      BY <2>1, <3>1, <3>2, ArriveKeeps DEF DeleteArrives, Op
  <2>2. CASE DeleteReads(r)
    BY <1>a, <2>2, PassMoves, MoveKeeps DEF DeleteReads, At, Tables
  <2>3. CASE DeleteCounts(r)
    BY <1>a, <2>3, PassMoves, MoveKeeps DEF DeleteCounts, CountAdmins, Tables
  <2>4. CASE DeleteIsOfAnother(r)
    BY <1>a, <2>4, EndMoves, GotoMoves, MoveKeeps DEF DeleteIsOfAnother, At, Tables
  <2>5. CASE DeleteAssignments(r)
    BY <1>a, <2>5, GotoMoves, MoveKeeps DEF DeleteAssignments, At, Tables
  <2>6. CASE DeleteOwnerships(r)
    <3>1. owning' \in [Id -> Ownership]
      BY <1>a, <2>6 DEF DeleteOwnerships, Tables, Ownership
    <3>2. End(r) \/ Goto(r, "write")
      BY <2>6 DEF DeleteOwnerships
    <3> QED
      BY <1>a, <2>6, <3>1, <3>2, EndMoves, GotoMoves, MoveKeeps DEF DeleteOwnerships, At, Tables
  <2>7. CASE DeleteRow(r)
    <3>1. Tables'
      BY <1>a, <2>7 DEF DeleteRow, Tables
    <3> QED
      BY <2>7, <3>1, EndMoves, MoveKeeps DEF DeleteRow
  <2> QED
    BY <1>3, <2>1, <2>2, <2>3, <2>4, <2>5, <2>6, <2>7 DEF Delete
<1>4. ASSUME NEW r \in Request, Assign(r) \/ Login(r) PROVE Base'
  <2>1. ASSUME NEW i \in DOMAIN users, AssignArrives(r, i) \/ LoginArrives(r, i) PROVE Base'
    <3>1. i \in Id /\ 1 \in Name
      BY <1>a, LimitsAssumption DEF Tables, Name, Id
    <3> QED
      BY <2>1, <3>1, IdleFits, ArriveKeeps DEF AssignArrives, LoginArrives, Op
  <2>2. CASE AssignChecksSubject(r)
    BY <1>a, <2>2, PassMoves, MoveKeeps DEF AssignChecksSubject, At, Tables
  <2>3. CASE AssignInserts(r)
    BY <1>a, <2>3, EndMoves, MoveKeeps DEF AssignInserts, Tables, Handler
  <2>4. CASE LoginChecks(r)
    <3>1. CASE ~(request[r].id \in DOMAIN users /\ users[request[r].id].active)
      BY <1>a, <2>4, <3>1, EndMoves, MoveKeeps DEF LoginChecks, Tables
    <3>2. CASE request[r].id \in DOMAIN users /\ users[request[r].id].active
      <4> DEFINE h == [request[r] EXCEPT !.pc = "write", !.name = users[request[r].id].name]
      <4>1. request' = [request EXCEPT ![r] = h]
        BY <1>a, <2>4, <3>2 DEF LoginChecks
      <4>2. users[request[r].id].name \in Name
        BY <1>a, <3>2 DEF Tables, Account
      <4>3. request[r] \in Handler /\ Shape(request[r]) /\ request[r].op = "login"
        BY <1>a, <2>4 DEF Base, LoginChecks, At
      <4>4. h \in Handler /\ h.pc = "write" /\ h.op = "login"
        BY <4>2, <4>3 DEF Handler
      <4>5. Moves(r, h)
        BY <2>4, <4>1, <4>3, <4>4 DEF Moves, Shape, LoginChecks
      <4> QED
        BY <1>a, <2>4, <4>5, MoveKeeps DEF LoginChecks, Tables
    <3> QED
      BY <3>1, <3>2
  <2>5. CASE LoginCreatesSession(r)
    BY <1>a, <2>5, EndMoves, MoveKeeps DEF LoginCreatesSession, Tables, Handler
  <2> QED
    BY <1>4, <2>1, <2>2, <2>3, <2>4, <2>5 DEF Assign, Login
<1>5. CASE UNCHANGED vars
  BY <1>5 DEF vars, Base, TypeOK, Shape, MetKnown
<1> QED
  BY <1>1, <1>2, <1>3, <1>4, <1>5 DEF Next

------------------------------------------------------------------------------
\* Of the arrivals, the properties need only what they have in common.
SomeArrives(r) ==
  /\ \E op \in Op, i \in Id, name \in Name, body \in Body : Arrives(r, op, i, name, body)
  /\ UNCHANGED <<users, assigned, owning, signedIn>>

\* The INSERT and the DELETE that are carried out, and those the schema refuses.
Inserts(r) == CreateInserts(r) /\ ~NameTaken(request[r].name)
Deletes(r) == DeleteRow(r) /\ owning[request[r].id] = "never"
Refused(r) == /\ request[r].op \in {"create", "delete"} /\ request[r].pc = "write" /\ End(r)
              /\ UNCHANGED <<users, assigned, owning, signedIn, served, met>>

\* A step is an arrival or one of a handler under way.
Step(r) ==
  \/ SomeArrives(r)
  \/ CreateCounts(r) \/ CreateLooksUpName(r) \/ Inserts(r) \/ Deletes(r) \/ Refused(r)
  \/ UpdateReads(r) \/ UpdateCounts(r) \/ UpdateWrites(r) \/ UpdateRevokes(r)
  \/ DeleteReads(r) \/ DeleteCounts(r) \/ DeleteIsOfAnother(r)
  \/ DeleteAssignments(r) \/ DeleteOwnerships(r)
  \/ AssignChecksSubject(r) \/ AssignInserts(r) \/ LoginChecks(r) \/ LoginCreatesSession(r)

\* Every step that is not an arrival is one of those.
LEMMA Steps == ASSUME Base, Next PROVE \E r \in Request : Step(r)
<1>1. PICK r \in Request : Create(r) \/ Update(r) \/ Delete(r) \/ Assign(r) \/ Login(r)
  BY DEF Next
<1>2. DOMAIN users \subseteq Id /\ 1 \in Name /\ 1 \in Id /\ Nothing \in Body
  BY IdleFits, LimitsAssumption DEF Base, TypeOK, Name, Id
<1>3. ASSUME NEW name \in Name, NEW role \in Role, CreateArrives(r, name, role)
      PROVE  SomeArrives(r)
  <2>1. [Nothing EXCEPT !.role = role] \in Body
    BY DEF Nothing, Body
  <2> QED
    BY <1>2, <1>3, <2>1 DEF CreateArrives, SomeArrives, Op
<1>4. ASSUME NEW i \in DOMAIN users, NEW body \in Body, UpdateArrives(r, i, body)
      PROVE  SomeArrives(r)
  BY <1>2, <1>4 DEF UpdateArrives, SomeArrives, Op
<1>5. ASSUME NEW i \in DOMAIN users, NEW orphan \in BOOLEAN, DeleteArrives(r, i, orphan)
      PROVE  SomeArrives(r)
  <2>1. [Nothing EXCEPT !.orphan = orphan] \in Body
    BY DEF Nothing, Body
  <2> QED
    BY <1>2, <1>5, <2>1 DEF DeleteArrives, SomeArrives, Op
<1>6. ASSUME NEW i \in DOMAIN users, AssignArrives(r, i) \/ LoginArrives(r, i)
      PROVE  SomeArrives(r)
  BY <1>2, <1>6 DEF AssignArrives, LoginArrives, SomeArrives, Op
<1>7. CreateInserts(r) \/ DeleteRow(r) => Inserts(r) \/ Deletes(r) \/ Refused(r)
  BY DEF CreateInserts, DeleteRow, At, Inserts, Deletes, Refused
<1>8. Step(r)
  BY <1>1, <1>3, <1>4, <1>5, <1>6, <1>7 DEF Create, Update, Delete, Assign, Login, Step
<1> QED
  BY <1>8

\* What a step leaves alone.
LEMMA StepFrame ==
  ASSUME Base, NEW r \in Request, Step(r)
  PROVE  /\ met \subseteq met'
         /\ \A q \in Request : q # r => request'[q] = request[q]
<1>1. request \in [Request -> Handler]
  BY DEF Base, TypeOK
<1>2. CASE SomeArrives(r)
  BY <1>1, <1>2 DEF SomeArrives, Arrives
<1>3. CASE CreateCounts(r) \/ CreateLooksUpName(r) \/ Inserts(r) \/ Deletes(r) \/ Refused(r)
  BY <1>1, <1>3 DEF CreateCounts, CreateLooksUpName, Inserts, CreateInserts, Deletes, DeleteRow,
                    Refused, Pass, Goto, End
<1>4. CASE UpdateReads(r) \/ UpdateCounts(r) \/ UpdateWrites(r) \/ UpdateRevokes(r)
  BY <1>1, <1>4
  DEF UpdateReads, UpdateCounts, CountAdmins, UpdateWrites, UpdateRevokes, Pass, Goto, End
<1>5. CASE DeleteReads(r) \/ DeleteCounts(r) \/ DeleteIsOfAnother(r)
  BY <1>1, <1>5 DEF DeleteReads, DeleteCounts, CountAdmins, DeleteIsOfAnother, Pass, Goto, End
<1>6. CASE DeleteAssignments(r) \/ DeleteOwnerships(r)
  BY <1>1, <1>6 DEF DeleteAssignments, DeleteOwnerships, Goto, End
<1>7. CASE AssignChecksSubject(r) \/ AssignInserts(r) \/ LoginChecks(r) \/ LoginCreatesSession(r)
  BY <1>1, <1>7
  DEF AssignChecksSubject, AssignInserts, LoginChecks, LoginCreatesSession, Pass, Goto, End
<1> QED
  BY <1>2, <1>3, <1>4, <1>5, <1>6, <1>7 DEF Step

\* What a handler keeps when it goes on,
Same(r) == /\ request'[r].op = request[r].op /\ request'[r].id = request[r].id
           /\ request'[r].name = request[r].name /\ request'[r].body = request[r].body
           /\ request'[r].wasActive = request[r].wasActive

\* which is all but its place.
LEMMA GotoSets ==
  ASSUME Base, NEW r \in Request, NEW pc, Goto(r, pc)
  PROVE  Same(r) /\ request'[r].pc = pc
<1>1. request[r] \in Handler /\ request'[r] = [request[r] EXCEPT !.pc = pc]
  BY DEF Base, TypeOK, Goto
<1> QED
  BY <1>1 DEF Handler, Same

\* A handler that has ended is idle.
LEMMA EndSets == ASSUME Base, NEW r \in Request, End(r) PROVE request'[r] = Idle
  BY DEF Base, TypeOK, End

\* A handler at a check goes on exactly if it passes.
LEMMA PassSets ==
  ASSUME Base, NEW r \in Request, NEW pc, NEW check, Pass(r, check, pc)
  PROVE  IF check THEN Same(r) /\ request'[r].pc = pc ELSE request'[r] = Idle
  BY GotoSets, EndSets DEF Pass

\* An update that has read its account.
LEMMA UpdateReadsSets ==
  ASSUME Base, NEW r \in Request, UpdateReads(r), request[r].id \in DOMAIN users
  PROVE  /\ request'[r].op = "update" /\ request'[r].id = request[r].id
         /\ request'[r].body = request[r].body
         /\ request'[r].name = users[request[r].id].name
         /\ request'[r].wasActive = users[request[r].id].active
         /\ request'[r].pc = IF WouldLoseAdmin(users[request[r].id], request[r].body)
                             THEN "count" ELSE "write"
<1> SUFFICES ASSUME NEW next, next = IF WouldLoseAdmin(users[request[r].id], request[r].body)
                                     THEN "count" ELSE "write"
             PROVE  /\ request'[r].op = "update" /\ request'[r].id = request[r].id
                    /\ request'[r].body = request[r].body
                    /\ request'[r].name = users[request[r].id].name
                    /\ request'[r].wasActive = users[request[r].id].active
                    /\ request'[r].pc = next
  OBVIOUS
<1> DEFINE h == [request[r] EXCEPT !.pc = next,
        !.wasActive = users[request[r].id].active, !.name = users[request[r].id].name]
<1>0. request \in [Request -> Handler]
  BY DEF Base, TypeOK
<1>1. request[r] \in Handler /\ request[r].op = "update"
  BY <1>0 DEF UpdateReads, At
<1>a. request' = [request EXCEPT ![r] = h]
  BY <1>0 DEF UpdateReads
<1>2. request'[r] = h
  BY <1>0, <1>a
<1> QED
  BY <1>1, <1>2 DEF Handler

\* A login that has found its account active.
LEMMA LoginChecksSets ==
  ASSUME Base, NEW r \in Request, LoginChecks(r)
  PROVE  IF request[r].id \in DOMAIN users /\ users[request[r].id].active
         THEN /\ request'[r].op = "login" /\ request'[r].pc = "write"
              /\ request'[r].name = users[request[r].id].name
         ELSE request'[r] = Idle
<1>0. request \in [Request -> Handler]
  BY DEF Base, TypeOK
<1>1. request[r] \in Handler /\ request[r].op = "login"
  BY <1>0 DEF LoginChecks, At
<1>2. CASE request[r].id \in DOMAIN users /\ users[request[r].id].active
  <2> DEFINE h == [request[r] EXCEPT !.pc = "write", !.name = users[request[r].id].name]
  <2>a. request' = [request EXCEPT ![r] = h]
    BY <1>0, <1>2 DEF LoginChecks
  <2>1. request'[r] = h
    BY <1>0, <2>a
  <2> QED
    BY <1>1, <1>2, <2>1 DEF Handler
<1>3. CASE ~(request[r].id \in DOMAIN users /\ users[request[r].id].active)
  BY <1>3, EndSets DEF LoginChecks
<1> QED
  BY <1>2, <1>3

\* A handler keeps its operation until it ends.
LEMMA OpStays ==
  ASSUME Base, NEW r \in Request, Step(r), ~SomeArrives(r)
  PROVE  request'[r].op \in {"none", request[r].op}
<1>1. CASE CreateCounts(r) \/ CreateLooksUpName(r) \/ Inserts(r) \/ Deletes(r) \/ Refused(r)
  BY <1>1, PassSets, EndSets, IdleFits
  DEF CreateCounts, CreateLooksUpName, Inserts, CreateInserts, Deletes, DeleteRow, Refused, Same
<1>2. CASE UpdateReads(r)
  BY <1>2, UpdateReadsSets, EndSets, IdleFits DEF UpdateReads, At
<1>3. CASE UpdateCounts(r) \/ UpdateWrites(r) \/ UpdateRevokes(r)
  BY <1>3, PassSets, EndSets, IdleFits
  DEF UpdateCounts, CountAdmins, UpdateWrites, UpdateRevokes, Same
<1>4. CASE DeleteReads(r) \/ DeleteCounts(r) \/ DeleteIsOfAnother(r)
  BY <1>4, PassSets, GotoSets, EndSets, IdleFits
  DEF DeleteReads, DeleteCounts, CountAdmins, DeleteIsOfAnother, Same
<1>5. CASE DeleteAssignments(r) \/ DeleteOwnerships(r)
  BY <1>5, GotoSets, EndSets, IdleFits DEF DeleteAssignments, DeleteOwnerships, Same
<1>6. CASE AssignChecksSubject(r) \/ AssignInserts(r)
  BY <1>6, PassSets, EndSets, IdleFits DEF AssignChecksSubject, AssignInserts, Same
<1>7. CASE LoginChecks(r)
  BY <1>7, LoginChecksSets, IdleFits DEF LoginChecks, At
<1>8. CASE LoginCreatesSession(r)
  BY <1>8, EndSets, IdleFits DEF LoginCreatesSession
<1> QED
  BY <1>1, <1>2, <1>3, <1>4, <1>5, <1>6, <1>7, <1>8 DEF Step

\* A handler that has arrived is at its first place.
LEMMA ArrivalReads ==
  ASSUME Base, NEW r \in Request, SomeArrives(r)
  PROVE  /\ request'[r].pc = "read" /\ request'[r].op \in Op
<1>1. PICK op \in Op, i \in Id, name \in Name, body \in Body : Arrives(r, op, i, name, body)
  BY DEF SomeArrives
<1> DEFINE h == [Idle EXCEPT !.op = op, !.pc = "read", !.id = i, !.name = name, !.body = body]
<1>2. request'[r] = h
  BY <1>1 DEF Arrives, Base, TypeOK
<1>3. h.op = op /\ h.pc = "read"
  BY DEF Idle
<1> QED
  BY <1>1, <1>2, <1>3

------------------------------------------------------------------------------
\* AssignmentsHaveUser: an assignment that passed its check still has its account, and a
\* deletion that has cleaned up still has none left.
AssignFits(h) ==
  /\ h.op = "assign" /\ h.pc = "write" => h.id \in DOMAIN users
  /\ h.op = "delete" /\ h.pc \in {"owners", "write"} => h.id \notin assigned
AssignInv ==
  {"assign", "delete"} \notin met =>
    assigned \subseteq DOMAIN users /\ \A r \in Request : AssignFits(request[r])

\* A step keeps it: nothing but a deletion takes an account away, nothing but an
\* assignment adds one.
LEMMA AssignStep == ASSUME Base, AssignInv, NEW r \in Request, Step(r) PROVE AssignInv'
<1> SUFFICES ASSUME {"assign", "delete"} \notin met'
             PROVE  /\ assigned' \subseteq DOMAIN users'
                    /\ \A q \in Request : AssignFits(request[q])'
  BY DEF AssignInv
<1>1. /\ {"assign", "delete"} \notin met
      /\ assigned \subseteq DOMAIN users /\ \A q \in Request : AssignFits(request[q])
      /\ \A q \in Request : q # r => request'[q] = request[q]
  BY StepFrame DEF AssignInv
<1>2. request \in [Request -> Handler] /\ MetKnown
  BY DEF Base, TypeOK
<1>3. ASSUME assigned' \subseteq DOMAIN users', AssignFits(request[r])',
             \A q \in Request : q # r /\ AssignFits(request[q]) => AssignFits(request[q])'
      PROVE  /\ assigned' \subseteq DOMAIN users'
             /\ \A q \in Request : AssignFits(request[q])'
  BY <1>1, <1>3
<1>4. ASSUME users' = users, assigned' = assigned, AssignFits(request[r])'
      PROVE  /\ assigned' \subseteq DOMAIN users'
             /\ \A q \in Request : AssignFits(request[q])'
  BY <1>1, <1>4 DEF AssignFits
<1>5. CASE SomeArrives(r)
  BY <1>4, <1>5, ArrivalReads DEF SomeArrives, AssignFits
<1>6. CASE Inserts(r)
  <2>1. DOMAIN users \subseteq DOMAIN users' /\ assigned' = assigned /\ request'[r] = Idle
    BY <1>6, EndSets DEF Inserts, CreateInserts
  <2> QED
    BY <1>1, <2>1, IdleFits DEF AssignFits
<1>7. CASE UpdateWrites(r)
  <2>1. DOMAIN users' = DOMAIN users /\ assigned' = assigned
    BY <1>7 DEF UpdateWrites
  <2>2. request'[r].op \in {"none", "update"}
    BY <1>7, OpStays, ArrivalReads, PassSets, IdleFits DEF UpdateWrites, At, Same
  <2> QED
    BY <1>1, <2>1, <2>2 DEF AssignFits
<1>8. CASE CreateCounts(r) \/ CreateLooksUpName(r)
  <2>1. request'[r].op \in {"none", "create"}
    BY <1>8, PassSets, GotoSets, EndSets, IdleFits
    DEF CreateCounts, CreateLooksUpName, At, Same
  <2> QED
    BY <1>4, <1>8, <2>1 DEF CreateCounts, CreateLooksUpName, AssignFits
<1>9. CASE UpdateReads(r) \/ UpdateCounts(r) \/ UpdateRevokes(r)
  <2>1. request'[r].op \in {"none", "update"}
    BY <1>9, UpdateReadsSets, PassSets, EndSets, IdleFits
    DEF UpdateReads, UpdateCounts, UpdateRevokes, CountAdmins, At, Same
  <2> QED
    BY <1>4, <1>9, <2>1 DEF UpdateReads, UpdateCounts, UpdateRevokes, CountAdmins, AssignFits
<1>10. CASE DeleteReads(r) \/ DeleteCounts(r) \/ DeleteIsOfAnother(r)
  <2>1. \/ request'[r].op = "none"
        \/ request'[r].op = "delete" /\ request'[r].pc \in {"count", "self", "assignments"}
    <3>1. request[r].op = "delete"
      BY <1>10 DEF DeleteReads, DeleteCounts, DeleteIsOfAnother, At
    <3>2. End(r) \/ \E pc \in {"count", "self", "assignments"} : Goto(r, pc)
      BY <1>10 DEF DeleteReads, DeleteCounts, CountAdmins, DeleteIsOfAnother, Pass
    <3> QED
      BY <3>1, <3>2, GotoSets, EndSets, IdleFits DEF Same
  <2> QED
    BY <1>4, <1>10, <2>1
    DEF DeleteReads, DeleteCounts, DeleteIsOfAnother, CountAdmins, AssignFits
<1>11. CASE DeleteAssignments(r)
  <2>1. users' = users /\ assigned' = assigned \ {request[r].id} /\ request[r].op = "delete"
        /\ request'[r].id = request[r].id /\ request'[r].op = "delete"
    BY <1>11, GotoSets DEF DeleteAssignments, At, Same
  <2> QED
    BY <1>1, <2>1 DEF AssignFits
<1>12. CASE DeleteOwnerships(r)
  <2>1. \/ request'[r].op = "none"
        \/ request'[r].op = "delete" /\ request'[r].id = request[r].id
    <3>1. (End(r) \/ Goto(r, "write")) /\ request[r].op = "delete"
      BY <1>12 DEF DeleteOwnerships, At
    <3> QED
      BY <3>1, GotoSets, EndSets, IdleFits DEF Same
  <2>2. request[r].id \notin assigned
    BY <1>1, <1>12 DEF DeleteOwnerships, At, AssignFits
  <2>3. users' = users /\ assigned' = assigned
    BY <1>12 DEF DeleteOwnerships
  <2>4. AssignFits(request[r])'
    BY <2>1, <2>2, <2>3 DEF AssignFits
  <2> QED
    BY <1>4, <2>3, <2>4
<1>13. CASE Deletes(r)
  <2>1. DOMAIN users' = DOMAIN users \ {request[r].id} /\ assigned' = assigned
        /\ request'[r] = Idle /\ request[r].op = "delete" /\ request[r].pc = "write"
    BY <1>13, EndSets DEF Deletes, DeleteRow, At
  <2>2. request[r].id \notin assigned
    BY <1>1, <2>1 DEF AssignFits
  <2>3. \A q \in Request : q # r => request[q].op # "assign"
    BY <1>1, <1>2, <2>1 DEF MetKnown
  <2> QED
    BY <1>1, <2>1, <2>2, <2>3, IdleFits DEF AssignFits
<1>14. CASE AssignChecksSubject(r)
  <2>1. \/ request'[r].op = "none"
        \/ request'[r].op = "assign" /\ request'[r].id \in DOMAIN users
    <3>1. request[r].op = "assign"
          /\ (End(r) \/ (Goto(r, "write") /\ request[r].id \in DOMAIN users))
      BY <1>14 DEF AssignChecksSubject, At, Pass
    <3> QED
      BY <3>1, GotoSets, EndSets, IdleFits DEF Same
  <2> QED
    BY <1>4, <1>14, <2>1 DEF AssignChecksSubject, AssignFits
<1>15. CASE AssignInserts(r)
  <2>1. users' = users /\ assigned' = assigned \cup {request[r].id}
        /\ request'[r] = Idle /\ request[r].op = "assign" /\ request[r].pc = "write"
    BY <1>15, EndSets DEF AssignInserts, At
  <2>2. \A q \in Request : q # r => request[q].op # "delete"
    BY <1>1, <1>2, <2>1 DEF MetKnown
  <2> QED
    BY <1>1, <2>1, <2>2, IdleFits DEF AssignFits
<1>16. CASE LoginChecks(r) \/ LoginCreatesSession(r)
  <2>1. request'[r].op \in {"none", "login"}
    BY <1>16, LoginChecksSets, EndSets, IdleFits DEF LoginCreatesSession
  <2> QED
    BY <1>4, <1>16, <2>1 DEF LoginChecks, LoginCreatesSession, AssignFits
<1>17. CASE Refused(r)
  BY <1>4, <1>17, EndSets, IdleFits DEF Refused, AssignFits
<1> QED
  BY <1>5, <1>6, <1>7, <1>8, <1>9, <1>10, <1>11, <1>12, <1>13, <1>14, <1>15, <1>16, <1>17 DEF Step

------------------------------------------------------------------------------
\* AdminStays: an update or deletion that is past its check acts on an account that is
\* still there, and if it takes an administrator away, another one stays.
Decided == {"self", "assignments", "owners", "write"}
Another(i) == \E j \in Admins : j # i
AdminFits(h) ==
  /\ h.op = "update" /\ h.pc \in {"count", "write"} => h.id \in DOMAIN users
  /\ h.op = "update" /\ h.pc = "write" /\ WouldLoseAdmin(users[h.id], h.body) => Another(h.id)
  /\ h.op = "delete" /\ h.pc \in {"count"} \cup Decided => h.id \in DOMAIN users
  /\ h.op = "delete" /\ h.pc \in Decided /\ users[h.id].role = "admin" => Another(h.id)
AdminInv ==
  ~Overlaps({"update", "delete"}) => Admins # {} /\ \A r \in Request : AdminFits(request[r])

\* Of more than one administrator, another is left whoever is taken away.
LEMMA OneMoreAdmin == ASSUME Base, Cardinality(Admins) > 1, NEW i PROVE Another(i)
<1> SUFFICES ASSUME ~Another(i) PROVE FALSE
  OBVIOUS
<1>1. Admins \in SUBSET {i}
  BY DEF Another
<1>2. IsFiniteSet({i}) /\ Cardinality({i}) = 1
  BY FS_Singleton
<1>3. IsFiniteSet(Admins) /\ Cardinality(Admins) <= 1
  BY <1>1, <1>2, FS_Subset
<1>4. Cardinality(Admins) \in Nat
  BY <1>3, FS_CardinalityType
<1> QED
  BY <1>3, <1>4

\* A new account changes no other.
LEMMA NewAccount ==
  ASSUME Base, NEW r \in Request, Inserts(r)
  PROVE  /\ request[r].op = "create" /\ request[r].pc = "write" /\ request'[r] = Idle
         /\ UNCHANGED <<assigned, owning, signedIn, served, met>>
         /\ \E i \in Id \ DOMAIN users :
              /\ DOMAIN users' = DOMAIN users \cup {i}
              /\ users'[i].name = request[r].name /\ users'[i].active = TRUE
              /\ \A j \in DOMAIN users : users'[j] = users[j] /\ users[j].name # request[r].name
<1>1. PICK i \in Id : /\ NewId(i)
                      /\ users' = [j \in DOMAIN users \cup {i} |->
                           IF j = i THEN [name |-> request[r].name, active |-> TRUE,
                                          role |-> request[r].body.role]
                           ELSE users[j]]
  BY DEF Inserts, CreateInserts
<1>2. DOMAIN users \subseteq Id
  BY DEF Base, TypeOK
<1>3. i \notin DOMAIN users
  <2> SUFFICES ASSUME i \in DOMAIN users PROVE FALSE
    OBVIOUS
  <2>1. i < i
    BY <1>1 DEF NewId
  <2> QED
    BY <2>1 DEF Id
<1>4. /\ DOMAIN users' = DOMAIN users \cup {i}
      /\ users'[i].name = request[r].name /\ users'[i].active = TRUE
      /\ \A j \in DOMAIN users : users'[j] = users[j]
  BY <1>1, <1>3
<1>a. \A j \in DOMAIN users : users[j].name # request[r].name
  BY DEF Inserts, NameTaken
<1>5. request[r].op = "create" /\ request[r].pc = "write" /\ request'[r] = Idle
      /\ UNCHANGED <<assigned, owning, signedIn, served, met>>
  BY EndSets DEF Inserts, CreateInserts, At
<1> QED
  BY <1>3, <1>4, <1>a, <1>5

\* A step keeps it: updates and deletions do not overlap, and everything else only adds
\* accounts.
LEMMA AdminStep == ASSUME Base, AdminInv, NEW r \in Request, Step(r) PROVE AdminInv'
<1> SUFFICES ASSUME ~Overlaps({"update", "delete"})'
             PROVE  Admins' # {} /\ \A q \in Request : AdminFits(request[q])'
  BY DEF AdminInv
<1>1. /\ Admins # {} /\ \A q \in Request : AdminFits(request[q])
      /\ \A q \in Request : q # r => request'[q] = request[q]
  BY StepFrame DEF AdminInv, Overlaps
<1>2. request[r].op \in {"update", "delete"} =>
        \A q \in Request : q # r => request[q].op \notin {"update", "delete"}
  <2> SUFFICES ASSUME NEW q \in Request, q # r, request[r].op \in {"update", "delete"},
                      request[q].op \in {"update", "delete"}
               PROVE  FALSE
    OBVIOUS
  <2>1. {request[r].op, request[q].op} \in met
    BY DEF Base, MetKnown
  <2> QED
    BY <2>1, StepFrame DEF Overlaps
<1>3. ASSUME users' = users, AdminFits(request[r])'
      PROVE  Admins' # {} /\ \A q \in Request : AdminFits(request[q])'
  <2>1. Admins' = Admins
    BY <1>3 DEF Admins
  <2>2. \A q \in Request : q # r => AdminFits(request[q])'
    BY <1>1, <1>3, <2>1 DEF AdminFits, Another
  <2> QED
    BY <1>1, <1>3, <2>1, <2>2
<1>4. ASSUME Admins' # {}, request[r].op \in {"update", "delete"}, AdminFits(request[r])'
      PROVE  Admins' # {} /\ \A q \in Request : AdminFits(request[q])'
  BY <1>1, <1>2, <1>4 DEF AdminFits
<1>5. CASE SomeArrives(r)
  BY <1>3, <1>5, ArrivalReads DEF SomeArrives, AdminFits, Decided
<1>6. CASE CreateCounts(r) \/ CreateLooksUpName(r)
  <2>1. request'[r].op \in {"none", "create"}
    BY <1>6, PassSets, GotoSets, EndSets, IdleFits
    DEF CreateCounts, CreateLooksUpName, At, Same
  <2> QED
    BY <1>3, <1>6, <2>1 DEF CreateCounts, CreateLooksUpName, AdminFits
<1>7. CASE Inserts(r)
  <2>1. DOMAIN users \subseteq DOMAIN users' /\ \A j \in DOMAIN users : users'[j] = users[j]
    BY <1>7, NewAccount
  <2>2. Admins \subseteq Admins'
    BY <2>1 DEF Admins
  <2>3. request'[r].op = "none"
    BY <1>7, NewAccount, IdleFits
  <2>4. ASSUME NEW q \in Request, q # r PROVE AdminFits(request[q])'
    BY <1>1, <2>1, <2>2, <2>4 DEF AdminFits, Another
  <2> QED
    BY <1>1, <2>2, <2>3, <2>4 DEF AdminFits
<1>8. CASE UpdateReads(r)
  <2>1. CASE request[r].id \notin DOMAIN users
    <3>1. request'[r] = Idle /\ users' = users
      BY <1>8, <2>1, EndSets DEF UpdateReads
    <3> QED
      BY <1>3, <3>1, IdleFits DEF AdminFits
  <2>2. CASE request[r].id \in DOMAIN users
    <3>1. users' = users
      BY <1>8 DEF UpdateReads
    <3>2. /\ request'[r].op = "update" /\ request'[r].id \in DOMAIN users
          /\ request'[r].pc = "write" =>
               ~WouldLoseAdmin(users[request'[r].id], request'[r].body)
      BY <1>8, <2>2, UpdateReadsSets
    <3>3. AdminFits(request[r])'
      BY <3>1, <3>2 DEF AdminFits
    <3> QED
      BY <1>3, <3>1, <3>3
  <2> QED
    BY <2>1, <2>2
<1>9. CASE UpdateCounts(r) \/ DeleteCounts(r)
  <2>1. /\ users' = users /\ request[r].op \in {"update", "delete"} /\ request[r].pc = "count"
        /\ \/ End(r)
           \/ Cardinality(Admins) > 1 /\ request[r].op = "update" /\ Goto(r, "write")
           \/ Cardinality(Admins) > 1 /\ request[r].op = "delete" /\ Goto(r, "self")
    BY <1>9 DEF UpdateCounts, DeleteCounts, CountAdmins, Pass
  <2>2. Admins' = Admins /\ request[r].id \in DOMAIN users
    BY <1>1, <2>1 DEF Admins, AdminFits
  <2>3. CASE End(r)
    BY <1>3, <2>1, <2>3, EndSets, IdleFits DEF AdminFits
  <2>4. CASE Cardinality(Admins) > 1 /\ ~End(r)
    <3>1. Another(request[r].id)
      BY <2>4, OneMoreAdmin
    <3>2. request'[r].id = request[r].id /\ request'[r].op = request[r].op
      BY <2>1, <2>4, GotoSets DEF Same
    <3>3. AdminFits(request[r])'
      BY <2>1, <2>2, <3>1, <3>2 DEF AdminFits, Another
    <3> QED
      BY <1>3, <2>1, <3>3
  <2> QED
    BY <2>1, <2>3, <2>4
<1>10. CASE UpdateWrites(r)
  <2> DEFINE i == request[r].id
             body == request[r].body
  <2>1. /\ request[r].op = "update" /\ request[r].pc = "write"
        /\ End(r) \/ Goto(r, "revoke")
    BY <1>10 DEF UpdateWrites, At, Pass
  <2>2. /\ i \in DOMAIN users
        /\ WouldLoseAdmin(users[i], body) => Another(i)
    BY <1>1, <2>1 DEF AdminFits
  <2>3. users' = [users EXCEPT ![i] = Updated(users[i], body)]
    BY <1>10, <2>2 DEF UpdateWrites
  <2>4. Admins' # {}
    <3>1. CASE WouldLoseAdmin(users[i], body)
      <4>1. PICK j \in Admins : j # i
        BY <2>2, <3>1 DEF Another
      <4>2. j \in DOMAIN users' /\ users'[j] = users[j]
        BY <2>3, <4>1 DEF Admins
      <4> QED
        BY <4>1, <4>2 DEF Admins
    <3>2. CASE ~WouldLoseAdmin(users[i], body)
      <4>1. PICK j \in Admins : TRUE
        BY <1>1
      <4>2. CASE j # i
        BY <2>3, <4>1, <4>2 DEF Admins
      <4>3. CASE j = i
        <5>1. users[i].role = "admin" /\ users[i].active = TRUE /\ users[i] \in Account
              /\ body \in Body
          BY <4>1, <4>3 DEF Admins, Base, TypeOK, Account, Handler
        <5>2. body.role \in {Keep, "admin"} /\ body.active \in {"yes", Keep}
          BY <3>2, <5>1 DEF WouldLoseAdmin, Body
        <5>3. Updated(users[i], body).role = "admin"
              /\ Updated(users[i], body).active = TRUE
          BY <5>1, <5>2 DEF Updated, Account, Keep
        <5>4. users'[i] = Updated(users[i], body) /\ i \in DOMAIN users'
          BY <2>2, <2>3
        <5> QED
          BY <5>3, <5>4 DEF Admins
      <4> QED
        BY <4>2, <4>3
    <3> QED
      BY <3>1, <3>2
  <2>5. request'[r].op = "none" \/ (request'[r].op = "update" /\ request'[r].pc = "revoke")
    BY <2>1, GotoSets, EndSets, IdleFits DEF Same
  <2>6. AdminFits(request[r])'
    BY <2>5 DEF AdminFits
  <2> QED
    BY <1>4, <2>1, <2>4, <2>6
<1>11. CASE UpdateRevokes(r)
  BY <1>3, <1>11, EndSets, IdleFits DEF UpdateRevokes, AdminFits
<1>12. CASE DeleteReads(r)
  <2>1. /\ users' = users /\ request[r].op = "delete"
        /\ \/ End(r)
           \/ request[r].id \in DOMAIN users /\ Goto(r, "count")
           \/ /\ request[r].id \in DOMAIN users /\ users[request[r].id].role # "admin"
              /\ Goto(r, "self")
    BY <1>12 DEF DeleteReads, At, Pass
  <2>2. CASE End(r)
    BY <1>3, <2>1, <2>2, EndSets, IdleFits DEF AdminFits
  <2>3. CASE ~End(r)
    <3>1. /\ request'[r].op = "delete" /\ request'[r].id = request[r].id
          /\ request[r].id \in DOMAIN users
          /\ \/ request'[r].pc = "count"
             \/ request'[r].pc = "self" /\ users[request[r].id].role # "admin"
      BY <2>1, <2>3, GotoSets DEF Same
    <3>2. AdminFits(request[r])'
      BY <2>1, <3>1 DEF AdminFits, Decided
    <3> QED
      BY <1>3, <2>1, <3>2
  <2> QED
    BY <2>2, <2>3
<1>13. CASE DeleteIsOfAnother(r) \/ DeleteAssignments(r) \/ DeleteOwnerships(r)
  <2>1. /\ users' = users /\ request[r].op = "delete" /\ request[r].pc \in Decided
        /\ End(r) \/ \E pc \in Decided : Goto(r, pc)
    BY <1>13 DEF DeleteIsOfAnother, DeleteAssignments, DeleteOwnerships, At, Decided
  <2>2. Admins' = Admins
    BY <2>1 DEF Admins
  <2>3. CASE End(r)
    BY <1>3, <2>1, <2>3, EndSets, IdleFits DEF AdminFits
  <2>4. CASE ~End(r)
    <3>1. request'[r].op = "delete" /\ request'[r].id = request[r].id
      BY <2>1, <2>4, GotoSets DEF Same
    <3>2. AdminFits(request[r])'
      BY <1>1, <2>1, <2>2, <3>1 DEF AdminFits, Another
    <3> QED
      BY <1>3, <2>1, <3>2
  <2> QED
    BY <2>3, <2>4
<1>14. CASE Deletes(r)
  <2> DEFINE i == request[r].id
  <2>1. /\ request[r].op = "delete" /\ request[r].pc = "write" /\ request'[r] = Idle
        /\ users' = [j \in DOMAIN users \ {i} |-> users[j]]
    BY <1>14, EndSets DEF Deletes, DeleteRow, At
  <2>2. users[i].role = "admin" => Another(i)
    BY <1>1, <2>1 DEF AdminFits, Decided
  <2>3. \E j \in Admins : j # i
    BY <1>1, <2>2 DEF Another, Admins
  <2>4. Admins' # {}
    BY <2>1, <2>3 DEF Admins
  <2> QED
    BY <1>4, <2>1, <2>4, IdleFits DEF AdminFits
<1>15. CASE AssignChecksSubject(r) \/ AssignInserts(r) \/ LoginChecks(r) \/ LoginCreatesSession(r)
  <2>1. users' = users
    BY <1>15 DEF AssignChecksSubject, AssignInserts, LoginChecks, LoginCreatesSession
  <2>2. request[r].op \in {"assign", "login"} /\ request[r].pc # "idle"
    BY <1>15 DEF AssignChecksSubject, AssignInserts, LoginChecks, LoginCreatesSession, At
  <2>3. request'[r].op \in {"none", request[r].op}
    BY <1>15, <2>2, OpStays DEF Step, SomeArrives, Arrives
  <2> QED
    BY <1>3, <2>1, <2>2, <2>3 DEF AdminFits
<1>16. CASE Refused(r)
  BY <1>3, <1>16, EndSets, IdleFits DEF Refused, AdminFits
<1> QED
  BY <1>5, <1>6, <1>7, <1>8, <1>9, <1>10, <1>11, <1>12, <1>13, <1>14, <1>15, <1>16 DEF Step

------------------------------------------------------------------------------
\* LimitHolds: a creation that is past the count finds room for its account.
LimitFits(h) ==
  h.op = "create" /\ h.pc \in {"name", "write"} => Cardinality(DOMAIN users) < MaxUsers
LimitInv ==
  {"create"} \notin met =>
    Cardinality(DOMAIN users) <= MaxUsers /\ \A r \in Request : LimitFits(request[r])

\* There are finitely many accounts.
LEMMA FinitelyMany == ASSUME Base PROVE IsFiniteSet(DOMAIN users) /\ Cardinality(DOMAIN users) \in Nat
<1>1. IsFiniteSet(1 .. MaxId)
  BY LimitsAssumption, FS_Interval
<1>2. IsFiniteSet(DOMAIN users)
  <2>1. DOMAIN users \in SUBSET (1 .. MaxId)
    BY DEF Base, TypeOK, Id
  <2> QED
    BY <1>1, <2>1, FS_Subset
<1> QED
  BY <1>2, FS_CardinalityType

\* A step keeps it: only a creation adds an account, and there is one at a time.
LEMMA LimitStep == ASSUME Base, LimitInv, NEW r \in Request, Step(r) PROVE LimitInv'
<1> DEFINE n == Cardinality(DOMAIN users)
<1> SUFFICES ASSUME {"create"} \notin met'
             PROVE  n' <= MaxUsers /\ \A q \in Request : LimitFits(request[q])'
  BY DEF LimitInv
<1>1. /\ n <= MaxUsers /\ \A q \in Request : LimitFits(request[q])
      /\ \A q \in Request : q # r => request'[q] = request[q]
  BY StepFrame DEF LimitInv
<1>2. n \in Nat /\ MaxUsers \in Nat /\ IsFiniteSet(DOMAIN users)
  BY FinitelyMany, LimitsAssumption
<1>3. ASSUME DOMAIN users' = DOMAIN users, LimitFits(request[r])'
      PROVE  n' <= MaxUsers /\ \A q \in Request : LimitFits(request[q])'
  BY <1>1, <1>3 DEF LimitFits
<1>4. ASSUME DOMAIN users' = DOMAIN users, request[r].op # "create", ~SomeArrives(r)
      PROVE  n' <= MaxUsers /\ \A q \in Request : LimitFits(request[q])'
  <2>1. request'[r].op # "create"
    BY <1>4, OpStays
  <2> QED
    BY <1>3, <1>4, <2>1 DEF LimitFits
<1>5. CASE SomeArrives(r)
  BY <1>3, <1>5, ArrivalReads DEF SomeArrives, LimitFits
<1>6. ASSUME request[r].pc # "idle" PROVE ~SomeArrives(r)
  BY <1>6 DEF SomeArrives, Arrives
<1>7. CASE CreateCounts(r)
  <2>1. End(r) \/ n < MaxUsers
    BY <1>7 DEF CreateCounts, Pass
  <2>2. LimitFits(request[r])'
    BY <1>7, <2>1, EndSets, IdleFits DEF CreateCounts, LimitFits
  <2> QED
    BY <1>3, <1>7, <2>2 DEF CreateCounts
<1>8. CASE CreateLooksUpName(r)
  <2>1. n < MaxUsers
    BY <1>1, <1>8 DEF CreateLooksUpName, At, LimitFits
  <2>2. LimitFits(request[r])'
    BY <1>8, <2>1 DEF CreateLooksUpName, LimitFits
  <2> QED
    BY <1>3, <1>8, <2>2 DEF CreateLooksUpName
<1>9. CASE Inserts(r)
  <2>1. n < MaxUsers /\ request[r].op = "create" /\ request'[r] = Idle
    BY <1>1, <1>9, NewAccount DEF LimitFits
  <2>2. PICK i \in Id \ DOMAIN users : DOMAIN users' = DOMAIN users \cup {i}
    BY <1>9, NewAccount
  <2>3. n' = n + 1
    BY <1>2, <2>2, FS_AddElement
  <2>4. ASSUME NEW q \in Request, q # r PROVE request[q].op # "create"
    <3> SUFFICES ASSUME request[q].op = "create" PROVE FALSE
      OBVIOUS
    <3>1. {request[r].op, request[q].op} \in met
      BY <2>1, <2>4 DEF Base, MetKnown
    <3>2. {request[r].op, request[q].op} = {"create"}
      BY <2>1
    <3> QED
      BY <3>1, <3>2, StepFrame
  <2> QED
    BY <1>1, <1>2, <2>1, <2>3, <2>4, IdleFits DEF LimitFits
<1>10. CASE UpdateReads(r) \/ UpdateCounts(r) \/ UpdateWrites(r) \/ UpdateRevokes(r)
  <2>1. DOMAIN users' = DOMAIN users /\ request[r].op = "update" /\ request[r].pc # "idle"
    BY <1>10 DEF UpdateReads, UpdateCounts, CountAdmins, UpdateWrites, UpdateRevokes, At
  <2> QED
    BY <1>4, <1>6, <2>1
<1>11. CASE DeleteReads(r) \/ DeleteCounts(r) \/ DeleteIsOfAnother(r) \/ DeleteAssignments(r)
            \/ DeleteOwnerships(r)
  <2>1. DOMAIN users' = DOMAIN users /\ request[r].op = "delete" /\ request[r].pc # "idle"
    BY <1>11 DEF DeleteReads, DeleteCounts, CountAdmins, DeleteIsOfAnother, DeleteAssignments,
                 DeleteOwnerships, At
  <2> QED
    BY <1>4, <1>6, <2>1
<1>12. CASE Deletes(r)
  <2>1. DOMAIN users' \subseteq DOMAIN users /\ request'[r] = Idle
    BY <1>12, EndSets DEF Deletes, DeleteRow
  <2>2. n' <= n /\ n' \in Nat
    BY <1>2, <2>1, FS_Subset, FS_CardinalityType
  <2> QED
    BY <1>1, <1>2, <2>1, <2>2, IdleFits DEF LimitFits
<1>13. CASE AssignChecksSubject(r) \/ AssignInserts(r) \/ LoginChecks(r) \/ LoginCreatesSession(r)
  <2>1. DOMAIN users' = DOMAIN users /\ request[r].op # "create" /\ request[r].pc # "idle"
    BY <1>13 DEF AssignChecksSubject, AssignInserts, LoginChecks, LoginCreatesSession, At
  <2> QED
    BY <1>4, <1>6, <2>1
<1>14. CASE Refused(r)
  BY <1>3, <1>14, EndSets, IdleFits DEF Refused, LimitFits
<1> QED
  BY <1>5, <1>7, <1>8, <1>9, <1>10, <1>11, <1>12, <1>13, <1>14 DEF Step

------------------------------------------------------------------------------
\* No two accounts have the same name: the column is unique.
NamesInv == \A i, j \in DOMAIN users : users[i].name = users[j].name => i = j

\* What handlers know of sessions: an account that is signed in and not active is about to
\* be signed out; an update that has read its account knows its name and whether it was
\* active; a login has found its account active.
Revoking(r, n) == request[r].op = "update" /\ request[r].pc = "revoke" /\ request[r].name = n
SignedFits(h) ==
  /\ h.op = "update" /\ h.pc \in {"count", "write"} /\ h.id \in DOMAIN users =>
       users[h.id].name = h.name /\ users[h.id].active = h.wasActive
  /\ h.op = "login" /\ h.pc = "write" =>
       \A i \in DOMAIN users : users[i].name = h.name => users[i].active
SignedInv ==
  {"update"} \notin met /\ {"login", "update"} \notin met /\ {"create", "update"} \notin met =>
    /\ \A i \in DOMAIN users : ~users[i].active /\ users[i].name \in signedIn
         => \E r \in Request : Revoking(r, users[i].name)
    /\ \A r \in Request : SignedFits(request[r])

\* The names stay apart: no operation changes one.
LEMMA NamesStep == ASSUME Base, NamesInv, NEW r \in Request, Step(r) PROVE NamesInv'
<1>1. CASE users' = users
  BY <1>1 DEF NamesInv
<1>2. CASE Inserts(r)
  <2>1. PICK i \in Id \ DOMAIN users :
          /\ DOMAIN users' = DOMAIN users \cup {i} /\ users'[i].name = request[r].name
          /\ \A j \in DOMAIN users : users'[j] = users[j] /\ users[j].name # request[r].name
    BY <1>2, NewAccount
  <2> QED
    BY <2>1 DEF NamesInv
<1>3. CASE UpdateWrites(r)
  <2>1. \A i \in DOMAIN users : Updated(users[i], request[r].body).name = users[i].name
    BY DEF Updated, Base, TypeOK, Account
  <2>2. DOMAIN users' = DOMAIN users /\ \A i \in DOMAIN users : users'[i].name = users[i].name
    BY <1>3, <2>1 DEF UpdateWrites
  <2> QED
    BY <2>2 DEF NamesInv
<1>4. CASE Deletes(r)
  <2>1. DOMAIN users' \subseteq DOMAIN users /\ \A i \in DOMAIN users' : users'[i] = users[i]
    BY <1>4 DEF Deletes, DeleteRow
  <2> QED
    BY <2>1 DEF NamesInv
<1>5. users' = users \/ Inserts(r) \/ UpdateWrites(r) \/ Deletes(r)
  BY DEF Step, SomeArrives, CreateCounts, CreateLooksUpName, Refused, UpdateReads, UpdateCounts,
         CountAdmins, UpdateRevokes, DeleteReads, DeleteCounts, DeleteIsOfAnother,
         DeleteAssignments, DeleteOwnerships, AssignChecksSubject, AssignInserts, LoginChecks,
         LoginCreatesSession
<1> QED
  BY <1>1, <1>2, <1>3, <1>4, <1>5

\* What is known of sessions stays true: logins, creations and other updates do not
\* overlap an update.
LEMMA SignedStep ==
  ASSUME Base, NamesInv, SignedInv, NEW r \in Request, Step(r) PROVE SignedInv'
<1> DEFINE Told(i) == \E q \in Request : Revoking(q, users[i].name)
           Fine(i) == ~users[i].active /\ users[i].name \in signedIn => Told(i)
<1> SUFFICES ASSUME {"update"} \notin met', {"login", "update"} \notin met',
                    {"create", "update"} \notin met'
             PROVE  /\ \A i \in DOMAIN users' : Fine(i)'
                    /\ \A q \in Request : SignedFits(request[q])'
  BY DEF SignedInv
<1>1. /\ \A i \in DOMAIN users : Fine(i)
      /\ \A q \in Request : SignedFits(request[q])
      /\ \A q \in Request : q # r => request'[q] = request[q]
      /\ {"update"} \notin met /\ {"login", "update"} \notin met
      /\ {"create", "update"} \notin met
  BY StepFrame DEF SignedInv
<1>2. ASSUME request[r].op = "update", NEW q \in Request, q # r
      PROVE  request[q].op \notin {"update", "login"}
  <2>1. CASE request[q].op = "update"
    <3>1. {request[r].op, request[q].op} \in met
      BY <1>2, <2>1 DEF Base, MetKnown
    <3>2. {request[r].op, request[q].op} = {"update"}
      BY <1>2, <2>1
    <3> QED
      BY <1>1, <3>1, <3>2
  <2>2. CASE request[q].op = "login"
    <3>1. {request[q].op, request[r].op} \in met
      BY <1>2, <2>2 DEF Base, MetKnown
    <3> QED
      BY <1>1, <1>2, <2>2, <3>1
  <2> QED
    BY <2>1, <2>2
<1>3. ASSUME users' = users, signedIn' = signedIn, SignedFits(request[r])',
             ~(request[r].op = "update" /\ request[r].pc = "revoke")
      PROVE  /\ \A i \in DOMAIN users' : Fine(i)'
             /\ \A q \in Request : SignedFits(request[q])'
  <2>1. ASSUME NEW i \in DOMAIN users, Told(i) PROVE Told(i)'
    <3>1. PICK q \in Request : Revoking(q, users[i].name)
      BY <2>1
    <3>2. q # r /\ request'[q] = request[q]
      BY <1>1, <1>3, <3>1 DEF Revoking
    <3> QED
      BY <1>3, <3>1, <3>2 DEF Revoking
  <2>2. \A i \in DOMAIN users' : Fine(i)'
    BY <1>1, <1>3, <2>1
  <2>3. \A q \in Request : q # r => SignedFits(request[q])'
    BY <1>1, <1>3 DEF SignedFits
  <2> QED
    BY <1>3, <2>2, <2>3
<1>4. CASE SomeArrives(r)
  <2>1. request[r].pc = "idle"
    BY <1>4 DEF SomeArrives, Arrives
  <2> QED
    BY <1>3, <1>4, <2>1, ArrivalReads DEF SomeArrives, SignedFits
<1>5. ASSUME users' = users, signedIn' = signedIn, request[r].pc # "idle",
             request[r].op \notin {"update", "login"}
      PROVE  /\ \A i \in DOMAIN users' : Fine(i)'
             /\ \A q \in Request : SignedFits(request[q])'
  <2>1. ~SomeArrives(r)
    BY <1>5 DEF SomeArrives, Arrives
  <2>2. request'[r].op \notin {"update", "login"}
    BY <1>5, <2>1, OpStays
  <2> QED
    BY <1>3, <1>5, <2>2 DEF SignedFits
<1>6. CASE CreateCounts(r) \/ CreateLooksUpName(r)
  BY <1>5, <1>6 DEF CreateCounts, CreateLooksUpName, At
<1>7. CASE Inserts(r)
  <2>1. request[r].op = "create" /\ request'[r] = Idle /\ signedIn' = signedIn
    BY <1>7, NewAccount
  <2>2. PICK n \in Id \ DOMAIN users :
          /\ DOMAIN users' = DOMAIN users \cup {n}
          /\ users'[n].name = request[r].name /\ users'[n].active = TRUE
          /\ \A j \in DOMAIN users : users'[j] = users[j]
    BY <1>7, NewAccount
  <2>3. ASSUME NEW q \in Request, q # r PROVE request[q].op # "update"
    <3> SUFFICES ASSUME request[q].op = "update" PROVE FALSE
      OBVIOUS
    <3>1. {request[r].op, request[q].op} \in met
      BY <2>1, <2>3 DEF Base, MetKnown
    <3> QED
      BY <1>1, <2>1, <3>1
  <2>4. ASSUME NEW i \in DOMAIN users' PROVE Fine(i)'
    <3>1. CASE i = n
      BY <2>2, <3>1
    <3>2. CASE i # n /\ Told(i)
      <4>1. users'[i] = users[i]
        BY <2>2, <3>2
      <4>2. PICK q \in Request : Revoking(q, users[i].name)
        BY <3>2
      <4>3. q # r /\ request'[q] = request[q]
        BY <1>1, <2>1, <4>2 DEF Revoking
      <4> QED
        BY <4>1, <4>2, <4>3 DEF Revoking
    <3>3. CASE i # n /\ ~Told(i)
      BY <1>1, <2>1, <2>2, <3>3
    <3> QED
      BY <3>1, <3>2, <3>3
  <2>5. ASSUME NEW q \in Request, q # r PROVE SignedFits(request[q])'
    <3>1. request'[q] = request[q] /\ SignedFits(request[q])
      BY <1>1, <2>5
    <3>2. request[q].op # "update"
      BY <2>3, <2>5
    <3>3. request[q].op = "login" /\ request[q].pc = "write" =>
            \A i \in DOMAIN users' : users'[i].name = request[q].name => users'[i].active
      BY <2>2, <3>1 DEF SignedFits
    <3> QED
      BY <2>1, <3>1, <3>2, <3>3 DEF SignedFits
  <2>6. SignedFits(request[r])'
    BY <2>1, IdleFits DEF SignedFits
  <2> QED
    BY <2>4, <2>5, <2>6
<1>8. CASE UpdateReads(r)
  <2>1. users' = users /\ signedIn' = signedIn /\ request[r].pc = "read"
    BY <1>8 DEF UpdateReads, At
  <2>2. CASE request[r].id \in DOMAIN users
    <3>1. /\ request'[r].op = "update" /\ request'[r].id = request[r].id
          /\ request'[r].name = users[request[r].id].name
          /\ request'[r].wasActive = users[request[r].id].active
      BY <1>8, <2>2, UpdateReadsSets
    <3>2. SignedFits(request[r])'
      BY <2>1, <3>1 DEF SignedFits
    <3> QED
      BY <1>3, <2>1, <3>2
  <2>3. CASE request[r].id \notin DOMAIN users
    <3>1. request'[r] = Idle
      BY <1>8, <2>3, EndSets DEF UpdateReads
    <3> QED
      BY <1>3, <2>1, <3>1, IdleFits DEF SignedFits
  <2> QED
    BY <2>2, <2>3
<1>9. CASE UpdateCounts(r)
  <2>1. /\ users' = users /\ signedIn' = signedIn /\ request[r].op = "update"
        /\ request[r].pc = "count" /\ (End(r) \/ Goto(r, "write"))
    BY <1>9 DEF UpdateCounts, CountAdmins, Pass
  <2>2. \/ request'[r].op = "none"
        \/ Same(r)
    BY <2>1, GotoSets, EndSets, IdleFits
  <2>3. SignedFits(request[r])'
    BY <1>1, <2>1, <2>2 DEF SignedFits, Same
  <2> QED
    BY <1>3, <2>1, <2>3
<1>10. CASE UpdateWrites(r)
  <2> DEFINE n == request[r].id
             body == request[r].body
  <2>1. /\ signedIn' = signedIn /\ request[r].op = "update" /\ request[r].pc = "write"
        /\ DOMAIN users' = DOMAIN users
        /\ \A i \in DOMAIN users : i # n => users'[i] = users[i]
        /\ n \in DOMAIN users => users'[n] = Updated(users[n], body)
    BY <1>10 DEF UpdateWrites, At
  <2>2. IF n \in DOMAIN users /\ body.active = "no" /\ request[r].wasActive
        THEN Goto(r, "revoke") ELSE End(r)
    BY <1>10 DEF UpdateWrites, Pass
  <2>3. \A i \in DOMAIN users : ~Told(i)
    BY <1>2, <2>1 DEF Revoking
  <2>4. \A i \in DOMAIN users : ~users[i].active => users[i].name \notin signedIn
    BY <1>1, <2>3
  <2>5. ASSUME NEW i \in DOMAIN users, ~users'[i].active, users'[i].name \in signedIn
        PROVE  Told(i)'
    <3>1. i = n /\ n \in DOMAIN users
      BY <2>1, <2>4, <2>5
    <3>2. users[n] \in Account /\ body \in Body
      BY <3>1 DEF Base, TypeOK, Handler
    <3>3. users'[n].name = users[n].name
          /\ users'[n].active = IF body.active = Keep THEN users[n].active
                                ELSE body.active = "yes"
      BY <2>1, <3>1, <3>2 DEF Updated, Account
    <3>4. users[n].active
      BY <2>4, <2>5, <3>1, <3>3
    <3>5. body.active = "no"
      BY <2>5, <3>1, <3>2, <3>3, <3>4 DEF Body
    <3>6. users[n].name = request[r].name /\ users[n].active = request[r].wasActive
      BY <1>1, <2>1, <2>5, <3>1, <3>3 DEF SignedFits
    <3>7. Goto(r, "revoke")
      BY <2>2, <3>1, <3>4, <3>5, <3>6
    <3>8. request'[r].op = "update" /\ request'[r].pc = "revoke"
          /\ request'[r].name = users'[i].name
      BY <2>1, <3>1, <3>3, <3>6, <3>7, GotoSets DEF Same
    <3> QED
      BY <3>8 DEF Revoking
  <2>6. \A q \in Request : q # r => SignedFits(request[q])'
    BY <1>1, <1>2, <2>1 DEF SignedFits
  <2>7. request'[r].op = "none" \/ (request'[r].op = "update" /\ request'[r].pc = "revoke")
    BY <2>1, <2>2, GotoSets, EndSets, IdleFits DEF Same
  <2>8. SignedFits(request[r])'
    BY <2>7 DEF SignedFits
  <2> QED
    BY <2>1, <2>5, <2>6, <2>8
<1>11. CASE UpdateRevokes(r)
  <2>1. /\ users' = users /\ signedIn' = signedIn \ {request[r].name}
        /\ request[r].op = "update" /\ request'[r] = Idle
    BY <1>11, EndSets DEF UpdateRevokes, At
  <2>2. ASSUME NEW i \in DOMAIN users, ~users[i].active, users[i].name \in signedIn
        PROVE  users[i].name = request[r].name
    <3>1. PICK q \in Request : Revoking(q, users[i].name)
      BY <1>1, <2>2
    <3>2. q = r
      BY <1>2, <2>1, <3>1 DEF Revoking
    <3> QED
      BY <3>1, <3>2 DEF Revoking
  <2>3. \A i \in DOMAIN users' : Fine(i)'
    BY <2>1, <2>2
  <2>4. \A q \in Request : q # r => SignedFits(request[q])'
    BY <1>1, <2>1 DEF SignedFits
  <2> QED
    BY <2>1, <2>3, <2>4, IdleFits DEF SignedFits
<1>12. CASE DeleteReads(r) \/ DeleteCounts(r) \/ DeleteIsOfAnother(r) \/ DeleteAssignments(r)
            \/ DeleteOwnerships(r)
  <2>1. users' = users /\ signedIn' = signedIn /\ request[r].pc # "idle"
        /\ request[r].op = "delete"
    BY <1>12 DEF DeleteReads, DeleteCounts, CountAdmins, DeleteIsOfAnother, DeleteAssignments,
                 DeleteOwnerships, At
  <2> QED
    BY <1>5, <2>1
<1>13. CASE Deletes(r)
  <2>1. /\ DOMAIN users' \subseteq DOMAIN users /\ signedIn' = signedIn
        /\ request'[r] = Idle /\ \A i \in DOMAIN users' : users'[i] = users[i]
        /\ request[r].op = "delete"
    BY <1>13, EndSets DEF Deletes, DeleteRow, At
  <2>2. ASSUME NEW i \in DOMAIN users' PROVE Fine(i)'
    <3>1. CASE Told(i)
      <4>1. PICK q \in Request : Revoking(q, users[i].name)
        BY <3>1
      <4>2. q # r /\ request'[q] = request[q] /\ users'[i] = users[i]
        BY <1>1, <2>1, <2>2, <4>1 DEF Revoking
      <4> QED
        BY <4>1, <4>2 DEF Revoking
    <3>2. CASE ~Told(i)
      BY <1>1, <2>1, <2>2, <3>2
    <3> QED
      BY <3>1, <3>2
  <2>3. \A q \in Request : q # r => SignedFits(request[q])'
    BY <1>1, <2>1 DEF SignedFits
  <2> QED
    BY <2>1, <2>2, <2>3, IdleFits DEF SignedFits
<1>14. CASE AssignChecksSubject(r) \/ AssignInserts(r)
  BY <1>5, <1>14 DEF AssignChecksSubject, AssignInserts, At
<1>15. CASE LoginChecks(r)
  <2>1. users' = users /\ signedIn' = signedIn /\ request[r].op = "login"
    BY <1>15 DEF LoginChecks, At
  <2>2. CASE request[r].id \in DOMAIN users /\ users[request[r].id].active
    <3>1. request'[r].op = "login" /\ request'[r].name = users[request[r].id].name
      BY <1>15, <2>2, LoginChecksSets
    <3>2. \A i \in DOMAIN users : users[i].name = request'[r].name => users[i].active
      BY <2>2, <3>1 DEF NamesInv
    <3>3. SignedFits(request[r])'
      BY <2>1, <3>1, <3>2 DEF SignedFits
    <3> QED
      BY <1>3, <2>1, <3>3
  <2>3. CASE ~(request[r].id \in DOMAIN users /\ users[request[r].id].active)
    BY <1>3, <1>15, <2>1, <2>3, LoginChecksSets, IdleFits DEF SignedFits
  <2> QED
    BY <2>2, <2>3
<1>16. CASE LoginCreatesSession(r)
  <2>1. /\ users' = users /\ signedIn' = signedIn \cup {request[r].name}
        /\ request[r].op = "login" /\ request[r].pc = "write" /\ request'[r] = Idle
    BY <1>16, EndSets DEF LoginCreatesSession, At
  <2>2. ASSUME NEW q \in Request, q # r PROVE request[q].op # "update"
    <3> SUFFICES ASSUME request[q].op = "update" PROVE FALSE
      OBVIOUS
    <3>1. {request[r].op, request[q].op} \in met
      BY <2>1, <2>2 DEF Base, MetKnown
    <3> QED
      BY <1>1, <2>1, <3>1
  <2>3. \A i \in DOMAIN users : ~Told(i)
    BY <2>1, <2>2 DEF Revoking
  <2>4. \A i \in DOMAIN users' : Fine(i)'
    BY <1>1, <2>1, <2>3 DEF SignedFits
  <2>5. \A q \in Request : q # r => SignedFits(request[q])'
    BY <1>1, <2>1, <2>2 DEF SignedFits
  <2> QED
    BY <2>1, <2>4, <2>5, IdleFits DEF SignedFits
<1>17. CASE Refused(r)
  BY <1>3, <1>17, EndSets, IdleFits DEF Refused, SignedFits
<1> QED
  BY <1>4, <1>6, <1>7, <1>8, <1>9, <1>10, <1>11, <1>12, <1>13, <1>14, <1>15, <1>16, <1>17 DEF Step

------------------------------------------------------------------------------
\* The properties with what they rest on.
AccountsInv == Base /\ AssignInv /\ AdminInv /\ LimitInv /\ NamesInv /\ SignedInv

\* It holds at first: no handler runs, and nothing has met.
LEMMA InitInv == Init => AccountsInv
<1> SUFFICES ASSUME Init PROVE AccountsInv
  OBVIOUS
<1>1. PICK S \in SUBSET Id :
        \E role \in [S -> Role], active \in [S -> BOOLEAN] :
          /\ Cardinality(S) <= MaxUsers
          /\ users = [i \in S |-> [name |-> i, role |-> role[i], active |-> active[i]]]
  BY DEF Init
<1>2. /\ DOMAIN users = S
      /\ \A i \in S : users[i].name = i
  BY <1>1
<1>3. /\ \A r \in Request : request[r] = Idle
      /\ served = 0 /\ met = {} /\ assigned = DOMAIN users /\ Admins # {}
      /\ signedIn = {users[i].name : i \in {j \in DOMAIN users : users[j].active}}
  BY DEF Init
<1>4. Base
  BY InitBase
<1>5. AssignInv
  BY <1>3, IdleFits DEF AssignInv, AssignFits
<1>6. AdminInv
  BY <1>3, IdleFits DEF AdminInv, AdminFits
<1>7. LimitInv
  BY <1>1, <1>2, <1>3, IdleFits DEF LimitInv, LimitFits
<1>8. NamesInv
  BY <1>2 DEF NamesInv
<1>9. SignedInv
  <2>1. \A i \in DOMAIN users : users[i].name \in signedIn => users[i].active
    BY <1>2, <1>3
  <2> QED
    BY <1>3, <2>1, IdleFits DEF SignedInv, SignedFits
<1> QED
  BY <1>4, <1>5, <1>6, <1>7, <1>8, <1>9 DEF AccountsInv

\* It is inductive.
LEMMA NextKeeps == AccountsInv /\ [Next]_vars => AccountsInv'
<1> SUFFICES ASSUME AccountsInv, [Next]_vars PROVE AccountsInv'
  OBVIOUS
<1>1. Base /\ AssignInv /\ AdminInv /\ LimitInv /\ NamesInv /\ SignedInv /\ Base'
  BY BaseKeeps DEF AccountsInv
<1>2. CASE Next
  <2>1. PICK r \in Request : Step(r)
    BY <1>1, <1>2, Steps
  <2> QED
    BY <1>1, <2>1, AssignStep, AdminStep, LimitStep, NamesStep, SignedStep DEF AccountsInv
<1>3. CASE UNCHANGED vars
  <2>1. AssignInv' /\ LimitInv'
    BY <1>1, <1>3 DEF vars, AssignInv, AssignFits, LimitInv, LimitFits
  <2>2. AdminInv'
    BY <1>1, <1>3 DEF vars, AdminInv, AdminFits, Overlaps, Admins, Another
  <2>3. NamesInv'
    BY <1>1, <1>3 DEF vars, NamesInv
  <2>4. SignedInv'
    BY <1>1, <1>3 DEF vars, SignedInv, SignedFits, Revoking
  <2> QED
    BY <1>1, <2>1, <2>2, <2>3, <2>4 DEF AccountsInv
<1> QED
  BY <1>2, <1>3

\* It gives each property.
LEMMA InvImplies ==
  AccountsInv => TypeOK /\ AdminStays /\ DisabledIsSignedOut /\ AssignmentsHaveUser /\ LimitHolds
<1> SUFFICES ASSUME AccountsInv
             PROVE  TypeOK /\ AdminStays /\ DisabledIsSignedOut /\ AssignmentsHaveUser /\ LimitHolds
  OBVIOUS
<1>1. TypeOK /\ AdminStays /\ AssignmentsHaveUser /\ LimitHolds
  BY DEF AccountsInv, Base, AdminInv, AdminStays, AssignInv, AssignmentsHaveUser, LimitInv,
         LimitHolds
<1>2. DisabledIsSignedOut
  <2> SUFFICES ASSUME ~Overlaps({"update"}), {"login", "update"} \notin met,
                      {"create", "update"} \notin met,
                      \A r \in Running : request[r].op # "update",
                      NEW i \in DOMAIN users, ~users[i].active, users[i].name \in signedIn
               PROVE  FALSE
    BY DEF DisabledIsSignedOut
  <2>1. {"update"} \notin met
    <3>1. {"update", "update"} \notin met
      BY DEF Overlaps
    <3>2. {"update", "update"} = {"update"}
      OBVIOUS
    <3> QED
      BY <3>1, <3>2
  <2>2. PICK r \in Request : Revoking(r, users[i].name)
    BY <2>1 DEF AccountsInv, SignedInv
  <2> QED
    BY <2>2 DEF Revoking, Running
<1> QED
  BY <1>1, <1>2

------------------------------------------------------------------------------
\* The invariant holds throughout.
LEMMA AlwaysInv == Spec => []AccountsInv
<1>1. Init => AccountsInv
  BY InitInv
<1>2. AccountsInv /\ [Next]_vars => AccountsInv'
  BY NextKeeps
<1> QED
  BY <1>1, <1>2, PTL DEF Spec

\* Accounts, assignments, sessions and handlers keep their form.
THEOREM TypeCorrect == Spec => []TypeOK
<1>1. AccountsInv => TypeOK
  BY InvImplies
<1> QED
  BY <1>1, AlwaysInv, PTL

\* However many handlers run, an active administrator remains unless two updates or
\* deletions have overlapped.
THEOREM AdminStaysCorrect == Spec => []AdminStays
<1>1. AccountsInv => AdminStays
  BY InvImplies
<1> QED
  BY <1>1, AlwaysInv, PTL

\* An account that is not active has no session once its update is done, unless another
\* update, a login or a creation has overlapped one.
THEOREM DisabledIsSignedOutCorrect == Spec => []DisabledIsSignedOut
<1>1. AccountsInv => DisabledIsSignedOut
  BY InvImplies
<1> QED
  BY <1>1, AlwaysInv, PTL

\* Assignments are those of accounts that exist, unless one was made during a deletion.
THEOREM AssignmentsHaveUserCorrect == Spec => []AssignmentsHaveUser
<1>1. AccountsInv => AssignmentsHaveUser
  BY InvImplies
<1> QED
  BY <1>1, AlwaysInv, PTL

\* The user limit holds unless two creations have overlapped.
THEOREM LimitHoldsCorrect == Spec => []LimitHolds
<1>1. AccountsInv => LimitHolds
  BY InvImplies
<1> QED
  BY <1>1, AlwaysInv, PTL

==============================================================================
