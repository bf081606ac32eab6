--------------------------- MODULE JobView_proofs ---------------------------
(***************************************************************************)
(* Proofs about the job log panel, for any set of jobs and any bounds.     *)
(*                                                                         *)
(* The inductive invariant says three things of useJobLog beside the types.*)
(* A socket that still delivers is the one of the last choice, since the   *)
(* clean-up of the effect closes every other (AtMostOne, Follows).  A job  *)
(* that is asked for has a row (Asked), so the panel never shows "none".   *)
(* What is on the panel is bounded by the sockets opened so far            *)
(* (Accounted), each of which sends a log once.                            *)
(***************************************************************************)
EXTENDS JobView, TLAPS

Delivers(s) == s.pc # "closed"

(* The types, but for the bound of the lines. *)
Types ==
  /\ status \in [Job -> Status]
  /\ log \in [Job -> 0..MaxLines]
  /\ current \in Job \union {None}
  /\ lines \in [Job -> Nat]
  /\ shown \in Status \ {"none"}
  /\ connected \in BOOLEAN
  /\ sockets \subseteq Socket /\ opened \in 0..MaxSockets
  /\ asks \subseteq [job : Job, read : Status \union {Unread}]
  /\ dropped \in 0..MaxDrops

(* Who was asked for exists, and an answer read says so. *)
Asked ==
  /\ \A a \in asks : status[a.job] # "none" /\ a.read # "none"

(* A socket that delivers is the one of the job chosen. *)
Follows == \A s \in sockets : Delivers(s) => s.job = current

AtMostOne == \A s, u \in sockets : Delivers(s) /\ Delivers(u) => s = u

(* No job has more lines on the panel than the sockets opened may send; the
   socket that delivers has sent pos of its share. *)
Accounted ==
  /\ \A j \in Job : lines[j] <= MaxLines * opened
  /\ \A s \in sockets :
       Delivers(s) => /\ opened > 0
                      /\ lines[s.job] <= MaxLines * (opened - 1) + s.pos

Inv == Types /\ Asked /\ Follows /\ AtMostOne /\ Accounted /\ ConnectedIsBacked

-----------------------------------------------------------------------------
(* A log more is MaxLines lines more. *)
LEMMA OneMore ==
  ASSUME NEW k \in Nat
  PROVE  /\ MaxLines * (k + 1) = MaxLines * k + MaxLines
         /\ MaxLines * k \in Nat
         /\ MaxLines * 0 = 0
  BY JobViewAssumption, SMT

(* Logs only add up. *)
LEMMA Mono ==
  ASSUME NEW m \in Nat, NEW k \in Nat, NEW l \in Nat, k <= l
  PROVE  m * k <= m * l
  BY SMT

(* The fields of a socket. *)
LEMMA SocketFields ==
  ASSUME NEW s \in Socket
  PROVE  /\ s.n \in 1..MaxSockets /\ s.job \in Job /\ s.pos \in 0..MaxLines
         /\ s.pc \in {"connecting", "open", "closed"}
         /\ s = [n |-> s.n, job |-> s.job, pos |-> s.pos, pc |-> s.pc]
  BY DEF Socket

(* A socket whose state changes keeps the rest. *)
LEMMA Repc ==
  ASSUME NEW s \in Socket, NEW p \in {"connecting", "open", "closed"}
  PROVE  LET to == [s EXCEPT !.pc = p] IN
           to \in Socket /\ to.pc = p /\ to.job = s.job /\ to.pos = s.pos
  BY DEF Socket

(* A socket that sent one line more. *)
LEMMA Repos ==
  ASSUME NEW s \in Socket, s.pos < MaxLines
  PROVE  LET to == [s EXCEPT !.pos = @ + 1] IN
           to \in Socket /\ to.pc = s.pc /\ to.job = s.job /\ to.pos = s.pos + 1
  BY JobViewAssumption DEF Socket

(* What HangUp leaves: closed sockets, one for each. *)
LEMMA HangUpCloses ==
  ASSUME NEW S \in SUBSET Socket
  PROVE  /\ HangUp(S) \subseteq Socket
         /\ \A s \in HangUp(S) : s.pc = "closed"
         /\ S # {} => HangUp(S) # {}
  <1>1. \A s \in S : [s EXCEPT !.pc = "closed"] \in Socket
                       /\ [s EXCEPT !.pc = "closed"].pc = "closed"
    BY Repc
  <1>2. QED  BY <1>1 DEF HangUp

(* At the start nothing is chosen and nothing is open. *)
LEMMA InitInv == Init => Inv
  <1> SUFFICES ASSUME Init PROVE Inv
    OBVIOUS
  <1>1. Types
    <2>1. status \in [Job -> Status]
      BY DEF Init, Server!AInit, Status
    <2>2. log \in [Job -> 0..MaxLines] /\ lines \in [Job -> Nat]
      BY JobViewAssumption DEF Init, Nothing
    <2>3. /\ current \in Job \union {None} /\ shown \in Status \ {"none"}
          /\ connected \in BOOLEAN
      BY DEF Init, Status
    <2>4. /\ sockets \subseteq Socket /\ opened \in 0..MaxSockets
          /\ asks \subseteq [job : Job, read : Status \union {Unread}]
          /\ dropped \in 0..MaxDrops
      BY JobViewAssumption DEF Init
    <2>5. QED  BY <2>1, <2>2, <2>3, <2>4 DEF Types
  <1>2. Asked /\ Follows /\ AtMostOne /\ ConnectedIsBacked
    BY DEF Init, Asked, Follows, AtMostOne, ConnectedIsBacked
  <1>3. Accounted
    BY OneMore DEF Init, Accounted, Nothing
  <1>4. QED  BY <1>1, <1>2, <1>3 DEF Inv

(* What the portal does touches neither the panel nor a row's existence. *)
LEMMA PortalKeeps ==
  ASSUME Inv, UNCHANGED panel, dropped' = dropped,
         status' \in [Job -> Status], log' \in [Job -> 0..MaxLines],
         \A j \in Job : status[j] # "none" => status'[j] # "none"
  PROVE  Inv'
  <1> USE DEF panel
  <1>1. Types'
    BY DEF Inv, Types
  <1>2. Asked'
    BY DEF Inv, Asked, Types
  <1>3. (Follows /\ AtMostOne /\ Accounted /\ ConnectedIsBacked)'
    BY DEF Inv, Follows, AtMostOne, Accounted, ConnectedIsBacked, Delivers
  <1>4. QED  BY <1>1, <1>2, <1>3 DEF Inv

(* A socket moves on, to a state in which it delivers only if it did; lines
   of its job alone may have come, no more than it accounts for. *)
LEMMA MoveKeeps ==
  ASSUME Inv, NEW s \in sockets, NEW to \in Socket, Move(s, to),
         UNCHANGED <<status, log, current, opened, asks>>,
         to.job = s.job, Delivers(to) => Delivers(s),
         lines' \in [Job -> Nat],
         \A j \in Job : lines'[j] # lines[j] => j = s.job /\ Delivers(to),
         Delivers(to) => lines'[s.job] - lines[s.job] = to.pos - s.pos,
         shown' \in Status \ {"none"}, connected' \in BOOLEAN, dropped' \in 0..MaxDrops,
         connected' => to.pc # "connecting"
  PROVE  Inv'
  <1>1. sockets \subseteq Socket /\ opened \in 0..MaxSockets /\ s \in Socket
    BY DEF Inv, Types
  <1>2. sockets' = (sockets \ {s}) \union {to}
    BY DEF Move
  <1>3. Types'
    BY <1>1, <1>2 DEF Inv, Types
  <1>4. Asked'
    BY DEF Inv, Asked
  <1>5. Follows'
    BY <1>2 DEF Inv, Follows, Delivers
  <1>6. AtMostOne'
    BY <1>2 DEF Inv, AtMostOne, Delivers
  <1>7. ConnectedIsBacked'
    <2>1. to.pc \in {"connecting", "open", "closed"} /\ to \in sockets'
      BY <1>2 DEF Socket
    <2>2. QED  BY <2>1 DEF ConnectedIsBacked
  <1>8. Accounted'
    <2>1. s.job \in Job /\ s.pos \in 0..MaxLines /\ to.pos \in 0..MaxLines
      BY <1>1 DEF Socket
    <2>2. lines \in [Job -> Nat] /\ MaxLines \in Nat
      BY JobViewAssumption DEF Inv, Types
    <2>3. CASE ~ Delivers(to)
      <3>1. lines' = lines
        BY <2>2, <2>3
      <3>2. \A u \in sockets' : Delivers(u) => u \in sockets
        BY <1>2, <2>3
      <3>3. QED  BY <3>1, <3>2 DEF Inv, Accounted, Delivers
    <2>4. CASE Delivers(to)
      <3>1. opened > 0 /\ lines[s.job] <= MaxLines * (opened - 1) + s.pos
        BY <2>4 DEF Inv, Accounted
      <3>2. PICK k \in Nat : k = opened - 1
        BY <1>1, <3>1
      <3>3. MaxLines * opened = MaxLines * k + MaxLines /\ MaxLines * k \in Nat
        <4>1. opened = k + 1  BY <3>2, <1>1
        <4>2. QED  BY <4>1, OneMore
      <3>4. lines'[s.job] <= MaxLines * k + to.pos
        <4>1. lines[s.job] <= MaxLines * k + s.pos
          BY <3>1, <3>2
        <4>2. lines[s.job] \in Nat /\ lines'[s.job] \in Nat
          BY <2>1, <2>2
        <4>3. QED  BY <4>1, <4>2, <2>1, <2>4, <3>3
      <3>5. lines'[s.job] <= MaxLines * opened
        <4>1. lines'[s.job] \in Nat  BY <2>1
        <4>2. QED  BY <4>1, <3>4, <3>3, <2>1, <2>2
      <3>6. \A j \in Job : lines'[j] <= MaxLines * opened
        BY <3>5 DEF Inv, Accounted
      <3>7. \A u \in sockets' : Delivers(u) => u = to
        BY <1>2, <2>4 DEF Inv, AtMostOne
      <3>8. lines'[to.job] <= MaxLines * (opened - 1) + to.pos
        BY <3>4, <3>2
      <3>9. opened' = opened  OBVIOUS
      <3>10. QED
        BY <3>1, <3>6, <3>7, <3>8, <3>9 DEF Accounted
    <2>5. QED  BY <2>3, <2>4
  <1>9. QED  BY <1>3, <1>4, <1>5, <1>6, <1>7, <1>8 DEF Inv

(* The clean-up and the new socket of another choice. *)
LEMMA ChooseKeeps ==
  ASSUME Inv, NEW j \in Job, Choose(j)
  PROVE  Inv'
  <1> DEFINE new == [n |-> opened + 1, job |-> j, pos |-> 0, pc |-> "connecting"]
             ask == [job |-> j, read |-> Unread]
  <1>1. /\ sockets \in SUBSET Socket /\ opened \in Nat /\ opened + 1 \in 1..MaxSockets
        /\ lines \in [Job -> Nat] /\ MaxLines \in Nat
    BY JobViewAssumption DEF Inv, Types, Choose
  <1>2. new \in Socket /\ new.pc # "closed" /\ new.pc # "open" /\ new.job = j /\ new.pos = 0
    BY <1>1, JobViewAssumption DEF Socket
  <1>3. /\ sockets' = HangUp(sockets) \union {new} /\ asks' = asks \union {ask}
        /\ current' = j /\ opened' = opened + 1 /\ status[j] # "none"
        /\ UNCHANGED <<status, log, lines, shown, connected, dropped>>
    BY DEF Choose, portal
  <1>4. /\ HangUp(sockets) \subseteq Socket
        /\ \A s \in HangUp(sockets) : s.pc = "closed"
        /\ sockets # {} => HangUp(sockets) # {}
    BY <1>1, HangUpCloses
  <1>5. ask \in [job : Job, read : Status \union {Unread}] /\ ask.job = j /\ ask.read # "none"
    BY DEF Unread
  <1> HIDE DEF new, ask
  <1>6. Types'
    BY <1>1, <1>2, <1>3, <1>4, <1>5 DEF Inv, Types
  <1>7. Asked'
    BY <1>3, <1>5 DEF Inv, Asked
  <1>8. \A s \in sockets' : Delivers(s) => s = new
    BY <1>3, <1>4 DEF Delivers
  <1>9. Follows' /\ AtMostOne'
    BY <1>8, <1>2, <1>3 DEF Follows, AtMostOne
  <1>10. ConnectedIsBacked'
    <2>1. CASE ~ connected
      BY <2>1, <1>3 DEF ConnectedIsBacked
    <2>2. CASE connected
      <3>1. sockets # {}
        BY <2>2 DEF Inv, ConnectedIsBacked
      <3>2. PICK s \in HangUp(sockets) : s.pc = "closed"
        BY <3>1, <1>4
      <3>3. s \in sockets'
        BY <1>3, <3>2
      <3>4. QED  BY <3>2, <3>3 DEF ConnectedIsBacked
    <2>3. QED  BY <2>1, <2>2
  <1>11. Accounted'
    <2>1. /\ MaxLines * (opened + 1) = MaxLines * opened + MaxLines
          /\ MaxLines * opened \in Nat
      BY <1>1, OneMore
    <2>2. \A i \in Job : lines[i] <= MaxLines * opened
      BY DEF Inv, Accounted
    <2>3. \A i \in Job : lines'[i] <= MaxLines * opened'
      <3>1. TAKE i \in Job
      <3>2. lines[i] \in Nat /\ lines'[i] = lines[i] /\ lines[i] <= MaxLines * opened
        BY <1>1, <1>3, <2>2
      <3>3. lines[i] <= MaxLines * (opened + 1)
        BY <3>2, <2>1, <1>1
      <3>4. QED  BY <3>2, <3>3, <1>3
    <2>4. opened' > 0 /\ MaxLines * (opened' - 1) = MaxLines * opened
      <3>1. opened' - 1 = opened  BY <1>3, <1>1
      <3>2. QED  BY <3>1, <1>3, <1>1
    <2>5. lines'[new.job] <= MaxLines * (opened' - 1) + new.pos
      <3>1. lines[j] \in Nat /\ lines[j] <= MaxLines * opened /\ lines'[new.job] = lines[j]
        BY <1>1, <1>2, <1>3, <2>2
      <3>2. QED  BY <3>1, <2>1, <2>4, <1>2
    <2>6. QED  BY <1>8, <2>3, <2>4, <2>5 DEF Accounted
  <1>12. QED  BY <1>6, <1>7, <1>9, <1>10, <1>11 DEF Inv

(* Unmounting the panel. *)
LEMMA LeaveKeeps ==
  ASSUME Inv, Leave
  PROVE  Inv'
  <1>1. /\ current' = None /\ lines' = Nothing /\ shown' = "pending" /\ connected' = FALSE
        /\ sockets' = {} /\ asks' = {}
        /\ UNCHANGED <<status, log, opened, dropped>>
    BY DEF Leave, portal
  <1>2. Types'
    BY <1>1 DEF Inv, Types, Nothing, Status
  <1>3. (Asked /\ Follows /\ AtMostOne /\ ConnectedIsBacked)'
    BY <1>1 DEF Asked, Follows, AtMostOne, ConnectedIsBacked
  <1>4. Accounted'
    <2>1. opened \in Nat
      BY JobViewAssumption DEF Inv, Types
    <2>2. MaxLines * opened \in Nat
      BY <2>1, OneMore
    <2>3. QED  BY <1>1, <2>2 DEF Accounted, Nothing
  <1>5. QED  BY <1>2, <1>3, <1>4 DEF Inv

(* The close event takes the mark "live" away with the socket. *)
LEMMA CloseEventKeeps ==
  ASSUME Inv, NEW s \in sockets, CloseEvent(s)
  PROVE  Inv'
  <1>1. /\ sockets' = sockets \ {s} /\ connected' = FALSE
        /\ UNCHANGED <<status, log, current, lines, shown, opened, asks, dropped>>
    BY DEF CloseEvent, portal
  <1>2. Types' /\ Asked' /\ ConnectedIsBacked'
    BY <1>1 DEF Inv, Types, Asked, ConnectedIsBacked
  <1>3. Follows' /\ AtMostOne' /\ Accounted'
    BY <1>1 DEF Inv, Follows, AtMostOne, Accounted, Delivers
  <1>4. QED  BY <1>2, <1>3 DEF Inv

(* What happens to a socket. *)
LEMMA SocketKeeps ==
  ASSUME Inv, NEW s \in sockets,
         Connect(s) \/ Line(s) \/ StatusLine(s) \/ Drop(s) \/ CloseEvent(s)
  PROVE  Inv'
  <1>1. /\ s \in Socket /\ lines \in [Job -> Nat] /\ log \in [Job -> 0..MaxLines]
        /\ shown \in Status \ {"none"} /\ connected \in BOOLEAN /\ dropped \in 0..MaxDrops
        /\ status \in [Job -> Status]
    BY DEF Inv, Types
  <1>2. /\ s.job \in Job /\ s.pos \in 0..MaxLines
        /\ lines[s.job] \in Nat /\ log[s.job] \in 0..MaxLines
    BY <1>1, SocketFields
  <1>3. CASE Connect(s)
    <2> DEFINE to == [s EXCEPT !.pc = "open"]
    <2>1. to \in Socket /\ to.pc = "open" /\ to.job = s.job /\ to.pos = s.pos
      BY <1>1, Repc
    <2>2. /\ Move(s, to) /\ connected' = TRUE /\ Delivers(s)
          /\ UNCHANGED <<status, log, current, opened, asks, lines, shown, dropped>>
      BY <1>3 DEF Connect, portal, Delivers
    <2> HIDE DEF to
    <2>3. lines'[s.job] - lines[s.job] = to.pos - s.pos
      BY <1>2, <2>1, <2>2
    <2>4. QED  BY <1>1, <2>1, <2>2, <2>3, MoveKeeps
  <1>4. CASE Line(s)
    <2> DEFINE to == [s EXCEPT !.pos = @ + 1]
    <2>1. s.pos < MaxLines
      BY <1>2, <1>4, JobViewAssumption DEF Line
    <2>2. to \in Socket /\ to.pc = s.pc /\ to.job = s.job /\ to.pos = s.pos + 1
      BY <1>1, <2>1, Repos
    <2>3. /\ Move(s, to) /\ s.pc = "open"
          /\ lines' = [lines EXCEPT ![s.job] = @ + 1]
          /\ UNCHANGED <<status, log, current, opened, asks, shown, connected, dropped>>
      BY <1>4 DEF Line, portal
    <2> HIDE DEF to
    <2>4. /\ lines' \in [Job -> Nat] /\ lines'[s.job] = lines[s.job] + 1
          /\ \A j \in Job : j # s.job => lines'[j] = lines[j]
      BY <1>1, <1>2, <2>3
    <2>5. lines'[s.job] - lines[s.job] = to.pos - s.pos
      BY <1>2, <2>2, <2>4
    <2>6. Delivers(s) /\ Delivers(to) /\ to.pc # "connecting"
      BY <2>2, <2>3 DEF Delivers
    <2>7. \A j \in Job : lines'[j] # lines[j] => j = s.job /\ Delivers(to)
      BY <2>4, <2>6
    <2>8. QED  BY <1>1, <2>2, <2>3, <2>4, <2>5, <2>6, <2>7, MoveKeeps
  <1>5. CASE StatusLine(s)
    <2> DEFINE to == [s EXCEPT !.pc = "closed"]
    <2>1. to \in Socket /\ to.pc = "closed" /\ to.job = s.job /\ to.pos = s.pos
      BY <1>1, Repc
    <2>2. /\ Move(s, to) /\ shown' = status[s.job] /\ status[s.job] \in Final
          /\ UNCHANGED <<status, log, current, opened, asks, lines, connected, dropped>>
      BY <1>5 DEF StatusLine, portal
    <2> HIDE DEF to
    <2>3. shown' \in Status \ {"none"}
      BY <2>2 DEF Final, Status
    <2>4. QED  BY <1>1, <2>1, <2>2, <2>3, MoveKeeps DEF Delivers
  <1>6. CASE Drop(s)
    <2> DEFINE to == [s EXCEPT !.pc = "closed"]
    <2>1. to \in Socket /\ to.pc = "closed" /\ to.job = s.job /\ to.pos = s.pos
      BY <1>1, Repc
    <2>2. /\ Move(s, to) /\ dropped' = dropped + 1 /\ dropped < MaxDrops
          /\ UNCHANGED <<status, log, current, opened, asks, lines, shown, connected>>
      BY <1>6 DEF Drop, portal
    <2> HIDE DEF to
    <2>3. dropped' \in 0..MaxDrops
      BY <1>1, <2>2, JobViewAssumption
    <2>4. QED  BY <1>1, <2>1, <2>2, <2>3, MoveKeeps DEF Delivers
  <1>7. CASE CloseEvent(s)
    BY <1>7, CloseEventKeeps
  <1>8. QED  BY <1>3, <1>4, <1>5, <1>6, <1>7

(* An answer that is read, shown or lost. *)
LEMMA AskKeeps ==
  ASSUME Inv, NEW a \in asks, ReadJob(a) \/ ShowJob(a) \/ LoseJob(a)
  PROVE  Inv'
  <1>1. /\ asks \subseteq [job : Job, read : Status \union {Unread}]
        /\ status \in [Job -> Status] /\ a \in [job : Job, read : Status \union {Unread}]
        /\ status[a.job] # "none" /\ a.read # "none"
    BY DEF Inv, Types, Asked
  <1>2. UNCHANGED <<status, log, current, lines, connected, sockets, opened, dropped>>
    BY DEF ReadJob, ShowJob, LoseJob, portal
  <1>3. (Follows /\ AtMostOne /\ Accounted /\ ConnectedIsBacked)'
    BY <1>2 DEF Inv, Follows, AtMostOne, Accounted, ConnectedIsBacked, Delivers
  <1>4. /\ asks' \subseteq [job : Job, read : Status \union {Unread}]
        /\ \A b \in asks' : status[b.job] # "none" /\ b.read # "none"
    <2>1. CASE ReadJob(a)
      <3> DEFINE b == [a EXCEPT !.read = status[a.job]]
      <3>1. /\ b \in [job : Job, read : Status \union {Unread}]
            /\ b.job = a.job /\ b.read = status[a.job]
        BY <1>1
      <3>2. asks' = (asks \ {a}) \union {b}
        BY <2>1 DEF ReadJob
      <3> HIDE DEF b
      <3>3. QED  BY <1>1, <3>1, <3>2 DEF Inv, Asked
    <2>2. CASE ShowJob(a) \/ LoseJob(a)
      BY <1>1, <2>2 DEF ShowJob, LoseJob, Inv, Asked
    <2>3. QED  BY <2>1, <2>2
  <1>5. shown' \in Status \ {"none"}
    <2>1. CASE ShowJob(a)
      BY <1>1, <2>1 DEF ShowJob
    <2>2. CASE ReadJob(a) \/ LoseJob(a)
      BY <2>2 DEF ReadJob, LoseJob, Inv, Types
    <2>3. QED  BY <2>1, <2>2
  <1>6. Types' /\ Asked'
    BY <1>2, <1>4, <1>5 DEF Inv, Types, Asked
  <1>7. QED  BY <1>3, <1>6 DEF Inv

(* The jobs run, write and are cancelled. *)
LEMMA JobKeeps ==
  ASSUME Inv, (\E j \in Job : Advance(j) \/ WriteLine(j)) \/ Cancel
  PROVE  Inv'
  <1>1. status \in [Job -> Status] /\ log \in [Job -> 0..MaxLines]
    BY DEF Inv, Types
  <1>2. CASE \E j \in Job : Advance(j)
    <2>1. PICK j \in Job : Advance(j)
      BY <1>2
    <2>2. PICK to \in Status \ {"none"} : status' = [status EXCEPT ![j] = to]
      BY <2>1 DEF Advance, Server!Queue, Server!Begin, Server!End, Server!Advance,
                  Server!Outcome, Status, Final
    <2>3. UNCHANGED panel /\ UNCHANGED <<log, dropped>>
      BY <2>1 DEF Advance
    <2>4. QED  BY <1>1, <2>2, <2>3, PortalKeeps
  <1>3. CASE \E j \in Job : WriteLine(j)
    <2>1. PICK j \in Job : WriteLine(j)
      BY <1>3
    <2>2. log' \in [Job -> 0..MaxLines]
      BY <1>1, <2>1, JobViewAssumption DEF WriteLine
    <2>3. UNCHANGED panel /\ UNCHANGED <<status, dropped>>
      BY <2>1 DEF WriteLine
    <2>4. QED  BY <1>1, <2>2, <2>3, PortalKeeps
  <1>4. CASE Cancel
    <2>1. /\ UNCHANGED panel /\ UNCHANGED <<log, dropped>>
          /\ status' = [status EXCEPT ![current] = "failed"]
      BY <1>4 DEF Cancel
    <2>2. status' \in [Job -> Status] /\ \A j \in Job : status[j] # "none" => status'[j] # "none"
      BY <1>1, <2>1 DEF Status, Final
    <2>3. QED  BY <1>1, <2>1, <2>2, PortalKeeps
  <1>5. QED  BY <1>2, <1>3, <1>4

(* Every step of the portal, the network and the user keeps the invariant. *)
LEMMA NextKeeps == Inv /\ [Next]_vars => Inv'
  <1> SUFFICES ASSUME Inv, [Next]_vars PROVE Inv'
    OBVIOUS
  <1>1. CASE (\E j \in Job : Advance(j) \/ WriteLine(j)) \/ Cancel
    BY <1>1, JobKeeps
  <1>2. CASE \E j \in Job : Choose(j)
    BY <1>2, ChooseKeeps
  <1>3. CASE Leave
    BY <1>3, LeaveKeeps
  <1>4. CASE \E s \in sockets :
               Connect(s) \/ Line(s) \/ StatusLine(s) \/ Drop(s) \/ CloseEvent(s)
    BY <1>4, SocketKeeps
  <1>5. CASE \E a \in asks : ReadJob(a) \/ ShowJob(a) \/ LoseJob(a)
    BY <1>5, AskKeeps
  <1>6. CASE UNCHANGED vars
    <2>1. UNCHANGED panel /\ UNCHANGED <<status, log, dropped>>
      BY <1>6 DEF vars, panel
    <2>2. status \in [Job -> Status] /\ log \in [Job -> 0..MaxLines]
      BY DEF Inv, Types
    <2>3. QED  BY <2>1, <2>2, PortalKeeps
  <1>7. QED  BY <1>1, <1>2, <1>3, <1>4, <1>5, <1>6 DEF Next

(* The invariant holds in every reachable state. *)
LEMMA AlwaysInv == Spec => []Inv
  BY InitInv, NextKeeps, PTL DEF Spec

(* The bound of the lines follows from what the sockets account for. *)
LEMMA InvTypeOK == Inv => TypeOK
  <1> SUFFICES ASSUME Inv PROVE TypeOK
    OBVIOUS
  <1>1. /\ opened \in Nat /\ MaxSockets \in Nat /\ MaxLines \in Nat /\ opened <= MaxSockets
        /\ lines \in [Job -> Nat]
    BY JobViewAssumption DEF Inv, Types
  <1>2. MaxLines * opened <= MaxLines * MaxSockets
    BY <1>1, Mono
  <1>3. MaxLines * opened \in Nat /\ MaxLines * MaxSockets \in Nat
    BY <1>1, OneMore
  <1>4. \A j \in Job : lines[j] <= MaxLines * opened
    BY DEF Inv, Accounted
  <1>5. \A j \in Job : lines[j] \in 0..(MaxLines * MaxSockets)
    BY <1>1, <1>2, <1>3, <1>4
  <1>6. lines \in [Job -> 0..(MaxLines * MaxSockets)]
    BY <1>1, <1>5
  <1>7. QED  BY <1>6 DEF Inv, Types, TypeOK

(* The panel's state stays within its types: it never shows a job without a
   row, and a log is on it at most once for every socket opened. *)
THEOREM TypeCorrect == Spec => []TypeOK
  BY AlwaysInv, InvTypeOK, PTL

(* The mark "live" of LogPanel is backed by a socket that is open or whose
   close event is still to come, in whatever order sockets open, end and are
   replaced by another choice. *)
THEOREM ConnectedCorrect == Spec => []ConnectedIsBacked
  <1>1. Inv => ConnectedIsBacked
    BY DEF Inv
  <1>2. QED  BY <1>1, AlwaysInv, PTL

(* Only a line sent to the panel adds to it, and the socket that sends is the
   one of the job chosen. *)
LEMMA StepLines ==
  ASSUME Inv, [Next]_vars, NEW j \in Job, lines'[j] > lines[j]
  PROVE  j = current
  <1>1. lines \in [Job -> Nat] /\ lines[j] \in Nat /\ ~(0 > lines[j]) /\ ~(lines[j] > lines[j])
    BY DEF Inv, Types
  <1>2. CASE \E s \in sockets : Line(s)
    <2>1. PICK s \in sockets : Line(s)
      BY <1>2
    <2>2. s.pc = "open" /\ lines' = [lines EXCEPT ![s.job] = @ + 1]
      BY <2>1 DEF Line
    <2>3. j = s.job
      BY <1>1, <2>2
    <2>4. s.job = current
      BY <2>2 DEF Inv, Follows, Delivers
    <2>5. QED  BY <2>3, <2>4
  <1>3. CASE lines' = lines
    BY <1>1, <1>3
  <1>4. CASE Leave
    BY <1>1, <1>4 DEF Leave, Nothing
  <1>5. lines' = lines \/ Leave \/ \E s \in sockets : Line(s)
    BY DEF Next, vars, Advance, WriteLine, Choose, Cancel, Connect, StatusLine, Drop,
           CloseEvent, ReadJob, ShowJob, LoseJob, panel
  <1>6. QED  BY <1>2, <1>3, <1>4, <1>5

(* The clean-up of useJobLog is enough: whatever is still under way, no line
   of a job left behind is added to the panel of the next one. *)
THEOREM NoForeignLinesCorrect == Spec => NoForeignLines
  <1>1. Inv /\ [Next]_vars => [\A j \in Job : lines'[j] > lines[j] => j = current]_vars
    BY StepLines
  <1>2. QED  BY <1>1, AlwaysInv, PTL DEF Spec, NoForeignLines
=============================================================================
