------------------------------ MODULE JobView ------------------------------
(***************************************************************************)
(* What the events page of the browser makes of the jobs: the panel that   *)
(* follows the log of the job chosen (useJobLog, LogPanel), with its       *)
(* websockets and the answers to GET /api/jobs/{id}.  The jobs live as     *)
(* JobLifecycle says, and may be cancelled from the panel.                 *)
(***************************************************************************)
EXTENDS Naturals, FiniteSets

CONSTANTS Job,
          None,         \* no job chosen
          MaxLines,     \* bound: lines of a log
          MaxSockets,   \* bound: sockets opened
          MaxDrops      \* bound: connections lost

ASSUME JobViewAssumption ==
  /\ None \notin Job
  /\ MaxLines \in Nat /\ MaxSockets \in Nat /\ MaxDrops \in Nat

VARIABLES status,    \* jobs.status on the portal
          log,       \* log[j]: lines written
          current,   \* the job id in the route
          lines,     \* lines[j]: lines of job j on the panel
          shown,     \* status shown by the panel
          connected, \* "live" or "getrennt"
          sockets,   \* sockets whose events the panel still listens to
          opened,    \* sockets opened so far
          asks,      \* answers of getJob under way
          dropped    \* connections lost so far

vars == <<status, log, current, lines, shown, connected, sockets, opened, asks,
          dropped>>
portal == <<status, log>>
panel  == <<current, lines, shown, connected, sockets, opened, asks>>

Server == INSTANCE JobLifecycle
            WITH Job <- Job, status <- status, told <- [j \in Job |-> {}]

Final  == {"success", "failed"}
Status == {"none", "pending", "running"} \union Final
Unread == "unread"       \* asked, the row not read yet

Socket == [n : 1..MaxSockets, job : Job, pos : 0..MaxLines,
           pc : {"connecting", "open", "closed"}]

\* What the variables range over.
TypeOK ==
  /\ status \in [Job -> Status]
  /\ log \in [Job -> 0..MaxLines]
  /\ current \in Job \union {None}
  /\ lines \in [Job -> 0..(MaxLines * MaxSockets)]
  /\ shown \in Status \ {"none"}
  /\ connected \in BOOLEAN
  /\ sockets \subseteq Socket /\ opened \in 0..MaxSockets
  /\ asks \subseteq [job : Job, read : Status \union {Unread}]
  /\ dropped \in 0..MaxDrops

Nothing == [j \in Job |-> 0]

Init ==
  /\ Server!AInit
  /\ log = Nothing /\ current = None
  /\ lines = Nothing /\ shown = "pending" /\ connected = FALSE
  /\ sockets = {} /\ opened = 0 /\ asks = {}
  /\ dropped = 0

(***************************************************************************)
(* The portal                                                              *)
(***************************************************************************)
Advance(j) ==
  /\ Server!Queue(j) \/ Server!Begin(j) \/ Server!End(j)
  /\ UNCHANGED <<log, panel, dropped>>

WriteLine(j) ==
  /\ status[j] = "running" /\ log[j] < MaxLines
  /\ log' = [log EXCEPT ![j] = @ + 1]
  /\ UNCHANGED <<status, panel, dropped>>

\* The button shows while the panel says "running"; cancel_job refuses a job
\* that has ended.
Cancel ==
  /\ current # None /\ shown = "running"
  /\ status[current] \in {"pending", "running"}
  /\ status' = [status EXCEPT ![current] = "failed"]
  /\ UNCHANGED <<log, panel, dropped>>

(***************************************************************************)
(* useJobLog: one socket and one getJob per job chosen                     *)
(***************************************************************************)
\* Mutant: the effect has no clean-up.
HangUpNothing(S) == S

\* The clean-up, ws.close(): no message is delivered any more, the close
\* event is still to come.
HangUp(S) == {[s EXCEPT !.pc = "closed"] : s \in S}

\* Neither the lines nor the status of the job before are taken back.
Choose(j) ==
  /\ status[j] # "none" /\ current # j /\ opened < MaxSockets
  /\ current' = j
  /\ opened' = opened + 1
  /\ sockets' = HangUp(sockets) \union
       {[n |-> opened + 1, job |-> j, pos |-> 0, pc |-> "connecting"]}
  /\ asks' = asks \union {[job |-> j, read |-> Unread]}
  /\ UNCHANGED <<portal, lines, shown, connected, dropped>>

\* Without a job the panel is unmounted; the next one starts afresh.
Leave ==
  /\ current # None
  /\ current' = None
  /\ lines' = Nothing /\ shown' = "pending" /\ connected' = FALSE
  /\ sockets' = {} /\ asks' = {}
  /\ UNCHANGED <<portal, opened, dropped>>

Move(s, to) == sockets' = (sockets \ {s}) \union {to}

Connect(s) ==
  /\ s.pc = "connecting"
  /\ Move(s, [s EXCEPT !.pc = "open"])
  /\ connected' = TRUE
  /\ UNCHANGED <<portal, current, lines, shown, opened, asks, dropped>>

\* job_logs_ws sends the log from its first line.
Line(s) ==
  /\ s.pc = "open" /\ s.pos < log[s.job]
  /\ Move(s, [s EXCEPT !.pos = @ + 1])
  /\ lines' = [lines EXCEPT ![s.job] = @ + 1]
  /\ UNCHANGED <<portal, current, shown, connected, opened, asks, dropped>>

\* Mutant: the final line of the log is not recognised as a status.
StatusLineUnseen(s) ==
  /\ s.pc = "open" /\ s.pos = log[s.job] /\ status[s.job] \in Final
  /\ Move(s, [s EXCEPT !.pc = "closed"])
  /\ UNCHANGED <<portal, current, lines, shown, connected, opened, asks, dropped>>

\* "[status] ..." after the last line, then the portal closes.
StatusLine(s) ==
  /\ s.pc = "open" /\ s.pos = log[s.job] /\ status[s.job] \in Final
  /\ Move(s, [s EXCEPT !.pc = "closed"])
  /\ shown' = status[s.job]
  /\ UNCHANGED <<portal, current, lines, connected, opened, asks, dropped>>

Drop(s) ==
  /\ s.pc # "closed" /\ dropped < MaxDrops
  /\ dropped' = dropped + 1
  /\ Move(s, [s EXCEPT !.pc = "closed"])
  /\ UNCHANGED <<portal, current, lines, shown, connected, opened, asks>>

\* Mutant: no onclose handler.
CloseEventUnheard(s) ==
  /\ s.pc = "closed"
  /\ sockets' = sockets \ {s}
  /\ UNCHANGED <<portal, current, lines, shown, connected, opened, asks, dropped>>

\* onclose; the socket may be the one of an earlier choice.
CloseEvent(s) ==
  /\ s.pc = "closed"
  /\ sockets' = sockets \ {s}
  /\ connected' = FALSE
  /\ UNCHANGED <<portal, current, lines, shown, opened, asks, dropped>>

\* getJob reads the row, and its answer arrives, whatever was chosen since.
ReadJob(a) ==
  /\ a.read = Unread
  /\ asks' = (asks \ {a}) \union {[a EXCEPT !.read = status[a.job]]}
  /\ UNCHANGED <<portal, current, lines, shown, connected, sockets, opened, dropped>>

ShowJob(a) ==
  /\ a.read # Unread
  /\ asks' = asks \ {a}
  /\ shown' = a.read
  /\ UNCHANGED <<portal, current, lines, connected, sockets, opened, dropped>>

LoseJob(a) ==
  /\ asks' = asks \ {a}
  /\ UNCHANGED <<portal, current, lines, shown, connected, sockets, opened, dropped>>

(***************************************************************************)
Next ==
  \/ \E j \in Job : Advance(j) \/ WriteLine(j) \/ Choose(j)
  \/ Cancel \/ Leave
  \/ \E s \in sockets : Connect(s) \/ Line(s) \/ StatusLine(s) \/ Drop(s) \/ CloseEvent(s)
  \/ \E a \in asks : ReadJob(a) \/ ShowJob(a) \/ LoseJob(a)

Spec == Init /\ [][Next]_vars

\* A connection that is not lost opens and delivers what the portal sends.
FairSpec ==
  /\ Spec
  /\ \A n \in 1..MaxSockets :
       WF_vars(\E s \in sockets : s.n = n /\ (Connect(s) \/ Line(s) \/ StatusLine(s)))

(***************************************************************************)
(* Properties                                                              *)
(***************************************************************************)
\* "live" is shown only while a connection is open or its end is about to be
\* noticed: no order of open, close and choice leaves the mark behind.
ConnectedIsBacked == connected => \E s \in sockets : s.pc \in {"open", "closed"}

\* A panel that moved on to another job takes no more lines of the one before.
NoForeignLines ==
  [][\A j \in Job : lines'[j] > lines[j] => j = current]_vars

\* A panel whose connection is up when its job ends comes to say so, as long
\* as the user stays and no connection is lost.
FinishedIsShown ==
  \A j \in Job :
    (/\ current = j /\ status[j] \in Final
     /\ \E s \in sockets : s.job = j /\ s.pc # "closed")
      ~> shown = status[j] \/ current # j \/ dropped > 0
=============================================================================
