------------------------------- MODULE Views -------------------------------
(***************************************************************************)
(* One screen of the browser application: a table, panel, page or dialog   *)
(* that loads what it shows from the portal and offers operations on it.   *)
(* Every component under src/frontend/src follows the same life cycle:     *)
(* an effect loads the data of the subject selected (a node, a guest, a    *)
(* user ...), a click sends a request and sets a busy flag, and the answer *)
(* patches what is shown, starts a reload or closes the dialog.  They      *)
(* differ in what they do about answers that come late and about clicks    *)
(* that come early; the module Screens says so for each of them, as a      *)
(* record, and this module says what such a record does.                   *)
(*                                                                         *)
(*   load    "none"     nothing is loaded                                  *)
(*           "plain"    every answer is shown when it arrives              *)
(*           "guarded"  a new load retires the earlier ones (an `active`   *)
(*                      or `cancelled` flag reset by the effect's clean-up)*)
(*           "query"    react-query keeps the data of every subject for a  *)
(*                      while and runs one fetch of a subject at a time: a *)
(*                      reload cancels the fetch under way when there are  *)
(*                      data to show meanwhile, and joins it when there    *)
(*                      are none yet; a tick of its interval always joins  *)
(*   change  "fixed"    the subject stays while the screen is mounted      *)
(*           "keeps"    another subject reloads; the old data stay until   *)
(*                      the answer is there                                *)
(*           "clears"   another subject reloads and empties the screen     *)
(*   poll    the screen also reloads at an interval                        *)
(*   ops     its operations, each with                                     *)
(*     lock  "one"      a busy flag that disables all operations that use it *)
(*           "own"      a second such flag                                 *)
(*           "each"     a flag of every row, or of every button: the       *)
(*                      others may run at the same time                    *)
(*           "last"     the id of the row clicked last                     *)
(*           "free"     no flag                                            *)
(*     then  "close"    the dialog closes, or the page is left             *)
(*           "reload"   a reload is started, the flag is reset at once     *)
(*           "await"    the flag is reset when the reload has answered     *)
(*           "patch"    the state shown is changed from the answer         *)
(*           "stay"     nothing that is shown changes                      *)
(*           "leave"    the dialog closes whatever the answer is           *)
(*     ask   the guard hooks the request goes through: the portal may      *)
(*           answer 409 with a warning for one of them, the hook keeps the *)
(*           call in its only slot and shows a dialog over the page, and   *)
(*           the call is sent again, past all guards, when the user        *)
(*           confirms                                                      *)
(***************************************************************************)
EXTENDS Naturals, FiniteSets

CONSTANTS Screens,      \* the records of the screens
          Subject, Row, \* what can be selected, and the rows of a table
          None,
          MaxCalls,     \* bound: clicks on an operation
          MaxSelects,   \* bound: changes of the subject
          MaxPolls      \* bound: ticks of the interval

\* useDependencyImpactGuard, useHaAwarenessGuard, useIpamReleaseGuard
Guards == {"impact", "ha", "ipam"}

ASSUME NoneAssumption == None \notin Subject \cup Row /\ None \notin Nat

ASSUME ScreensAssumption ==
  \A s \in Screens :
     /\ s.load \in {"none", "plain", "guarded", "query"}
     /\ s.change \in {"fixed", "keeps", "clears"}
     /\ s.poll \in BOOLEAN
     /\ \A o \in s.ops : /\ o.lock \in {"one", "own", "each", "last", "free"}
                         /\ o.then \in {"close", "reload", "await", "patch", "stay", "leave"}
                         /\ o.ask \subseteq Guards
                         /\ o.then \in {"reload", "await"} => s.load # "none"
     /\ s.poll => s.load # "none"

\* The operations of a screen that go through guard hooks share one kind of flag.
ASSUME GuardAssumption ==
  \A s \in Screens : \A o, p \in s.ops :
     o.ask # {} /\ p.ask # {} => o.lock = p.lock /\ o.lock # "free"

\* An operation that closes its dialog is locked by one flag of the dialog.
ASSUME DialogAssumption ==
  \A s \in Screens : \A o \in s.ops :
     o.then \in {"close", "leave"} => o.lock \in {"one", "own"}

ASSUME BoundsAssumption == MaxCalls \in Nat /\ MaxSelects \in Nat /\ MaxPolls \in Nat

VARIABLES
  screen,   \* the screen under study
  open,     \* it is mounted
  subject,  \* the subject selected
  shown,    \* None, or the subject and the changes of the data on the screen
  loads,    \* loads under way
  calls,    \* every click so far: where its request stands
  busy,     \* the busy flags: <<lock, row>>
  slot,     \* by guard: None, or the call its dialog asks about
  selects, polls,
  rushed,   \* a request was started while another one was under way
  failed,   \* the last load that counted failed
  missed    \* the calls no load was started for: theirs joined an earlier one

vars == <<screen, open, subject, shown, loads, calls, busy, slot, selects, polls,
          rushed, failed, missed>>

------------------------------------------------------------------------------
(* Requests under way                                                       *)

Ended == {"ok", "error"}
Running == {c \in calls : c.stage \notin Ended}
Quiet == loads = {} /\ Running = {}

\* What the portal has done for subject k
Changes(k) == {c.id : c \in {d \in calls : d.ran /\ d.key = k}}

\* One more load of subject k, awaited by the calls i
FreshId == CHOOSE n \in 1 .. Cardinality(loads) + 1 : \A l \in loads : l.id # n
\* Mutant: the effect closes over a subject that is not set yet
LoadUnbound(k, i) == [id |-> FreshId, key |-> None, seen |-> {}, served |-> FALSE,
                      live |-> TRUE, for |-> i]
Load(k, i) == [id |-> FreshId, key |-> k, seen |-> {}, served |-> FALSE,
               live |-> TRUE, for |-> i]

\* Mutant: the clean-up of the effect is forgotten
RetiredNever(ls) == ls
Retired(ls) == IF screen.load = "plain" THEN ls
               ELSE {[l EXCEPT !.live = FALSE] : l \in ls}

\* The fetch of subject k that a query has under way, and whether it has data
Fetching(k) == IF screen.load = "query" THEN {l \in loads : l.key = k} ELSE {}
HasData(k) == shown # None /\ shown.key = k

\* A load starts; who waited for the fetch that it cancels waits for it
StartLoad(k, i) ==
  /\ loads' = Retired(loads \ Fetching(k))
                \cup {Load(k, i \cup UNION {l.for : l \in Fetching(k)})}
  /\ missed' = {}

\* The fetch under way is taken for the load; it may be older than the calls told
Joined(l, i) == [l EXCEPT !.live = TRUE, !.for = @ \cup i]
JoinLoad(k, i, told) ==
  /\ loads' = Retired(loads \ Fetching(k)) \cup {Joined(l, i) : l \in Fetching(k)}
  /\ missed' = missed \cup told

\* Mutant: invalidateQueries with cancelRefetch off
ReloadJoins(k, i, told) ==
  IF Fetching(k) # {} THEN JoinLoad(k, i, IF HasData(k) THEN {} ELSE told)
  ELSE StartLoad(k, i)
\* A reload for the calls told
Reload(k, i, told) ==
  IF Fetching(k) # {} /\ ~HasData(k) THEN JoinLoad(k, i, told) ELSE StartLoad(k, i)

(* Busy flags: <<lock, row>>                                                *)

\* Mutant: every flag is taken for the flag of a row
LockedRow(o, r) == <<o.lock, r>> \in busy
Locked(o, r) == \E b \in busy : b[1] = o.lock /\ (o.lock \in {"each", "last"} => b[2] = r)

\* The flags without those of a lock: all of it, or a row's
Reset(lock, r) == {b \in busy : ~(b[1] = lock /\ (lock = "each" => b[2] = r))}

Lock(o, r) == CASE o.lock = "free" -> busy
                [] o.lock = "last" -> Reset("last", r) \cup {<<"last", r>>}
                [] OTHER -> busy \cup {<<o.lock, r>>}

\* The flags left when call c has ended
Unlock(c) == Reset(c.op.lock, c.row)

NoDialog == [g \in Guards |-> None]

\* The component is gone with its state; answers to it are dropped
Unmount == /\ open' = FALSE /\ shown' = None /\ loads' = {} /\ busy' = {}
           /\ slot' = NoDialog /\ UNCHANGED missed

\* onConfirm's finally: the dialog closes, whichever call it shows by now
CloseDialog(c) == slot' = IF c.sure THEN [slot EXCEPT ![c.guard] = None] ELSE slot

Move(c, s) == calls' = (calls \ {c}) \cup {[c EXCEPT !.stage = s]}

------------------------------------------------------------------------------
\* A screen loads when it is mounted; a query may have the data of an earlier visit
\* and, while those are fresh, fetches nothing
FirstLoad == [id |-> 1, key |-> subject, seen |-> {}, served |-> FALSE, live |-> TRUE,
              for |-> {}]
Init == /\ screen \in Screens
        /\ open = TRUE
        /\ subject \in Subject
        /\ \/ shown = None /\ loads = IF screen.load = "none" THEN {} ELSE {FirstLoad}
           \/ /\ screen.load = "query"
              /\ shown = [key |-> subject, seen |-> {}] /\ loads \in {{}, {FirstLoad}}
        /\ calls = {} /\ busy = {} /\ slot = NoDialog
        /\ selects = 0 /\ polls = 0
        /\ rushed = FALSE /\ failed = FALSE /\ missed = {}

\* The dependencies of the effect change
EffectRuns(k) ==
  /\ screen.load # "query"
  /\ shown' = IF screen.change = "clears" THEN None ELSE shown
  /\ IF screen.load = "none" THEN UNCHANGED <<loads, missed>> ELSE StartLoad(k, {})

\* The key of the query changes: data of subject k that were kept are shown at once,
\* and a fetch starts unless one is under way or the data are fresh
KeyChanges(k) ==
  /\ screen.load = "query"
  /\ shown' \in {None} \cup {[key |-> k, seen |-> e] : e \in SUBSET Changes(k)}
  /\ \/ Fetching(k) = {} /\ StartLoad(k, {})
     \/ (Fetching(k) # {} \/ shown' # None) /\ JoinLoad(k, {}, Changes(k))

\* The user selects another subject, or the parent passes another one
Select(k) ==
  /\ open /\ screen.change # "fixed" /\ k # subject /\ selects < MaxSelects
  /\ subject' = k
  /\ EffectRuns(k) \/ KeyChanges(k)
  /\ selects' = selects + 1
  /\ rushed' = (rushed \/ ~Quiet)
  /\ UNCHANGED <<screen, open, calls, busy, slot, polls, failed>>

\* The interval's tick; for a query also the focus of the window, a refresh button
\* and an invalidation by another component
Tick ==
  /\ open /\ (screen.poll \/ screen.load = "query") /\ polls < MaxPolls
  /\ \/ Fetching(subject) # {} /\ UNCHANGED <<loads, missed>>
     \/ Reload(subject, {}, {})
  /\ polls' = polls + 1
  /\ rushed' = (rushed \/ ~Quiet)
  /\ UNCHANGED <<screen, open, subject, shown, calls, busy, slot, selects, failed>>

\* A click on operation o of row r: the handler keeps the subject it was
\* rendered with
Click(o, r) ==
  /\ open /\ o \in screen.ops /\ ~Locked(o, r)
  /\ slot = NoDialog                    \* the guard's dialog covers the page
  /\ Cardinality(calls) < MaxCalls
  /\ calls' = calls \cup {[id |-> Cardinality(calls) + 1, op |-> o, row |-> r,
                           key |-> subject, stage |-> "sent", ran |-> FALSE, sure |-> FALSE,
                           guard |-> None]}
  /\ busy' = Lock(o, r)
  /\ rushed' = (rushed \/ ~Quiet)
  /\ UNCHANGED <<screen, open, subject, shown, loads, slot, selects, polls, failed, missed>>

\* The portal carries out a request, or refuses it
Run(c) ==
  /\ c \in calls /\ c.stage = "sent"
  /\ calls' = (calls \ {c}) \cup {[c EXCEPT !.stage = "done", !.ran = TRUE]}
  /\ UNCHANGED <<screen, open, subject, shown, loads, busy, slot, selects, polls,
                 rushed, failed, missed>>

Refuse(c) ==
  /\ c \in calls /\ c.stage = "sent"
  /\ Move(c, "refused")
  /\ UNCHANGED <<screen, open, subject, shown, loads, busy, slot, selects, polls,
                 rushed, failed, missed>>

\* The answer of a request that was carried out is lost, or comes too late
LoseAnswer(c) ==
  /\ c \in calls /\ c.stage = "done"
  /\ Move(c, "lost")
  /\ UNCHANGED <<screen, open, subject, shown, loads, busy, slot, selects, polls,
                 rushed, failed, missed>>

\* What the answer of call c does to a mounted screen
Closes(c) ==
  /\ c.op.then \in {"close", "leave"}
  /\ Unmount /\ Move(c, "ok")

\* The subject a reload is for: an effect or a query knows the one selected, a
\* handler the one it was rendered with
Target(c) == IF screen.load = "plain" THEN c.key ELSE subject

\* A query of another subject than the one shown is only marked as stale
Reloads(c) ==
  /\ c.op.then = "reload"
  /\ \/ Reload(Target(c), {}, {c.id})
     \/ screen.load = "query" /\ c.key # subject /\ UNCHANGED <<loads, missed>>
  /\ busy' = Unlock(c) /\ Move(c, "ok")
  /\ CloseDialog(c)
  /\ UNCHANGED <<open, shown>>

AwaitsReload(c) ==
  /\ c.op.then = "await"
  /\ Reload(Target(c), {c.id}, {c.id})
  /\ Move(c, "reloading")
  /\ CloseDialog(c)
  /\ UNCHANGED <<open, shown, busy>>

Patches(c) ==
  /\ c.op.then = "patch"
  /\ shown' = IF shown # None /\ shown.key = c.key
                THEN [shown EXCEPT !.seen = @ \cup {c.id}] ELSE shown
  /\ busy' = Unlock(c) /\ Move(c, "ok")
  /\ CloseDialog(c)
  /\ UNCHANGED <<open, loads, missed>>

Stays(c) ==
  /\ c.op.then = "stay"
  /\ busy' = Unlock(c) /\ Move(c, "ok")
  /\ CloseDialog(c)
  /\ UNCHANGED <<open, shown, loads, missed>>

Answered(c) ==
  /\ c \in calls /\ c.stage = "done" /\ open
  /\ Closes(c) \/ Reloads(c) \/ AwaitsReload(c) \/ Patches(c) \/ Stays(c)
  /\ rushed' = (rushed \/ loads # {} \/ Running # {c})
  /\ UNCHANGED <<screen, subject, selects, polls, failed>>

\* Mutant: the flag is reset in the try block only
FailedKeepsBusy(c) ==
  /\ c \in calls /\ c.stage \in {"refused", "lost"} /\ open
  /\ Move(c, "error") /\ CloseDialog(c)
  /\ UNCHANGED <<screen, open, subject, shown, loads, busy, selects, polls, rushed, failed, missed>>

\* The catch and finally blocks: the error is shown and the flag reset
Failed(c) ==
  /\ c \in calls /\ c.stage \in {"refused", "lost"} /\ open
  /\ IF c.op.then = "leave"
       THEN Unmount
       ELSE busy' = Unlock(c) /\ CloseDialog(c) /\ UNCHANGED <<open, shown, loads, missed>>
  /\ Move(c, "error")
  /\ UNCHANGED <<screen, subject, selects, polls, rushed, failed>>

\* The portal answers 409 with the warning of a guard instead of carrying the
\* request out
Warn(c) ==
  /\ c \in calls /\ c.stage = "sent" /\ ~c.sure
  /\ \E g \in c.op.ask :
       calls' = (calls \ {c}) \cup {[c EXCEPT !.stage = "warned", !.guard = g]}
  /\ UNCHANGED <<screen, open, subject, shown, loads, busy, slot, selects, polls,
                 rushed, failed, missed>>

\* guardedRun's catch: the slot takes the call, whatever it held
Ask(c) ==
  /\ c \in calls /\ c.stage = "warned" /\ open
  /\ Move(c, "asked")
  /\ slot' = [slot EXCEPT ![c.guard] = c.id]
  /\ UNCHANGED <<screen, open, subject, shown, loads, busy, selects, polls, rushed, failed,
                 missed>>

\* The dialog is busy until the call it sent again has ended
DialogBusy(g) == \E c \in calls : /\ c.sure /\ c.guard = g
                                  /\ c.stage \in {"sent", "done", "refused", "lost"}

Confirm(c) ==
  /\ c \in calls /\ c.stage = "asked" /\ slot[c.guard] = c.id /\ open
  /\ ~DialogBusy(c.guard)
  /\ calls' = (calls \ {c}) \cup {[c EXCEPT !.stage = "sent", !.sure = TRUE]}
  /\ UNCHANGED <<screen, open, subject, shown, loads, busy, slot, selects, polls,
                 rushed, failed, missed>>

Cancel(c) ==
  /\ c \in calls /\ c.stage = "asked" /\ slot[c.guard] = c.id /\ open
  /\ ~DialogBusy(c.guard)
  /\ busy' = Unlock(c) /\ Move(c, "error")
  /\ slot' = [slot EXCEPT ![c.guard] = None]
  /\ UNCHANGED <<screen, open, subject, shown, loads, selects, polls, rushed, failed,
                 missed>>

\* The answer for a screen that is gone changes nothing
Unheard(c) ==
  /\ c \in calls /\ c.stage \in {"done", "refused", "lost", "warned"} /\ ~open
  /\ Move(c, IF c.stage = "done" THEN "ok" ELSE "error")
  /\ UNCHANGED <<screen, open, subject, shown, loads, busy, slot, selects, polls,
                 rushed, failed, missed>>

\* The portal reads the data of a load
Serve(l) ==
  /\ l \in loads /\ ~l.served
  /\ loads' = (loads \ {l}) \cup {[l EXCEPT !.served = TRUE, !.seen = Changes(l.key)]}
  /\ UNCHANGED <<screen, open, subject, shown, calls, busy, slot, selects, polls,
                 rushed, failed, missed>>

\* The calls that waited for load l have ended
Release(l) ==
  LET waiting == {c \in calls : c.id \in l.for /\ c.stage = "reloading"} IN
  /\ calls' = (calls \ waiting) \cup {[c EXCEPT !.stage = "ok"] : c \in waiting}
  /\ busy' = {b \in busy : \A c \in waiting : b \in Unlock(c)}

Show(l) ==
  /\ l \in loads /\ l.served
  /\ loads' = loads \ {l}
  /\ shown' = IF l.live THEN [key |-> l.key, seen |-> l.seen] ELSE shown
  /\ failed' = (failed /\ ~l.live)
  /\ Release(l)
  /\ UNCHANGED <<screen, open, subject, slot, selects, polls, rushed, missed>>

\* A load that fails leaves the data, or, if it is not a query's, empties the screen
LoadFails(l) ==
  /\ l \in loads /\ ~l.served
  /\ loads' = loads \ {l}
  /\ shown' \in IF l.live /\ screen.load # "query" THEN {shown, None} ELSE {shown}
  /\ failed' = (failed \/ l.live)
  /\ Release(l)
  /\ UNCHANGED <<screen, open, subject, slot, selects, polls, rushed, missed>>

\* The dialog is cancelled, or the page left
Leave ==
  /\ open /\ Unmount
  /\ calls' = {CASE c.stage = "reloading" -> [c EXCEPT !.stage = "ok"]
                  [] c.stage = "asked" -> [c EXCEPT !.stage = "error"]
                  [] OTHER -> c : c \in calls}
  /\ UNCHANGED <<screen, subject, selects, polls, rushed, failed>>

User == (\E k \in Subject : Select(k)) \/ Tick \/ Leave
        \/ (\E o \in screen.ops, r \in Row : Click(o, r))
        \/ (\E c \in calls : Confirm(c) \/ Cancel(c))

CallStep == \E c \in calls : \/ Run(c) \/ Refuse(c) \/ LoseAnswer(c)
                             \/ Answered(c) \/ Failed(c) \/ Unheard(c)
                             \/ Warn(c) \/ Ask(c)
LoadStep == \E l \in loads : Serve(l) \/ Show(l) \/ LoadFails(l)

Next == User \/ CallStep \/ LoadStep

Spec == Init /\ [][Next]_vars

------------------------------------------------------------------------------
(* What the screens owe their user                                          *)

Stages == {"sent", "warned", "asked", "done", "refused", "lost", "reloading", "ok",
           "error"}

CallType == [id : 1 .. MaxCalls, op : screen.ops, row : Row, key : Subject,
             stage : Stages, ran : BOOLEAN, sure : BOOLEAN, guard : {None} \cup Guards]
LoadType == [id : Nat, key : Subject, seen : SUBSET (1 .. MaxCalls),
             served : BOOLEAN, live : BOOLEAN, for : SUBSET (1 .. MaxCalls)]

\* The state of a screen is well formed, and a flag names a row of an
\* operation of its own or the flag its operations share.
TypeOK ==
  /\ screen \in Screens /\ open \in BOOLEAN /\ subject \in Subject
  /\ \/ shown = None
     \/ shown \in [key : Subject, seen : SUBSET (1 .. MaxCalls)]
  /\ loads \subseteq LoadType
  /\ calls \subseteq CallType
  /\ busy \subseteq {<<o.lock, r>> : o \in screen.ops, r \in Row}
  /\ slot \in [Guards -> {None} \cup (1 .. MaxCalls)]
  /\ selects \in 0 .. MaxSelects /\ polls \in 0 .. MaxPolls
  /\ rushed \in BOOLEAN /\ failed \in BOOLEAN /\ missed \subseteq 1 .. MaxCalls

\* When every request has been answered, a screen shows the subject that is
\* selected. The guard of the effect (`if (active)`, `cancelled`) or the key of the
\* query is what makes it so when the user selects faster than the portal answers; a
\* screen without one keeps the promise only to a user who waits for each answer.
Sieved == screen.load \in {"guarded", "query"}
ShowsSelected ==
  Quiet /\ shown # None /\ ~failed /\ (Sieved \/ ~rushed) => shown.key = subject

\* The changes a call that was reported a success made to the subject shown
Reported == {c.id : c \in {d \in calls : /\ d.stage = "ok" /\ d.ran /\ d.key = subject
                                         /\ d.op.then \in {"reload", "await", "patch"}}}

\* When every request has been answered, the rows include every change the user was
\* told has been made: the reload after an operation, or the patch, is never undone
\* by an older answer. Guarded reloads and queries keep it in every order of clicks,
\* the others when requests do not overlap. A query owes nothing for a call whose
\* reload joined the first fetch, begun before the change (WebhookAllowlistSection
\* offers its form while it loads), until the next reload.
Orderly == \/ Sieved /\ \A o \in screen.ops : o.then # "patch"
           \/ ~rushed
OwnChangesShown ==
  Quiet /\ open /\ shown # None /\ ~failed /\ Orderly /\ shown.key = subject
    => Reported \ missed \subseteq shown.seen

\* A dialog carries out its operation a second time only after its user was told
\* that the first attempt failed: the flag is held until the answer is there, and
\* the dialog is gone when the answer is a success.
DialogRunsOnce ==
  \A o \in screen.ops :
    o.then \in {"close", "leave"}
      => Cardinality({c \in calls : c.op = o /\ c.ran /\ c.stage # "error"}) <= 1

\* No button is dead: a busy flag is set only while a call that will reset it is
\* under way, whichever of the calls and reloads fail and in whichever order they end.
\* A call that asks settles with the answer, as long as it has the guard's only slot;
\* buttons of several actions (VmActionButtons) can take it from each other, when the
\* second is clicked before the warning of the first is there.
Settling(c) == c.stage = "asked" => slot[c.guard] = c.id \/ (c.op.lock = "each" /\ rushed)
FlagsAreBacked ==
  \A b \in busy : \E c \in Running :
     Settling(c) /\ c.op.lock = b[1] /\ (b[1] = "each" => c.row = b[2])

==============================================================================
