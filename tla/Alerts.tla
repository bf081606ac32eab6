------------------------------- MODULE Alerts -------------------------------
(***************************************************************************)
(* The alerts of one VM and one metric: the rules that may apply to it,    *)
(* the state kept for each rule and severity, and the checks that move     *)
(* that state (services/alert_check_service.py, alert_rule_service.py).    *)
(*                                                                         *)
(* A check is a task of its own for every fresh answer about the VMs       *)
(* (cluster_cache_service.py:112), and nothing keeps two of them apart:    *)
(* each reads a state, decides, and writes in database sessions of its     *)
(* own.  A step of this module is what lies between two awaits of that.    *)
(* Rules of other metrics have states of their own, so one metric is       *)
(* enough; the rules of a check are read in one step, which is what the    *)
(* code's three queries see as long as one edit at most falls among them.  *)
(***************************************************************************)
EXTENDS Naturals

CONSTANTS Slot,         \* checks: as many run at the same time
          Value,        \* what is measured
          MaxRule,      \* bound: the largest row id of a rule
          MaxPolls,     \* the largest sustained_polls
          Settings,     \* what a rule may be set to
          InitialRules, \* the rules in the beginning
          MaxDisturbed  \* bound: edits of rules or of the assignment, and restarts

ASSUME BoundsAssumption == 
  MaxRule \in Nat /\ MaxPolls \in Nat /\ MaxDisturbed \in Nat

Rule == 1 .. MaxRule
Severity == {"warning", "critical"}
Scope == {"global", "preset", "vm"}

\* A measured value is compared with the thresholds only: 1 reaches the threshold of a
\* warning, 2 the critical one too.  An answer without the value (or without the VM, or
\* with a template) checks nothing and is left out.
ASSUME ValueAssumption == Value \subseteq 0 .. 2 /\ 0 \in Value
None == 0  \* no threshold
Setting == [scope : Scope, enabled : BOOLEAN, warning : 0 .. 2, critical : 0 .. 2,
            polls : 1 .. MaxPolls, recovery : BOOLEAN]
ASSUME SettingsAssumption == Settings \subseteq Setting /\ Settings # {}
ASSUME InitialRulesAssumption ==
  \A f \in InitialRules : DOMAIN f \subseteq Rule /\ \A r \in DOMAIN f : f[r] \in Settings

NoRow == [state |-> "none", count |-> 0]
Row == [state : {"ok", "pending", "firing"}, count : Nat] \cup {NoRow}

VARIABLES
  value,     \* what Proxmox would answer for the VM
  rules,     \* alert_rules: a function on the ids in use
  assigned,  \* whether the preset is assigned to the VM
  rows,      \* alert_states: for a rule and severity the row, or none; its state
             \* 'warning' or 'critical' is called firing here
  check,     \* the checks
  disturbed, \* how many edits and restarts there were
  seen       \* history: for a rule and severity what the polls have shown

vars == <<value, rules, assigned, rows, check, disturbed, seen>>

------------------------------------------------------------------------------
Rules(scope) == {r \in DOMAIN rules : rules[r].scope = scope /\ rules[r].enabled}

Newest(some) == {r \in some : \A q \in some : q <= r}

\* One rule per metric: that of the VM, or of the assigned preset, or a global
\* one; ids are in the order of creation, and the last (of globals the first) wins.
Effective ==
  IF Rules("vm") # {} THEN Newest(Rules("vm"))
  ELSE IF assigned /\ Rules("preset") # {} THEN Newest(Rules("preset"))
  ELSE {r \in Rules("global") : \A q \in Rules("global") : r <= q}

Firing(r, s) == rows[r][s].state = "firing"
Breached(set, v, s) == set[s] # None /\ v >= set[s]

\* What a check makes of a state: the row to write, and the event to record.
\* A severity without a row counts as ok.
Judge(breached, row, fires, ends) ==
  IF ~breached THEN [row   |-> [state |-> "ok", count |-> 0],
                     event |-> IF ends THEN "resolved" ELSE "none"]
  ELSE IF row.state = "firing" THEN [row |-> row, event |-> "none"]
  ELSE [row   |-> [state |-> IF fires THEN "firing" ELSE "pending", count |-> row.count + 1],
        event |-> IF fires THEN "firing" ELSE "none"]

\* Mutant: the polls are counted while the state stays what it was
OutcomeUncertain(set, breached, row) ==
  LET out == Judge(breached, row, row.count + 1 >= set.polls, FALSE)
  IN IF out.row.state = "pending" THEN [out EXCEPT !.row.state = row.state] ELSE out
\* Mutant: one poll more than sustained_polls is waited for
OutcomeLate(set, breached, row) ==
  Judge(breached, row, row.count >= set.polls, row.state = "firing" /\ set.recovery)
\* Mutant: the end of every breach is told, also of one that never fired
OutcomeTalkative(set, breached, row) ==
  Judge(breached, row, row.count + 1 >= set.polls, set.recovery)

Outcome(set, breached, row) ==
  Judge(breached, row, row.count + 1 >= set.polls, row.state = "firing" /\ set.recovery)

\* Mutant: only a pending count is reset
WritesPending(breached, row) == breached \/ row.state = "pending"

\* An ok state without a count is left alone, whether it has a row or not
Writes(breached, row) ==
  breached \/ row.state \in {"firing", "pending"} \/ row.count # 0

------------------------------------------------------------------------------
(* The history.  streak: the polls in a row that breached the threshold;    *)
(* known: the state was reset, or a poll did not breach it, before them;   *)
(* told: the latest event, when the state is known to agree with it, or    *)
(* "twice", when an event repeated the one before.  A check that ran alone *)
(* counts; one that met another check, an edit or a restart makes what is  *)
(* known of its rule unknown.                                              *)
Fresh == [streak |-> 0, known |-> TRUE, told |-> "resolved"]
Unseen == [streak |-> 0, known |-> FALSE, told |-> "unknown"]

OneMore(streak) == IF streak < MaxPolls THEN streak + 1 ELSE streak

Severities(set) == {s \in Severity : set[s] # None}
NoEvents == [s \in Severity |-> "none"]

Told(told, event, recovery) ==
  CASE told = "twice" \/ (event # "none" /\ event = told) -> "twice"
    [] event = "none" -> IF recovery THEN told ELSE "unknown"
    [] OTHER -> event

\* What is known after a poll that changed an alert as it should
Polled(old, breached, event, recovery) ==
  [streak |-> IF breached THEN OneMore(old.streak) ELSE 0,
   known  |-> old.known \/ ~breached,
   told   |-> Told(old.told, event, recovery)]

\* and after a check c of its rule has ended
SeenAfter(c) ==
  [seen EXCEPT ![c.rule] = [s \in Severity |->
    IF ~c.alone THEN Unseen
    ELSE IF s \notin Severities(c.set) THEN seen[c.rule][s]
    ELSE Polled(seen[c.rule][s], Breached(c.set, c.value, s), c.events[s], c.set.recovery)]]

------------------------------------------------------------------------------
Idle == [pc |-> "idle", value |-> 0, rule |-> 0, set |-> CHOOSE set \in Settings : TRUE,
         severity |-> "warning", row |-> NoRow, found |-> FALSE, alone |-> TRUE,
         events |-> NoEvents]
Running == {i \in Slot : check[i].pc # "idle"}

\* The checks under way have met another check, an edit or a restart, and what is
\* known of their rules is given up
Met == [i \in Slot |-> IF i \in Running
                       THEN [check[i] EXCEPT !.alone = FALSE, !.events = NoEvents]
                       ELSE check[i]]
SeenOfMet == [r \in Rule |-> IF \E i \in Running : check[i].rule = r
                             THEN [s \in Severity |-> Unseen] ELSE seen[r]]

\* A check ends: after its last severity, or where a statement fails
End(i, c) ==
  /\ check' = [check EXCEPT ![i] = Idle]
  /\ seen' = IF c.rule \in DOMAIN rules THEN SeenAfter(c) ELSE seen

\* After a severity comes the critical one, if it has a threshold
NextSeverity(i, c) ==
  IF c.severity = "warning" /\ c.set.critical # None
  THEN /\ check' = [check EXCEPT ![i] = [c EXCEPT !.pc = "get", !.severity = "critical",
                                                  !.row = NoRow, !.found = FALSE]]
       /\ UNCHANGED seen
  ELSE End(i, c)

Environment == UNCHANGED <<value, rules, assigned, disturbed>>

\* A fresh answer of Proxmox starts a check of what it says
Poll(i) ==
  /\ check[i].pc = "idle"
  /\ check' = [Met EXCEPT ![i] =
       [Idle EXCEPT !.pc = "rules", !.value = value, !.alone = Running = {}]]
  /\ seen' = SeenOfMet
  /\ Environment /\ UNCHANGED rows

\* The effective rule is read; without one, or without a threshold, nothing is checked
ReadRules(i) ==
  /\ check[i].pc = "rules"
  /\ IF \A r \in Effective : Severities(rules[r]) = {}
     THEN check' = [check EXCEPT ![i] = Idle]
     ELSE \E r \in Effective :
            /\ Severities(rules[r]) # {}
            /\ check' = [check EXCEPT ![i].pc = "get", ![i].rule = r, ![i].set = rules[r],
                 ![i].severity = IF rules[r].warning # None THEN "warning" ELSE "critical"]
  /\ Environment /\ UNCHANGED <<rows, seen>>

\* _get_state, and what follows without an await: is there something to write?
GetState(i) ==
  LET c == check[i]
      row == rows[c.rule][c.severity]
  IN /\ c.pc = "get"
     /\ IF Writes(Breached(c.set, c.value, c.severity), row)
        THEN /\ check' = [check EXCEPT ![i].pc = "look", ![i].row = row]
             /\ UNCHANGED seen
        ELSE NextSeverity(i, c)
     /\ Environment /\ UNCHANGED rows

\* _upsert_state asks whether there is a row
Look(i) ==
  /\ check[i].pc = "look"
  /\ check' = [check EXCEPT ![i].pc = "put",
                 ![i].found = rows[check[i].rule][check[i].severity] # NoRow]
  /\ Environment /\ UNCHANGED <<rows, seen>>

\* Mutant: another check may have written in between, so that the row is left as it is
PutUnlessChanged(i) ==
  LET c == check[i]
      out == Outcome(c.set, Breached(c.set, c.value, c.severity), c.row)
  IN /\ c.pc = "put"
     /\ rows' = IF Running = {i} THEN [rows EXCEPT ![c.rule][c.severity] = out.row] ELSE rows
     /\ IF Running = {i} /\ out.event # "none"
        THEN /\ check' = [check EXCEPT ![i].pc = "event", ![i].row = NoRow,
                            ![i].found = FALSE, ![i].events[c.severity] = out.event]
             /\ UNCHANGED seen
        ELSE NextSeverity(i, c)
     /\ Environment

\* and updates or inserts it.  A row that is gone by now is not updated; a row that is
\* there by now, or a rule that is gone, makes the insertion fail and ends the check.
Put(i) ==
  LET c == check[i]
      out == Outcome(c.set, Breached(c.set, c.value, c.severity), c.row)
      there == rows[c.rule][c.severity] # NoRow
      fails == ~c.found /\ (there \/ c.rule \notin DOMAIN rules)
  IN /\ c.pc = "put"
     /\ rows' = IF c.found = there /\ ~fails
                THEN [rows EXCEPT ![c.rule][c.severity] = out.row] ELSE rows
     /\ IF fails THEN End(i, [c EXCEPT !.alone = FALSE])
        ELSE IF out.event # "none"
        THEN /\ check' = [check EXCEPT ![i].pc = "event",
                            ![i].row = NoRow, ![i].found = FALSE,
                            ![i].events[c.severity] = IF c.alone THEN out.event
                                                       ELSE "none"]
             /\ UNCHANGED seen
        ELSE NextSeverity(i, c)
     /\ Environment

\* _record_event, and the notification is under way; the event refers to the rule
RecordEvent(i) ==
  /\ check[i].pc = "event"
  /\ IF check[i].rule \in DOMAIN rules THEN NextSeverity(i, check[i])
     ELSE End(i, check[i])
  /\ Environment /\ UNCHANGED rows

------------------------------------------------------------------------------
(* Edits of the rules and of the assignment of the preset, one transaction  *)
(* each.  A check that is running at the time has met it.                   *)
Edit ==
  /\ disturbed < MaxDisturbed /\ disturbed' = disturbed + 1
  /\ check' = Met
  /\ UNCHANGED value

\* SQLite gives the id after the largest one, which may have been used before
CreateRule ==
  \E set \in Settings : \E r \in Rule \ DOMAIN rules :
    /\ \A q \in Rule : q \in DOMAIN rules => q < r
    /\ r = 1 \/ r - 1 \in DOMAIN rules
    /\ rules' = [q \in DOMAIN rules \cup {r} |-> IF q = r THEN set ELSE rules[q]]
    /\ seen' = [SeenOfMet EXCEPT ![r] = [s \in Severity |-> Fresh]]
    /\ Edit /\ UNCHANGED <<assigned, rows>>

\* The states of the rule stay as they are
UpdateRule ==
  \E r \in DOMAIN rules : \E set \in Settings :
    /\ set # rules[r] /\ set.scope = rules[r].scope
    /\ rules' = [rules EXCEPT ![r] = set]
    /\ seen' = [SeenOfMet EXCEPT ![r] =
         [s \in Severity |-> [Unseen EXCEPT !.told = SeenOfMet[r][s].told]]]
    /\ Edit /\ UNCHANGED <<assigned, rows>>

\* alert_states.rule_id is ON DELETE CASCADE.  Saving the rules of a preset deletes
\* them and creates them again.
DeleteRule ==
  \E r \in DOMAIN rules :
    /\ rules' = [q \in DOMAIN rules \ {r} |-> rules[q]]
    /\ rows' = [rows EXCEPT ![r] = [s \in Severity |-> NoRow]]
    /\ seen' = [SeenOfMet EXCEPT ![r] = [s \in Severity |-> Fresh]]
    /\ Edit /\ UNCHANGED assigned

\* assign_preset and remove_assignment delete the states of the VM, those of all rules;
\* the removal does that even when there was no assignment.
Assign(yes) ==
  /\ assigned' = yes
  /\ rows' = [r \in Rule |-> [s \in Severity |-> NoRow]]
  /\ seen' = [r \in Rule |-> [s \in Severity |->
       [Fresh EXCEPT !.told = IF SeenOfMet[r][s].told = "resolved" THEN "resolved"
                              ELSE "unknown"]]]
  /\ Edit /\ UNCHANGED rules
AssignPreset == Assign(TRUE)
RemoveAssignment == Assign(FALSE)

Measure == /\ value' \in Value \ {value}
           /\ UNCHANGED <<rules, assigned, rows, check, disturbed, seen>>

\* The checks under way are lost, the database stays
Restart ==
  /\ disturbed < MaxDisturbed /\ disturbed' = disturbed + 1
  /\ check' = [i \in Slot |-> Idle]
  /\ seen' = SeenOfMet
  /\ UNCHANGED <<value, rules, assigned, rows>>

Init ==
  /\ value = 0 /\ rules \in InitialRules /\ assigned \in BOOLEAN
  /\ rows = [r \in Rule |-> [s \in Severity |-> NoRow]]
  /\ check = [i \in Slot |-> Idle] /\ disturbed = 0
  /\ seen = [r \in Rule |-> [s \in Severity |-> Fresh]]

CheckStep(i) == \/ ReadRules(i) \/ GetState(i) \/ Look(i) \/ Put(i) \/ RecordEvent(i)

Next ==
  \/ \E i \in Slot : Poll(i) \/ CheckStep(i)
  \/ CreateRule \/ UpdateRule \/ DeleteRule \/ AssignPreset \/ RemoveAssignment
  \/ Measure \/ Restart

Fairness ==
  /\ WF_vars(\E i \in Slot : Poll(i))
  /\ \A i \in Slot : WF_vars(CheckStep(i))

Spec == Init /\ [][Next]_vars
FairSpec == Spec /\ Fairness

------------------------------------------------------------------------------
\* Rules, rows and checks have the fields and values the tables and the code allow.
TypeOK ==
  /\ value \in Value /\ assigned \in BOOLEAN
  /\ DOMAIN rules \subseteq Rule /\ \A r \in DOMAIN rules : rules[r] \in Settings
  /\ rows \in [Rule -> [Severity -> Row]]
  /\ \A i \in Slot : /\ check[i].pc \in {"idle", "rules", "get", "look", "put", "event"}
                     /\ check[i].row \in Row /\ check[i].set \in Settings
  /\ disturbed \in 0 .. MaxDisturbed

Quiet == Running = {}

\* The states recover by themselves: when no check runs, an alert fires if the last
\* polls, as many as sustained_polls asks for, breached its threshold, whatever
\* overlapping checks, edits or a restart did to its state before; and since a poll
\* that did not breach it, it fires only then (alert_check_service.py:303-390).
StateFollowsPolls ==
  Quiet => \A r \in DOMAIN rules : \A s \in Severities(rules[r]) :
             /\ seen[r][s].streak >= rules[r].polls => Firing(r, s)
             /\ seen[r][s].known /\ seen[r][s].streak < rules[r].polls => ~Firing(r, s)

\* Of checks that met nothing else, each change of an alert is told once: no event
\* repeats the one before, and the latest says what the state says.
ToldOnce ==
  Quiet => \A r \in DOMAIN rules : \A s \in Severity :
             /\ seen[r][s].told # "twice"
             /\ seen[r][s].told = "firing" => Firing(r, s)
             /\ seen[r][s].told = "resolved" => ~Firing(r, s)

\* Checks may overlap all the time, and lose each other's writes: an alert whose rule
\* applies still ends up firing, and stays so, when its threshold stays breached ...
Breaching(r, s) == r \in Effective /\ Breached(rules[r], value, s)
StaysBreachedFires ==
  \A r \in Rule : \A s \in Severity : <>[]Breaching(r, s) => <>[]Firing(r, s)

\* ... and ends when it stays below.
Calm(r, s) == r \in Effective /\ s \in Severities(rules[r])
              /\ ~Breached(rules[r], value, s)
StaysCalmClears ==
  \A r \in Rule : \A s \in Severity : <>[]Calm(r, s) => <>[]~Firing(r, s)

==============================================================================
