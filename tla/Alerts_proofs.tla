---------------------------- MODULE Alerts_proofs ----------------------------
(***************************************************************************)
(* StateFollowsPolls and ToldOnce for any number of checks, rules, polls   *)
(* and edits.  The invariant says what a state row, the number of polls    *)
(* asked for and the history have to do with each other (Agrees): for      *)
(* every rule that no check is working on, and, in the middle of a check   *)
(* that runs alone, already with its own poll for the severities it has    *)
(* done and still without it for the others.                               *)
(***************************************************************************)
EXTENDS Alerts, TLAPS

Event == {"none", "firing", "resolved"}
Seen == [streak : Nat, known : BOOLEAN, told : {"unknown", "firing", "resolved", "twice"}]
Check == [pc : {"idle", "rules", "get", "look", "put", "event"}, value : Value,
          rule : Rule \cup {0}, set : Settings, severity : Severity, row : Row,
          found : BOOLEAN, alone : BOOLEAN, events : [Severity -> Event]]

Types ==
  /\ value \in Value /\ assigned \in BOOLEAN /\ disturbed \in 0 .. MaxDisturbed
  /\ DOMAIN rules \subseteq Rule /\ \A r \in DOMAIN rules : rules[r] \in Settings
  /\ rows \in [Rule -> [Severity -> Row]]
  /\ seen \in [Rule -> [Severity -> Seen]]
  /\ check \in [Slot -> Check]

\* A row that is ok has no count, and a rule that is gone has no row.
Sane(row) == row.state = "ok" => row.count = 0
RowsSane == /\ \A r \in Rule : \A s \in Severity : Sane(rows[r][s])
            /\ \A r \in Rule \ DOMAIN rules : \A s \in Severity : rows[r][s] = NoRow

\* The state of an alert agrees with what the polls have shown and with what was told.
Agrees(row, h, polls) ==
  /\ h.streak >= polls => row.state = "firing"
  /\ row.state # "firing" => row.count >= h.streak
  /\ h.known /\ row.state # "firing" => row.count = h.streak
  /\ h.known /\ row.state = "firing" => h.streak >= polls
  /\ h.told # "twice"
  /\ h.told = "firing" => row.state = "firing"
  /\ h.told = "resolved" => row.state # "firing"

\* A check that has read its rule, and the severities it has done with.
Mid(c) == c.pc \in {"get", "look", "put", "event"}
Done(c) == {s \in Severities(c.set) : \/ s = "warning" /\ c.severity = "critical"
                                      \/ s = c.severity /\ c.pc = "event"}

OneAlone == \A i, j \in Slot : check[i].alone /\ check[i].pc # "idle" /\ check[j].pc # "idle"
                                 => i = j

CheckShape(c) ==
  /\ c.pc = "rules" => c.events = NoEvents
  /\ Mid(c) => c.rule \in Rule /\ c.severity \in Severities(c.set)

Resting ==
  \A r \in DOMAIN rules : (\A i \in Slot : Mid(check[i]) => check[i].rule # r)
    => \A s \in Severity : Agrees(rows[r][s], seen[r][s], rules[r].polls)

\* What is known of severity s when the severities in done have been worked on.
Known(c, s, done) ==
  IF s \in done
  THEN Polled(seen[c.rule][s], Breached(c.set, c.value, s), c.events[s], c.set.recovery)
  ELSE seen[c.rule][s]
Course(c) ==
  Mid(c) /\ c.alone =>
    /\ c.rule \in DOMAIN rules /\ c.set = rules[c.rule]
    /\ \A s \in Severity : Agrees(rows[c.rule][s], Known(c, s, Done(c)), c.set.polls)
    /\ \A s \in Severity : s \notin Done(c) => c.events[s] = "none"
    /\ c.pc \in {"look", "put"} => c.row = rows[c.rule][c.severity]
    /\ c.pc = "put" => c.found = (c.row # NoRow)

AlertsInv ==
  /\ Types /\ RowsSane /\ OneAlone /\ Resting
  /\ \A i \in Slot : CheckShape(check[i]) /\ Course(check[i])

------------------------------------------------------------------------------
\* What the settings of a rule are.
LEMMA SettingFields ==
  ASSUME NEW set \in Settings
  PROVE  /\ set.polls \in Nat /\ set.polls >= 1 /\ set.polls <= MaxPolls /\ MaxPolls \in Nat
         /\ set.recovery \in BOOLEAN
         /\ \A s \in Severity : set[s] \in 0 .. 2
<1>1. set \in Setting /\ MaxPolls \in Nat
  BY SettingsAssumption, BoundsAssumption
<1>2. set.polls \in 1 .. MaxPolls /\ set.recovery \in BOOLEAN
      /\ set.warning \in 0 .. 2 /\ set.critical \in 0 .. 2
  BY <1>1 DEF Setting
<1> QED
  BY <1>1, <1>2 DEF Severity

\* A row is one of the table or none.
LEMMA RowFields ==
  ASSUME NEW row \in Row
  PROVE  row.count \in Nat /\ row.state \in {"ok", "pending", "firing", "none"}
         /\ (row.state = "none" => row.count = 0)
  BY DEF Row, NoRow

\* The row a check writes is one of the table.
LEMMA OutcomeRow ==
  ASSUME NEW row \in Row, NEW set \in Settings, NEW b \in BOOLEAN
  PROVE  LET out == Outcome(set, b, row)
         IN out.row \in Row /\ out.row # NoRow /\ Sane(out.row) /\ out.event \in Event
<1> DEFINE out == Outcome(set, b, row)
<1>1. row.count \in Nat /\ row.state \in {"ok", "pending", "firing", "none"}
      /\ row.count + 1 \in Nat
  BY RowFields
<1>2. CASE ~b
  <2>1. out.row = [state |-> "ok", count |-> 0] /\ out.event \in Event
    BY <1>2 DEF Outcome, Judge, Event
  <2> QED
    BY <2>1 DEF Row, NoRow, Sane
<1>3. CASE b /\ row.state = "firing"
  <2>1. out.row = row /\ out.event = "none"
    BY <1>3 DEF Outcome, Judge
  <2>2. row # NoRow /\ Sane(row)
    BY <1>3 DEF NoRow, Sane
  <2> QED
    BY <2>1, <2>2 DEF Event
<1>4. CASE b /\ row.state # "firing"
  <2>1. \E st \in {"firing", "pending"} : out.row = [state |-> st, count |-> row.count + 1]
    BY <1>4 DEF Outcome, Judge
  <2>2. out.event \in Event
    BY <1>4 DEF Outcome, Judge, Event
  <2> QED
    BY <1>1, <2>1, <2>2 DEF Row, NoRow, Sane
<1> QED
  BY <1>2, <1>3, <1>4

\* An alert that agrees with the polls still does after one more (alert_check_service.py:326-390).
LEMMA OutcomeAgrees ==
  ASSUME NEW row \in Row, NEW set \in Settings, NEW b \in BOOLEAN, NEW h \in Seen,
         Agrees(row, h, set.polls)
  PROVE  LET out == Outcome(set, b, row)
         IN Agrees(out.row, Polled(h, b, out.event, set.recovery), set.polls)
<1> SUFFICES ASSUME NEW out, out = Outcome(set, b, row),
                    NEW new, new = Polled(h, b, out.event, set.recovery)
             PROVE  Agrees(out.row, new, set.polls)
  OBVIOUS
<1>1. row.count \in Nat /\ row.state \in {"ok", "pending", "firing", "none"}
  BY RowFields
<1>2. set.polls \in Nat /\ set.polls >= 1 /\ set.polls <= MaxPolls /\ MaxPolls \in Nat
      /\ set.recovery \in BOOLEAN
  BY SettingFields
<1>3. h.streak \in Nat /\ h.known \in BOOLEAN
      /\ h.told \in {"unknown", "firing", "resolved", "twice"}
  BY DEF Seen
<1>4. new.streak = (IF b THEN OneMore(h.streak) ELSE 0) /\ new.known = (h.known \/ ~b)
      /\ new.told = Told(h.told, out.event, set.recovery)
  BY DEF Polled
<1>a. /\ h.streak >= set.polls => row.state = "firing"
      /\ row.state # "firing" => row.count >= h.streak
      /\ h.known /\ row.state # "firing" => row.count = h.streak
      /\ h.known /\ row.state = "firing" => h.streak >= set.polls
  BY DEF Agrees
<1>5. CASE ~b
  <2>1. out.row = [state |-> "ok", count |-> 0]
        /\ out.event = IF row.state = "firing" /\ set.recovery THEN "resolved" ELSE "none"
    BY <1>5 DEF Outcome, Judge
  <2>2. new.told \in {"resolved", "unknown"}
    <3>1. CASE row.state = "firing"
      BY <1>2, <1>3, <1>4, <2>1, <3>1 DEF Agrees, Told
    <3>2. CASE row.state # "firing"
      BY <1>2, <1>3, <1>4, <2>1, <3>2 DEF Agrees, Told
    <3> QED
      BY <3>1, <3>2
  <2> QED
    BY <1>2, <1>4, <1>5, <2>1, <2>2 DEF Agrees
<1>6. CASE b /\ row.state = "firing"
  <2>1. out.row = row /\ out.event = "none"
    BY <1>6 DEF Outcome, Judge
  <2>2. new.told \in {"firing", "unknown"}
    BY <1>2, <1>3, <1>4, <1>6, <2>1 DEF Agrees, Told
  <2>3. new.streak = OneMore(h.streak) /\ (new.known => h.known)
    BY <1>3, <1>4, <1>6
  <2>b. row.state = "firing"
    BY <1>6
  <2>4. out.row.state = "firing"
    BY <2>b, <2>1
  <2>5. new.known => new.streak >= set.polls
    BY <1>1, <1>2, <1>3, <1>a, <2>b, <2>3 DEF OneMore
  <2> QED
    BY <2>2, <2>4, <2>5 DEF Agrees
<1>7. CASE b /\ row.state # "firing" /\ row.count + 1 >= set.polls
  <2>1. out.row = [state |-> "firing", count |-> row.count + 1] /\ out.event = "firing"
    BY <1>7 DEF Outcome, Judge
  <2>2. new.told = "firing"
    BY <1>3, <1>4, <1>7, <2>1 DEF Agrees, Told
  <2>3. new.streak = OneMore(h.streak) /\ (new.known => h.known)
    BY <1>3, <1>4, <1>7
  <2>b. row.state # "firing" /\ row.count + 1 >= set.polls
    BY <1>7
  <2>4. out.row.state = "firing"
    BY <2>b, <2>1
  <2>5. new.known => new.streak >= set.polls
    BY <1>1, <1>2, <1>3, <1>a, <2>b, <2>3 DEF OneMore
  <2> QED
    BY <2>2, <2>4, <2>5 DEF Agrees
<1>8. CASE b /\ row.state # "firing" /\ ~(row.count + 1 >= set.polls)
  <2>1. out.row = [state |-> "pending", count |-> row.count + 1] /\ out.event = "none"
    BY <1>8 DEF Outcome, Judge
  <2>2. new.told \in {"resolved", "unknown"}
    BY <1>2, <1>3, <1>4, <1>8, <2>1 DEF Agrees, Told
  <2>3. new.streak = OneMore(h.streak) /\ (new.known => h.known)
    BY <1>3, <1>4, <1>8
  <2>b. row.state # "firing" /\ ~(row.count + 1 >= set.polls)
    BY <1>8
  <2>4. out.row.state = "pending" /\ out.row.count = row.count + 1
    BY <2>1
  <2>5. /\ new.streak <= row.count + 1 /\ new.streak < set.polls
        /\ new.known => new.streak = row.count + 1
    BY <1>1, <1>2, <1>3, <1>a, <2>b, <2>3 DEF OneMore
  <2>6. new.streak \in Nat
    BY <1>3, <2>3 DEF OneMore
  <2> QED
    BY <1>1, <1>2, <2>2, <2>4, <2>5, <2>6 DEF Agrees
<1> QED
  BY <1>5, <1>6, <1>7, <1>8

\* So it does where there is nothing to write.
LEMMA SkipAgrees ==
  ASSUME NEW row \in Row, NEW set \in Settings, NEW b \in BOOLEAN, NEW h \in Seen,
         Agrees(row, h, set.polls), ~Writes(b, row)
  PROVE  Agrees(row, Polled(h, b, "none", set.recovery), set.polls)
<1> SUFFICES ASSUME NEW new, new = Polled(h, b, "none", set.recovery)
             PROVE  Agrees(row, new, set.polls)
  OBVIOUS
<1>1. ~b /\ row.state # "firing" /\ row.count = 0
  BY RowFields DEF Writes
<1>2. set.polls \in Nat /\ set.polls >= 1 /\ set.recovery \in BOOLEAN
  BY SettingFields
<1>3. new.streak = 0 /\ new.told = Told(h.told, "none", set.recovery)
  BY <1>1 DEF Polled
<1>4. new.told \in {"resolved", "unknown"}
  BY <1>1, <1>2, <1>3 DEF Agrees, Told, Seen
<1> QED
  BY <1>1, <1>2, <1>3, <1>4 DEF Agrees

\* What is known stays within its type.
LEMMA PolledSeen ==
  ASSUME NEW h \in Seen, NEW b \in BOOLEAN, NEW e \in Event, NEW rec \in BOOLEAN
  PROVE  Polled(h, b, e, rec) \in Seen
<1>1. OneMore(h.streak) \in Nat
  BY DEF Seen, OneMore
<1>2. Told(h.told, e, rec) \in {"unknown", "firing", "resolved", "twice"}
  BY DEF Seen, Event, Told
<1> QED
  BY <1>1, <1>2 DEF Polled, Seen

\* Nothing known agrees with every row, and a fresh state with a row that is not there.
LEMMA NothingKnown ==
  ASSUME NEW row \in Row, NEW set \in Settings
  PROVE  Agrees(row, Unseen, set.polls) /\ Unseen \in Seen /\ Fresh \in Seen
         /\ Agrees(NoRow, Fresh, set.polls)
  BY RowFields, SettingFields DEF Agrees, Unseen, Fresh, Seen, NoRow

------------------------------------------------------------------------------
\* A check that is not running, and what the initial state knows.
LEMMA IdleCheck == Idle \in Check /\ Idle.pc = "idle" /\ NoEvents \in [Severity -> Event]
<1>1. (CHOOSE set \in Settings : TRUE) \in Settings
  BY SettingsAssumption
<1>2. NoRow \in Row /\ 0 \in Value /\ NoEvents \in [Severity -> Event]
  BY ValueAssumption DEF Row, NoEvents, Event
<1> QED
  BY <1>1, <1>2 DEF Idle, Check, Severity

\* The invariant holds at first.
LEMMA InitInv == Init => AlertsInv
<1> SUFFICES ASSUME Init PROVE AlertsInv
  OBVIOUS
<1>1. DOMAIN rules \subseteq Rule /\ \A r \in DOMAIN rules : rules[r] \in Settings
  BY InitialRulesAssumption DEF Init
<1>2. NoRow \in Row
  BY DEF Row
<1>3. \A set \in Settings : Agrees(NoRow, Fresh, set.polls) /\ Fresh \in Seen
  BY <1>2, NothingKnown
<1>4. Fresh \in Seen
  BY <1>3, SettingsAssumption
<1>5. \A i \in Slot : check[i] = Idle
  BY DEF Init
<1>6. Types
  BY <1>1, <1>2, <1>4, IdleCheck, ValueAssumption, BoundsAssumption DEF Init, Types
<1>7. RowsSane
  BY DEF Init, RowsSane, Sane, NoRow
<1>8. OneAlone
  BY <1>5, IdleCheck DEF OneAlone
<1>9. Resting
  BY <1>1, <1>3 DEF Init, Resting
<1>10. \A i \in Slot : CheckShape(check[i]) /\ Course(check[i])
  BY <1>5, IdleCheck DEF CheckShape, Course, Mid
<1> QED
  BY <1>6, <1>7, <1>8, <1>9, <1>10 DEF AlertsInv

\* What a step of a check of rule r may do to the rows.
RowsChange(r) ==
  /\ rows' \in [Rule -> [Severity -> Row]]
  /\ RowsSane'
  /\ \A q \in Rule : q # r => rows'[q] = rows[q]

\* A step that leaves the rows and the rules does no more than that.
LEMMA RowsSame == ASSUME AlertsInv, UNCHANGED <<rows, rules>>, NEW r PROVE RowsChange(r)
  BY DEF AlertsInv, Types, RowsSane, RowsChange

\* Only a check that runs alone keeps another from being so.
LEMMA OthersNotAlone ==
  ASSUME OneAlone, NEW i \in Slot, NEW j \in Slot, i # j, check[i].pc # "idle",
         check[j].pc # "idle"
  PROVE  ~check[j].alone
  BY DEF OneAlone

\* The end of a check, of one that ran alone after all its severities, leaves its rule
\* in agreement with what is known then.
LEMMA EndKeeps ==
  ASSUME AlertsInv, Environment, NEW i \in Slot, NEW c \in Check, Mid(check[i]),
         c.rule = check[i].rule, c.rule \in Rule, RowsChange(c.rule), End(i, c),
         c.alone => /\ c.rule \in DOMAIN rules /\ c.set = rules[c.rule]
                    /\ \A s \in Severity :
                         Agrees(rows'[c.rule][s], Known(c, s, Severities(c.set)), c.set.polls)
  PROVE  AlertsInv'
<1>1. Types /\ OneAlone /\ Resting /\ \A j \in Slot : CheckShape(check[j]) /\ Course(check[j])
  BY DEF AlertsInv
<1>2. check' = [check EXCEPT ![i] = Idle]
      /\ seen' = (IF c.rule \in DOMAIN rules THEN SeenAfter(c) ELSE seen)
  BY DEF End
<1>3. check'[i] = Idle /\ \A j \in Slot : j # i => check'[j] = check[j]
  BY <1>1, <1>2 DEF Types
<1>4. rules' = rules /\ value' = value /\ assigned' = assigned /\ disturbed' = disturbed
  BY DEF Environment
<1>5. c.set \in Settings /\ c.alone \in BOOLEAN /\ c.events \in [Severity -> Event]
  BY DEF Check
<1>6. ASSUME c.rule \in DOMAIN rules
      PROVE  /\ seen' \in [Rule -> [Severity -> Seen]]
             /\ \A q \in Rule : q # c.rule => seen'[q] = seen[q]
             /\ \A s \in Severity : seen'[c.rule][s] =
                  IF c.alone THEN Known(c, s, Severities(c.set)) ELSE Unseen
  <2>1. seen' = SeenAfter(c) /\ seen \in [Rule -> [Severity -> Seen]]
    BY <1>1, <1>2, <1>6 DEF Types
  <2>2. ASSUME NEW s \in Severity
        PROVE  /\ seen'[c.rule][s] = IF c.alone THEN Known(c, s, Severities(c.set)) ELSE Unseen
               /\ seen'[c.rule][s] \in Seen
    <3>1. seen'[c.rule][s] = IF ~c.alone THEN Unseen
                             ELSE IF s \notin Severities(c.set) THEN seen[c.rule][s]
                             ELSE Polled(seen[c.rule][s], Breached(c.set, c.value, s),
                                         c.events[s], c.set.recovery)
      BY <2>1 DEF SeenAfter
    <3>2. Unseen \in Seen
      BY DEF Unseen, Seen
    <3>3. seen[c.rule][s] \in Seen /\ c.set.recovery \in BOOLEAN /\ c.events[s] \in Event
      BY <1>5, <2>1, SettingFields
    <3>4. Breached(c.set, c.value, s) \in BOOLEAN
      BY DEF Breached
    <3>5. Polled(seen[c.rule][s], Breached(c.set, c.value, s), c.events[s], c.set.recovery)
            \in Seen
      BY <3>3, <3>4, PolledSeen
    <3>6. seen'[c.rule][s] \in Seen
      BY <3>1, <3>2, <3>3, <3>5
    <3>7. seen'[c.rule][s] = IF c.alone THEN Known(c, s, Severities(c.set)) ELSE Unseen
      BY <3>1 DEF Known
    <3> QED
      BY <3>6, <3>7
  <2>3. \A q \in Rule : q # c.rule => seen'[q] = seen[q]
    BY <2>1 DEF SeenAfter
  <2>4. seen'[c.rule] \in [Severity -> Seen]
    <3> DEFINE new == seen'[c.rule]
    <3>1. \A s \in Severity : new[s] \in Seen
      BY <2>2
    <3>2. \E f : new = [s \in Severity |-> f[s]]
      <4>1. new = [s \in Severity |->
              IF ~c.alone THEN Unseen
              ELSE IF s \notin Severities(c.set) THEN seen[c.rule][s]
              ELSE Polled(seen[c.rule][s], Breached(c.set, c.value, s), c.events[s],
                          c.set.recovery)]
        BY <2>1 DEF SeenAfter
      <4> QED
        BY <4>1
    <3> QED
      BY <3>1, <3>2
  <2>5. seen' \in [Rule -> [Severity -> Seen]]
    BY <2>1, <2>4 DEF SeenAfter
  <2> QED
    BY <2>2, <2>3, <2>5
<1>7. seen' \in [Rule -> [Severity -> Seen]]
      /\ \A q \in Rule : q # c.rule => seen'[q] = seen[q]
  BY <1>1, <1>2, <1>6 DEF Types
<1>8. Types'
  BY <1>1, <1>2, <1>4, <1>7, IdleCheck DEF Types, RowsChange
<1>9. RowsSane'
  BY DEF RowsChange
<1>10. OneAlone'
  BY <1>1, <1>3, IdleCheck DEF OneAlone
<1>11. Resting'
  <2> SUFFICES ASSUME NEW r \in DOMAIN rules, NEW s \in Severity,
                      \A j \in Slot : Mid(check'[j]) => check'[j].rule # r
               PROVE  Agrees(rows'[r][s], seen'[r][s], rules[r].polls)
    BY <1>4 DEF Resting
  <2>1. r \in Rule /\ rules[r] \in Settings /\ rows'[r][s] \in Row
    BY <1>1 DEF Types, RowsChange
  <2>2. CASE r = c.rule
    <3>1. CASE c.alone
      BY <1>6, <2>2, <3>1
    <3>2. CASE ~c.alone
      BY <1>6, <2>1, <2>2, <3>2, NothingKnown
    <3> QED
      BY <3>1, <3>2
  <2>3. CASE r # c.rule
    <3>1. \A j \in Slot : Mid(check[j]) => check[j].rule # r
      BY <1>3, <2>3
    <3> QED
      BY <1>1, <1>7, <2>1, <2>3, <3>1 DEF Resting, RowsChange
  <2> QED
    BY <2>2, <2>3
<1>12. \A j \in Slot : CheckShape(check[j])' /\ Course(check[j])'
  <2> SUFFICES ASSUME NEW j \in Slot PROVE CheckShape(check[j])' /\ Course(check[j])'
    OBVIOUS
  <2>1. CASE j = i
    BY <1>3, <2>1, IdleCheck DEF CheckShape, Course, Mid
  <2>2. CASE j # i
    <3>1. CheckShape(check[j])' /\ check'[j] = check[j]
      BY <1>1, <1>3, <2>2 DEF CheckShape, Mid
    <3>2. ~(Mid(check[j]) /\ check[j].alone)
      BY <1>1, <2>2, OthersNotAlone DEF Mid
    <3> QED
      BY <3>1, <3>2 DEF Course, Mid
  <2> QED
    BY <2>1, <2>2
<1> QED
  BY <1>8, <1>9, <1>10, <1>11, <1>12 DEF AlertsInv

\* A check that goes on keeps its rule; what it owes is said of the rows after the step.
LEMMA MoveKeeps ==
  ASSUME AlertsInv, Environment, NEW i \in Slot, NEW d \in Check, check[i].pc # "idle",
         check' = [check EXCEPT ![i] = d], seen' = seen, RowsChange(d.rule),
         Mid(check[i]) => check[i].rule = d.rule,
         Mid(d), d.rule \in Rule, d.severity \in Severities(d.set), d.alone = check[i].alone,
         d.alone =>
           /\ d.rule \in DOMAIN rules /\ d.set = rules[d.rule]
           /\ \A s \in Severity : Agrees(rows'[d.rule][s], Known(d, s, Done(d)), d.set.polls)
           /\ \A s \in Severity : s \notin Done(d) => d.events[s] = "none"
           /\ d.pc \in {"look", "put"} => d.row = rows'[d.rule][d.severity]
           /\ d.pc = "put" => d.found = (d.row # NoRow)
  PROVE  AlertsInv'
<1>1. Types /\ OneAlone /\ Resting /\ \A j \in Slot : CheckShape(check[j]) /\ Course(check[j])
  BY DEF AlertsInv
<1>2. check'[i] = d /\ \A j \in Slot : j # i => check'[j] = check[j]
  BY <1>1 DEF Types
<1>3. rules' = rules /\ value' = value /\ assigned' = assigned /\ disturbed' = disturbed
  BY DEF Environment
<1>4. Types'
  BY <1>1, <1>3 DEF Types, RowsChange
<1>5. RowsSane'
  BY DEF RowsChange
<1>6. OneAlone'
  <2>1. \A j \in Slot : check'[j].alone = check[j].alone
                        /\ (check'[j].pc = "idle" <=> check[j].pc = "idle")
    BY <1>2 DEF Mid
  <2> QED
    BY <1>1, <2>1 DEF OneAlone
<1>7. Resting'
  <2> SUFFICES ASSUME NEW r \in DOMAIN rules, NEW s \in Severity,
                      \A j \in Slot : Mid(check'[j]) => check'[j].rule # r
               PROVE  Agrees(rows'[r][s], seen'[r][s], rules[r].polls)
    BY <1>3 DEF Resting
  <2>1. r # d.rule /\ r \in Rule
    BY <1>1, <1>2 DEF Types
  <2>2. \A j \in Slot : Mid(check[j]) => check[j].rule # r
    BY <1>2, <2>1
  <2> QED
    BY <1>1, <2>1, <2>2 DEF Resting, RowsChange
<1>8. \A j \in Slot : CheckShape(check[j])' /\ Course(check[j])'
  <2> SUFFICES ASSUME NEW j \in Slot PROVE CheckShape(check[j])' /\ Course(check[j])'
    OBVIOUS
  <2>1. CASE j # i
    <3>1. CheckShape(check[j])' /\ check'[j] = check[j]
      BY <1>1, <1>2, <2>1 DEF CheckShape, Mid
    <3>2. ~(Mid(check[j]) /\ check[j].alone)
      BY <1>1, <2>1, OthersNotAlone DEF Mid
    <3> QED
      BY <3>1, <3>2 DEF Course, Mid
  <2>2. CASE j = i
    <3>1. CheckShape(check[i])'
      BY <1>2 DEF CheckShape, Mid
    <3>2. \A s \in Severity :
            Known(d, s, Done(d)) =
              IF s \in Done(d)
              THEN Polled(seen'[d.rule][s], Breached(d.set, d.value, s), d.events[s],
                          d.set.recovery)
              ELSE seen'[d.rule][s]
      BY DEF Known
    <3>3. Course(check[i])'
      BY <1>2, <1>3, <3>2 DEF Course, Known
    <3> QED
      BY <2>2, <3>1, <3>3
  <2> QED
    BY <2>1, <2>2
<1> QED
  BY <1>4, <1>5, <1>6, <1>7, <1>8 DEF AlertsInv

\* A check that is done with a severity goes on or ends.
LEMMA NextSeverityKeeps ==
  ASSUME AlertsInv, Environment, NEW i \in Slot, Mid(check[i]), RowsChange(check[i].rule),
         NextSeverity(i, check[i]),
         check[i].alone =>
           LET c == check[i] done == Done(c) \cup {c.severity}
           IN /\ \A s \in Severity : Agrees(rows'[c.rule][s], Known(c, s, done), c.set.polls)
              /\ \A s \in Severity : s \notin done => c.events[s] = "none"
  PROVE  AlertsInv'
<1> DEFINE c == check[i]
           d == [c EXCEPT !.pc = "get", !.severity = "critical", !.row = NoRow,
                          !.found = FALSE]
<1>1. Types /\ \A j \in Slot : CheckShape(check[j]) /\ Course(check[j])
  BY DEF AlertsInv
<1>2. c \in Check /\ c.rule \in Rule /\ c.severity \in Severities(c.set)
  BY <1>1 DEF Types, CheckShape
<1>3. c.set \in Settings /\ c.severity \in Severity
  BY <1>2 DEF Check
<1>4. c.alone => c.rule \in DOMAIN rules /\ c.set = rules[c.rule]
  BY <1>1 DEF Course
<1>5. CASE ~(c.severity = "warning" /\ c.set.critical # None)
  <2>1. End(i, c)
    BY <1>5 DEF NextSeverity
  <2>2. Severities(c.set) = Done(c) \cup {c.severity}
    BY <1>2, <1>3, <1>5 DEF Severities, Done, Severity
  <2>3. c.alone => \A s \in Severity :
                     Agrees(rows'[c.rule][s], Known(c, s, Severities(c.set)), c.set.polls)
    BY <2>2
  <2> QED
    BY <1>2, <1>4, <2>1, <2>3, EndKeeps
<1>6. CASE c.severity = "warning" /\ c.set.critical # None
  <2>1. check' = [check EXCEPT ![i] = d] /\ seen' = seen
    BY <1>6 DEF NextSeverity
  <2>2. /\ d.pc = "get" /\ d.severity = "critical" /\ d.rule = c.rule /\ d.set = c.set
        /\ d.alone = c.alone /\ d.events = c.events /\ d.value = c.value
    BY <1>2 DEF Check
  <2>3. d \in Check
    BY <1>2 DEF Check, Severity, Row
  <2>4. d.severity \in Severities(d.set)
    BY <1>6, <2>2 DEF Severities, Severity
  <2>5. Done(d) = Done(c) \cup {c.severity}
    BY <1>2, <1>6, <2>2 DEF Done, Severities, Severity
  <2>6. \A s \in Severity : Known(d, s, Done(d)) = Known(c, s, Done(c) \cup {c.severity})
    BY <2>2, <2>5 DEF Known
  <2>7. d.alone =>
          /\ d.rule \in DOMAIN rules /\ d.set = rules[d.rule]
          /\ \A s \in Severity : Agrees(rows'[d.rule][s], Known(d, s, Done(d)), d.set.polls)
          /\ \A s \in Severity : s \notin Done(d) => d.events[s] = "none"
    BY <1>4, <2>2, <2>5, <2>6
  <2>8. Mid(d) /\ check[i].pc # "idle"
    BY <2>2 DEF Mid
  <2> HIDE DEF d
  <2> QED
    BY <1>2, <2>1, <2>2, <2>3, <2>4, <2>7, <2>8, MoveKeeps
<1> QED
  BY <1>5, <1>6

------------------------------------------------------------------------------
\* The steps of a check, one by one.
LEMMA ReadRulesKeeps == ASSUME AlertsInv, NEW i \in Slot, ReadRules(i) PROVE AlertsInv'
<1>1. Types /\ OneAlone /\ Resting /\ \A j \in Slot : CheckShape(check[j]) /\ Course(check[j])
  BY DEF AlertsInv
<1>2. check[i].pc = "rules" /\ Environment /\ rows' = rows /\ seen' = seen /\ rules' = rules
      /\ check[i] \in Check /\ check[i].events = NoEvents /\ ~Mid(check[i])
  BY <1>1 DEF ReadRules, Environment, Types, CheckShape, Mid
<1>3. CASE check' = [check EXCEPT ![i] = Idle]
  <2>1. check'[i] = Idle /\ \A j \in Slot : j # i => check'[j] = check[j]
    BY <1>1, <1>3 DEF Types
  <2>2. Types'
    BY <1>1, <1>2, <1>3, IdleCheck DEF Types, Environment
  <2>3. RowsSane'
    BY <1>2 DEF AlertsInv, RowsSane
  <2>4. OneAlone'
    BY <1>1, <2>1, IdleCheck DEF OneAlone
  <2>5. Resting'
    BY <1>1, <1>2, <2>1 DEF Resting
  <2>6. \A j \in Slot : CheckShape(check[j])' /\ Course(check[j])'
    BY <1>1, <1>2, <2>1, IdleCheck DEF CheckShape, Course, Known, Mid
  <2> QED
    BY <2>2, <2>3, <2>4, <2>5, <2>6 DEF AlertsInv
<1>4. CASE \E r \in Effective :
             /\ Severities(rules[r]) # {}
             /\ check' = [check EXCEPT ![i].pc = "get", ![i].rule = r, ![i].set = rules[r],
                  ![i].severity = IF rules[r].warning # None THEN "warning" ELSE "critical"]
  <2>1. PICK r \in Effective :
             /\ Severities(rules[r]) # {}
             /\ check' = [check EXCEPT ![i].pc = "get", ![i].rule = r, ![i].set = rules[r],
                  ![i].severity = IF rules[r].warning # None THEN "warning" ELSE "critical"]
    BY <1>4
  <2>2. r \in DOMAIN rules /\ r \in Rule /\ rules[r] \in Settings
    BY <1>1 DEF Effective, Newest, Rules, Types
  <2> DEFINE first == IF rules[r].warning # None THEN "warning" ELSE "critical"
             d == [check[i] EXCEPT !.pc = "get", !.rule = r, !.set = rules[r],
                                   !.severity = first]
  <2>3. first \in Severity /\ first \in Severities(rules[r])
    BY <2>1 DEF Severities, Severity
  <2>4. check' = [check EXCEPT ![i] = d]
    BY <1>1, <2>1 DEF Types
  <2>5. d \in Check
    BY <1>2, <2>2, <2>3 DEF Check
  <2>6. /\ d.pc = "get" /\ d.rule = r /\ d.set = rules[r] /\ d.severity = first
        /\ d.alone = check[i].alone /\ d.events = NoEvents
    BY <1>2 DEF Check
  <2>7. Mid(d) /\ Done(d) = {}
    BY <2>3, <2>6 DEF Mid, Done, Severities, None
  <2>8. ASSUME d.alone PROVE \A j \in Slot : Mid(check[j]) => check[j].rule # r
    BY <1>1, <1>2, <2>6, <2>8, OthersNotAlone DEF OneAlone, Mid
  <2>9. ASSUME d.alone, NEW s \in Severity
        PROVE  Agrees(rows'[r][s], Known(d, s, Done(d)), rules[r].polls)
    BY <1>1, <1>2, <2>2, <2>6, <2>7, <2>8, <2>9 DEF Resting, Known
  <2>10. RowsChange(r)
    BY <1>2, RowsSame
  <2>11. \A s \in Severity : d.events[s] = "none"
    BY <2>6 DEF NoEvents
  <2> HIDE DEF d, first
  <2> QED
    BY <1>2, <2>2, <2>3, <2>4, <2>5, <2>6, <2>7, <2>9, <2>10, <2>11, MoveKeeps
<1> QED
  BY <1>3, <1>4 DEF ReadRules

\* A state that is read and left alone counts as worked on.
LEMMA GetStateKeeps == ASSUME AlertsInv, NEW i \in Slot, GetState(i) PROVE AlertsInv'
<1> DEFINE c == check[i]
           row == rows[c.rule][c.severity]
           breached == Breached(c.set, c.value, c.severity)
<1>1. Types /\ \A j \in Slot : CheckShape(check[j]) /\ Course(check[j])
  BY DEF AlertsInv
<1>2. c.pc = "get" /\ Environment /\ rows' = rows /\ rules' = rules
  BY DEF GetState, Environment
<1>3. Mid(c) /\ c \in Check /\ c.rule \in Rule /\ c.severity \in Severities(c.set)
  BY <1>1, <1>2 DEF Types, CheckShape, Mid
<1>4. c.set \in Settings /\ c.severity \in Severity /\ row \in Row /\ breached \in BOOLEAN
      /\ seen[c.rule][c.severity] \in Seen
  BY <1>1, <1>3 DEF Check, Types, Breached
<1>5. c.severity \notin Done(c)
  BY <1>2, <1>4 DEF Done, Severity
<1>6. RowsChange(c.rule)
  BY <1>2, RowsSame
<1>7. CASE Writes(breached, row)
  <2> DEFINE d == [c EXCEPT !.pc = "look", !.row = row]
  <2>1. check' = [check EXCEPT ![i] = d] /\ seen' = seen
    BY <1>1, <1>7 DEF GetState, Types
  <2>2. d \in Check
    BY <1>3, <1>4 DEF Check
  <2>3. /\ d.pc = "look" /\ d.rule = c.rule /\ d.set = c.set /\ d.severity = c.severity
        /\ d.alone = c.alone /\ d.events = c.events /\ d.value = c.value /\ d.row = row
    BY <1>3 DEF Check
  <2>4. Mid(d) /\ Done(d) = Done(c)
    BY <1>2, <2>3 DEF Mid, Done
  <2>5. \A s \in Severity : Known(d, s, Done(d)) = Known(c, s, Done(c))
    BY <2>3, <2>4 DEF Known
  <2>6. d.alone =>
          /\ d.rule \in DOMAIN rules /\ d.set = rules[d.rule]
          /\ \A s \in Severity : Agrees(rows'[d.rule][s], Known(d, s, Done(d)), d.set.polls)
          /\ \A s \in Severity : s \notin Done(d) => d.events[s] = "none"
          /\ d.row = rows'[d.rule][d.severity]
    BY <1>1, <1>2, <1>3, <2>3, <2>4, <2>5 DEF Course
  <2> HIDE DEF d
  <2> QED
    BY <1>2, <1>3, <1>6, <2>1, <2>2, <2>3, <2>4, <2>6, MoveKeeps
<1>8. CASE ~Writes(breached, row)
  <2>1. NextSeverity(i, check[i])
    BY <1>8 DEF GetState
  <2>2. ASSUME c.alone
        PROVE  /\ \A s \in Severity :
                    Agrees(rows'[c.rule][s], Known(c, s, Done(c) \cup {c.severity}), c.set.polls)
               /\ \A s \in Severity : s \notin Done(c) \cup {c.severity} => c.events[s] = "none"
    <3>1. /\ \A s \in Severity : Agrees(rows[c.rule][s], Known(c, s, Done(c)), c.set.polls)
          /\ \A s \in Severity : s \notin Done(c) => c.events[s] = "none"
      BY <1>1, <1>3, <2>2 DEF Course
    <3>2. c.events[c.severity] = "none"
          /\ Agrees(row, seen[c.rule][c.severity], c.set.polls)
      BY <1>4, <1>5, <3>1 DEF Known
    <3>3. Agrees(row, Polled(seen[c.rule][c.severity], breached, "none", c.set.recovery),
                 c.set.polls)
      BY <1>4, <1>8, <3>2, SkipAgrees
    <3>4. Agrees(row, Known(c, c.severity, Done(c) \cup {c.severity}), c.set.polls)
      BY <3>2, <3>3 DEF Known
    <3>5. \A s \in Severity : s # c.severity =>
            Known(c, s, Done(c) \cup {c.severity}) = Known(c, s, Done(c))
      BY DEF Known
    <3> QED
      BY <1>2, <3>1, <3>4, <3>5
  <2> QED
    BY <1>2, <1>3, <1>6, <2>1, <2>2, NextSeverityKeeps
<1> QED
  BY <1>7, <1>8

\* Whether there is a row is found out without a change of it.
LEMMA LookKeeps == ASSUME AlertsInv, NEW i \in Slot, Look(i) PROVE AlertsInv'
<1> DEFINE c == check[i]
           there == rows[c.rule][c.severity] # NoRow
           d == [c EXCEPT !.pc = "put", !.found = there]
<1>1. Types /\ \A j \in Slot : CheckShape(check[j]) /\ Course(check[j])
  BY DEF AlertsInv
<1>2. c.pc = "look" /\ Environment /\ rows' = rows /\ rules' = rules /\ seen' = seen
  BY DEF Look, Environment
<1>3. Mid(c) /\ c \in Check /\ c.rule \in Rule /\ c.severity \in Severities(c.set)
  BY <1>1, <1>2 DEF Types, CheckShape, Mid
<1>4. RowsChange(c.rule)
  BY <1>2, RowsSame
<1>5. check' = [check EXCEPT ![i] = d]
  BY <1>1 DEF Look, Types
<1>6. d \in Check
  BY <1>3 DEF Check
<1>7. /\ d.pc = "put" /\ d.rule = c.rule /\ d.set = c.set /\ d.severity = c.severity
      /\ d.alone = c.alone /\ d.events = c.events /\ d.value = c.value /\ d.row = c.row
      /\ d.found = there
  BY <1>3 DEF Check
<1>8. Mid(d) /\ Done(d) = Done(c)
  BY <1>2, <1>7 DEF Mid, Done
<1>9. \A s \in Severity : Known(d, s, Done(d)) = Known(c, s, Done(c))
  BY <1>7, <1>8 DEF Known
<1>10. d.alone =>
         /\ d.rule \in DOMAIN rules /\ d.set = rules[d.rule]
         /\ \A s \in Severity : Agrees(rows'[d.rule][s], Known(d, s, Done(d)), d.set.polls)
         /\ \A s \in Severity : s \notin Done(d) => d.events[s] = "none"
         /\ d.row = rows'[d.rule][d.severity] /\ d.found = (d.row # NoRow)
  BY <1>1, <1>2, <1>3, <1>7, <1>8, <1>9 DEF Course
<1> HIDE DEF d
<1> QED
  BY <1>2, <1>3, <1>4, <1>5, <1>6, <1>7, <1>8, <1>10, MoveKeeps

\* A check that runs alone writes the row its poll asks for; another may write anything,
\* to the row of its own rule.
LEMMA PutKeeps == ASSUME AlertsInv, NEW i \in Slot, Put(i) PROVE AlertsInv'
<1> DEFINE c == check[i]
           row == rows[c.rule][c.severity]
           breached == Breached(c.set, c.value, c.severity)
           there == row # NoRow
           fails == ~c.found /\ (there \/ c.rule \notin DOMAIN rules)
<1>1. Types /\ RowsSane /\ \A j \in Slot : CheckShape(check[j]) /\ Course(check[j])
  BY DEF AlertsInv
<1>2. c.pc = "put" /\ Environment /\ rules' = rules
  BY DEF Put, Environment
<1>3. Mid(c) /\ c \in Check /\ c.rule \in Rule /\ c.severity \in Severities(c.set)
  BY <1>1, <1>2 DEF Types, CheckShape, Mid
<1>4. c.set \in Settings /\ c.severity \in Severity /\ c.row \in Row /\ breached \in BOOLEAN
      /\ seen[c.rule][c.severity] \in Seen /\ c.found \in BOOLEAN
  BY <1>1, <1>3 DEF Check, Types, Breached
<1>5. c.severity \notin Done(c)
  BY <1>2, <1>4 DEF Done, Severity
<1>6. PICK out : out = Outcome(c.set, breached, c.row)
  OBVIOUS
<1>7. out.row \in Row /\ out.row # NoRow /\ Sane(out.row) /\ out.event \in Event
  BY <1>4, <1>6, OutcomeRow
<1>8. rows' = IF c.found = there /\ ~fails
              THEN [rows EXCEPT ![c.rule][c.severity] = out.row] ELSE rows
  BY <1>6 DEF Put
<1>9. /\ fails => End(i, [c EXCEPT !.alone = FALSE])
      /\ ~fails /\ out.event # "none" =>
           /\ check' = [check EXCEPT ![i].pc = "event", ![i].row = NoRow, ![i].found = FALSE,
                          ![i].events[c.severity] = IF c.alone THEN out.event ELSE "none"]
           /\ seen' = seen
      /\ ~fails /\ out.event = "none" => NextSeverity(i, c)
  BY <1>6 DEF Put
<1>10. RowsChange(c.rule)
  <2>1. CASE ~(c.found = there /\ ~fails)
    BY <1>2, <1>8, <2>1, RowsSame
  <2>2. CASE c.found = there /\ ~fails
    <3>1. rows' = [rows EXCEPT ![c.rule][c.severity] = out.row]
      BY <1>8, <2>2
    <3>2. c.rule \in DOMAIN rules
      BY <1>1, <1>3, <1>4, <2>2 DEF RowsSane
    <3>3. rows' \in [Rule -> [Severity -> Row]]
      BY <1>1, <1>3, <1>7, <3>1 DEF Types
    <3>4. \A q \in Rule : q # c.rule => rows'[q] = rows[q]
      BY <1>1, <3>1 DEF Types
    <3>5. \A s \in Severity :
            rows'[c.rule][s] = IF s = c.severity THEN out.row ELSE rows[c.rule][s]
      BY <1>1, <1>3, <3>1 DEF Types
    <3>6. RowsSane'
      BY <1>1, <1>2, <1>3, <1>7, <3>2, <3>4, <3>5 DEF RowsSane
    <3> QED
      BY <3>3, <3>4, <3>6 DEF RowsChange
  <2> QED
    BY <2>1, <2>2
<1>11. ASSUME c.alone
       PROVE  /\ ~fails /\ c.rule \in DOMAIN rules /\ c.set = rules[c.rule]
              /\ Agrees(rows'[c.rule][c.severity],
                        Polled(seen[c.rule][c.severity], breached, out.event, c.set.recovery),
                        c.set.polls)
              /\ \A s \in Severity : s # c.severity =>
                   Agrees(rows'[c.rule][s], Known(c, s, Done(c)), c.set.polls)
              /\ \A s \in Severity : s \notin Done(c) => c.events[s] = "none"
  <2>1. /\ c.rule \in DOMAIN rules /\ c.set = rules[c.rule]
        /\ \A s \in Severity : Agrees(rows[c.rule][s], Known(c, s, Done(c)), c.set.polls)
        /\ \A s \in Severity : s \notin Done(c) => c.events[s] = "none"
        /\ c.row = row /\ c.found = (c.row # NoRow)
    BY <1>1, <1>2, <1>3, <1>11 DEF Course
  <2>2. ~fails /\ c.found = there
    BY <2>1
  <2>3. rows' = [rows EXCEPT ![c.rule][c.severity] = out.row]
    BY <1>8, <2>2
  <2>4. \A s \in Severity :
          rows'[c.rule][s] = IF s = c.severity THEN out.row ELSE rows[c.rule][s]
    BY <1>1, <1>3, <2>3 DEF Types
  <2>5. Agrees(c.row, seen[c.rule][c.severity], c.set.polls)
    BY <1>4, <1>5, <2>1 DEF Known
  <2>6. Agrees(out.row, Polled(seen[c.rule][c.severity], breached, out.event, c.set.recovery),
               c.set.polls)
    BY <1>4, <1>6, <2>5, OutcomeAgrees
  <2> QED
    BY <1>4, <2>1, <2>2, <2>4, <2>6
<1>12. CASE fails
  <2> DEFINE d == [c EXCEPT !.alone = FALSE]
  <2>1. d \in Check /\ d.rule = c.rule /\ ~d.alone
    BY <1>3 DEF Check
  <2>2. End(i, d)
    BY <1>9, <1>12
  <2> HIDE DEF d
  <2> QED
    BY <1>2, <1>3, <1>10, <2>1, <2>2, EndKeeps
<1>13. CASE ~fails /\ out.event # "none"
  <2> DEFINE event == IF c.alone THEN out.event ELSE "none"
             d == [c EXCEPT !.pc = "event", !.row = NoRow, !.found = FALSE,
                            !.events[c.severity] = event]
  <2>1. check' = [check EXCEPT ![i] = d] /\ seen' = seen
    BY <1>1, <1>9, <1>13 DEF Types
  <2>2. event \in Event /\ NoRow \in Row
    BY <1>7 DEF Event, Row
  <2>3. d \in Check
    BY <1>3, <2>2 DEF Check
  <2>4. /\ d.pc = "event" /\ d.rule = c.rule /\ d.set = c.set /\ d.severity = c.severity
        /\ d.alone = c.alone /\ d.value = c.value
        /\ d.events[c.severity] = event
        /\ \A s \in Severity : s # c.severity => d.events[s] = c.events[s]
    BY <1>3, <1>4 DEF Check
  <2>5. Mid(d) /\ Done(d) = Done(c) \cup {c.severity}
    BY <1>2, <1>3, <2>4 DEF Mid, Done
  <2>6. ASSUME c.alone, NEW s \in Severity
        PROVE  /\ Agrees(rows'[c.rule][s], Known(d, s, Done(d)), c.set.polls)
               /\ s \notin Done(d) => d.events[s] = "none"
    <3>1. CASE s = c.severity
      <4>1. Known(d, s, Done(d)) =
              Polled(seen[c.rule][c.severity], breached, out.event, c.set.recovery)
        BY <2>4, <2>5, <2>6, <3>1 DEF Known
      <4> QED
        BY <1>11, <2>5, <2>6, <3>1, <4>1
    <3>2. CASE s # c.severity
      <4>1. Known(d, s, Done(d)) = Known(c, s, Done(c))
        BY <2>4, <2>5, <3>2 DEF Known
      <4> QED
        BY <1>11, <2>4, <2>5, <2>6, <3>2, <4>1
    <3> QED
      BY <3>1, <3>2
  <2> HIDE DEF d, event
  <2> QED
    BY <1>2, <1>3, <1>10, <1>11, <2>1, <2>3, <2>4, <2>5, <2>6, MoveKeeps
<1>14. CASE ~fails /\ out.event = "none"
  <2>1. NextSeverity(i, check[i])
    BY <1>9, <1>14
  <2>2. ASSUME c.alone, NEW s \in Severity
        PROVE  /\ Agrees(rows'[c.rule][s], Known(c, s, Done(c) \cup {c.severity}), c.set.polls)
               /\ s \notin Done(c) \cup {c.severity} => c.events[s] = "none"
    <3>1. CASE s = c.severity
      <4>1. Known(c, s, Done(c) \cup {c.severity}) =
              Polled(seen[c.rule][c.severity], breached, out.event, c.set.recovery)
        BY <1>5, <1>11, <1>14, <2>2, <3>1 DEF Known
      <4> QED
        BY <1>11, <2>2, <3>1, <4>1
    <3>2. CASE s # c.severity
      <4>1. Known(c, s, Done(c) \cup {c.severity}) = Known(c, s, Done(c))
        BY <3>2 DEF Known
      <4> QED
        BY <1>11, <2>2, <3>2, <4>1
    <3> QED
      BY <3>1, <3>2
  <2> QED
    BY <1>2, <1>3, <1>10, <2>1, <2>2, NextSeverityKeeps
<1> QED
  BY <1>7, <1>12, <1>13, <1>14

\* The event of a severity has been counted when its row was written.
LEMMA RecordEventKeeps == ASSUME AlertsInv, NEW i \in Slot, RecordEvent(i) PROVE AlertsInv'
<1> DEFINE c == check[i]
<1>1. Types /\ \A j \in Slot : CheckShape(check[j]) /\ Course(check[j])
  BY DEF AlertsInv
<1>2. c.pc = "event" /\ Environment /\ rows' = rows /\ rules' = rules
  BY DEF RecordEvent, Environment
<1>3. Mid(c) /\ c \in Check /\ c.rule \in Rule /\ c.severity \in Severities(c.set)
  BY <1>1, <1>2 DEF Types, CheckShape, Mid
<1>4. RowsChange(c.rule)
  BY <1>2, RowsSame
<1>5. CASE c.rule \in DOMAIN rules
  <2>1. NextSeverity(i, check[i])
    BY <1>5 DEF RecordEvent
  <2>2. Done(c) \cup {c.severity} = Done(c)
    BY <1>2, <1>3 DEF Done
  <2>3. c.alone =>
          /\ \A s \in Severity :
               Agrees(rows'[c.rule][s], Known(c, s, Done(c) \cup {c.severity}), c.set.polls)
          /\ \A s \in Severity : s \notin Done(c) \cup {c.severity} => c.events[s] = "none"
    BY <1>1, <1>2, <1>3, <2>2 DEF Course
  <2> QED
    BY <1>2, <1>3, <1>4, <2>1, <2>3, NextSeverityKeeps
<1>6. CASE c.rule \notin DOMAIN rules
  <2>1. End(i, c)
    BY <1>6 DEF RecordEvent
  <2>2. ~c.alone
    BY <1>1, <1>3, <1>6 DEF Course
  <2> QED
    BY <1>2, <1>3, <1>4, <2>1, <2>2, EndKeeps
<1> QED
  BY <1>5, <1>6

------------------------------------------------------------------------------
\* Whatever meets the checks under way leaves none of them alone, and gives up what is
\* known of their rules.
LEMMA MetFits ==
  ASSUME AlertsInv
  PROVE  /\ Met \in [Slot -> Check] /\ SeenOfMet \in [Rule -> [Severity -> Seen]]
         /\ \A i \in Slot : /\ Met[i].pc = check[i].pc /\ Met[i].rule = check[i].rule
                            /\ Met[i].pc # "idle" => ~Met[i].alone
                            /\ Met[i].pc = "rules" => Met[i].events = NoEvents
                            /\ Mid(Met[i]) => /\ Met[i].rule \in Rule
                                              /\ Met[i].severity \in Severities(Met[i].set)
         /\ \A r \in Rule : \A s \in Severity : SeenOfMet[r][s] \in {seen[r][s], Unseen}
<1>1. Types /\ \A j \in Slot : CheckShape(check[j])
  BY DEF AlertsInv
<1>2. ASSUME NEW i \in Slot
      PROVE  /\ Met[i] \in Check /\ Met[i].pc = check[i].pc /\ Met[i].rule = check[i].rule
             /\ Met[i].pc # "idle" => ~Met[i].alone
             /\ Met[i].pc = "rules" => Met[i].events = NoEvents
             /\ Mid(Met[i]) => Met[i].rule \in Rule /\ Met[i].severity \in Severities(Met[i].set)
  <2>1. check[i] \in Check /\ CheckShape(check[i])
    BY <1>1 DEF Types
  <2>2. CASE check[i].pc # "idle"
    <3>1. Met[i] = [check[i] EXCEPT !.alone = FALSE, !.events = NoEvents]
      BY <2>2 DEF Met, Running
    <3>2. Met[i] \in Check
      BY <2>1, <3>1, IdleCheck DEF Check
    <3>3. /\ Met[i].pc = check[i].pc /\ Met[i].rule = check[i].rule
          /\ Met[i].severity = check[i].severity /\ Met[i].set = check[i].set
          /\ ~Met[i].alone /\ Met[i].events = NoEvents
      BY <2>1, <3>1 DEF Check
    <3> QED
      BY <2>1, <3>2, <3>3 DEF CheckShape, Mid
  <2>3. CASE check[i].pc = "idle"
    <3>1. Met[i] = check[i]
      BY <2>3 DEF Met, Running
    <3> QED
      BY <2>1, <2>3, <3>1 DEF Mid
  <2> QED
    BY <2>2, <2>3
<1>3. Met \in [Slot -> Check]
  BY <1>2 DEF Met
<1>4. ASSUME NEW r \in Rule
      PROVE  /\ SeenOfMet[r] \in [Severity -> Seen]
             /\ \A s \in Severity : SeenOfMet[r][s] \in {seen[r][s], Unseen}
  <2>1. Unseen \in Seen /\ seen[r] \in [Severity -> Seen]
    BY <1>1 DEF Unseen, Seen, Types
  <2>2. SeenOfMet[r] = seen[r] \/ SeenOfMet[r] = [s \in Severity |-> Unseen]
    BY DEF SeenOfMet
  <2> QED
    BY <2>1, <2>2
<1>5. SeenOfMet \in [Rule -> [Severity -> Seen]]
  BY <1>4 DEF SeenOfMet
<1> QED
  BY <1>2, <1>3, <1>4, <1>5

\* A step that meets the checks under way leaves the invariant when it leaves the rules
\* without a check in agreement.
LEMMA MeetKeeps ==
  ASSUME AlertsInv, Types', RowsSane', NEW started \in SUBSET Slot,
         \A i \in Slot : IF i \in started
                         THEN check[i].pc = "idle" /\ check'[i].pc = "rules"
                              /\ check'[i].events = NoEvents
                              /\ (check'[i].alone => Running = {}) /\ started = {i}
                         ELSE check'[i] = Met[i],
         \A r \in DOMAIN rules' : (\A i \in Slot : Mid(check[i]) => check[i].rule # r)
           => \A s \in Severity : Agrees(rows'[r][s], seen'[r][s], rules'[r].polls)
  PROVE  AlertsInv'
<1>1. ASSUME NEW i \in Slot
      PROVE  /\ Mid(check'[i]) <=> Mid(check[i])
             /\ Mid(check[i]) => check'[i].rule = check[i].rule
             /\ CheckShape(check[i])' /\ Course(check[i])'
  BY MetFits DEF CheckShape, Course, Mid
<1>2. OneAlone'
  <2> SUFFICES ASSUME NEW i \in Slot, NEW j \in Slot, check'[i].alone,
                      check'[i].pc # "idle", check'[j].pc # "idle"
               PROVE  i = j
    BY DEF OneAlone
  <2>1. i \in started /\ Running = {}
    BY MetFits
  <2>2. j \in started
    BY <2>1, MetFits DEF Running
  <2> QED
    BY <2>1, <2>2
<1>3. Resting'
  BY <1>1 DEF Resting
<1> QED
  BY <1>1, <1>2, <1>3 DEF AlertsInv

\* What is left of the agreement of a rule nobody works on.
LEMMA RestAfterMeeting ==
  ASSUME AlertsInv, NEW r \in DOMAIN rules, NEW s \in Severity,
         \A i \in Slot : Mid(check[i]) => check[i].rule # r
  PROVE  Agrees(rows[r][s], SeenOfMet[r][s], rules[r].polls)
<1>1. Agrees(rows[r][s], seen[r][s], rules[r].polls) /\ r \in Rule /\ rules[r] \in Settings
      /\ rows[r][s] \in Row
  BY DEF AlertsInv, Resting, Types
<1>2. Agrees(rows[r][s], Unseen, rules[r].polls)
  BY <1>1, NothingKnown
<1> QED
  BY <1>1, <1>2, MetFits

\* A poll starts a check, alone when there is no other.
LEMMA PollKeeps == ASSUME AlertsInv, NEW i \in Slot, Poll(i) PROVE AlertsInv'
<1> DEFINE d == [Idle EXCEPT !.pc = "rules", !.value = value, !.alone = Running = {}]
<1>1. Types /\ RowsSane
  BY DEF AlertsInv
<1>2. check[i].pc = "idle" /\ check' = [Met EXCEPT ![i] = d] /\ seen' = SeenOfMet
      /\ rows' = rows /\ rules' = rules /\ value' = value /\ assigned' = assigned
      /\ disturbed' = disturbed
  BY DEF Poll, Environment
<1>3. d \in Check /\ d.pc = "rules" /\ d.events = NoEvents /\ d.alone = (Running = {})
  BY <1>1, IdleCheck DEF Idle, Check, Types
<1> HIDE DEF d
<1>4. check'[i] = d /\ \A j \in Slot \ {i} : check'[j] = Met[j]
  BY <1>2, MetFits
<1>5. Types'
  BY <1>1, <1>2, <1>3, MetFits DEF Types
<1>6. RowsSane'
  BY <1>1, <1>2 DEF RowsSane
<1>7. \A r \in DOMAIN rules' : (\A j \in Slot : Mid(check[j]) => check[j].rule # r)
           => \A s \in Severity : Agrees(rows'[r][s], seen'[r][s], rules'[r].polls)
  BY <1>2, RestAfterMeeting
<1>8. \A j \in Slot : IF j \in {i}
                      THEN check[j].pc = "idle" /\ check'[j].pc = "rules"
                           /\ check'[j].events = NoEvents
                           /\ (check'[j].alone => Running = {}) /\ {i} = {j}
                      ELSE check'[j] = Met[j]
  BY <1>2, <1>3, <1>4
<1>9. {i} \in SUBSET Slot
  OBVIOUS
<1> QED
  BY <1>5, <1>6, <1>7, <1>8, <1>9, MeetKeeps

\* An edit meets the checks and starts none.
LEMMA EditKeeps ==
  ASSUME AlertsInv, Edit, assigned' \in BOOLEAN,
         DOMAIN rules' \subseteq Rule, \A r \in DOMAIN rules' : rules'[r] \in Settings,
         rows' \in [Rule -> [Severity -> Row]], RowsSane',
         seen' \in [Rule -> [Severity -> Seen]],
         \A r \in DOMAIN rules' : (\A i \in Slot : Mid(check[i]) => check[i].rule # r)
           => \A s \in Severity : Agrees(rows'[r][s], seen'[r][s], rules'[r].polls)
  PROVE  AlertsInv'
<1>1. check' = Met /\ value' = value /\ disturbed' \in 0 .. MaxDisturbed
  BY BoundsAssumption DEF Edit, AlertsInv, Types
<1>2. Types'
  BY <1>1, MetFits DEF AlertsInv, Types
<1>3. {} \in SUBSET Slot
  OBVIOUS
<1>4. \A i \in Slot : check'[i] = Met[i]
  BY <1>1
<1> QED
  BY <1>2, <1>3, <1>4, MeetKeeps

\* A new rule has no rows and nothing has fired for it.
LEMMA CreateRuleKeeps == ASSUME AlertsInv, CreateRule PROVE AlertsInv'
<1>1. Types /\ RowsSane
  BY DEF AlertsInv
<1>2. PICK set \in Settings, r \in Rule \ DOMAIN rules :
        /\ rules' = [q \in DOMAIN rules \cup {r} |-> IF q = r THEN set ELSE rules[q]]
        /\ seen' = [SeenOfMet EXCEPT ![r] = [s \in Severity |-> Fresh]]
        /\ Edit /\ assigned' = assigned /\ rows' = rows
  BY DEF CreateRule
<1>3. /\ DOMAIN rules' = DOMAIN rules \cup {r} /\ rules'[r] = set
      /\ \A q \in DOMAIN rules : rules'[q] = rules[q]
  BY <1>2
<1>4. DOMAIN rules' \subseteq Rule /\ \A q \in DOMAIN rules' : rules'[q] \in Settings
  BY <1>1, <1>2, <1>3 DEF Types
<1>5. RowsSane'
  BY <1>1, <1>2, <1>3 DEF RowsSane
<1>6. \A s \in Severity : rows[r][s] = NoRow
  BY <1>1, <1>2 DEF RowsSane
<1>7. NoRow \in Row
  BY DEF Row
<1>8. Fresh \in Seen /\ Agrees(NoRow, Fresh, set.polls)
  BY <1>7, NothingKnown
<1>9. seen' \in [Rule -> [Severity -> Seen]]
  BY <1>2, <1>8, MetFits
<1>10. /\ \A s \in Severity : seen'[r][s] = Fresh
       /\ \A q \in Rule : q # r => seen'[q] = SeenOfMet[q]
  BY <1>2, MetFits
<1>11. ASSUME NEW q \in DOMAIN rules', \A i \in Slot : Mid(check[i]) => check[i].rule # q,
              NEW s \in Severity
       PROVE  Agrees(rows'[q][s], seen'[q][s], rules'[q].polls)
  <2>1. CASE q = r
    BY <1>2, <1>3, <1>6, <1>8, <1>10, <2>1
  <2>2. CASE q # r
    BY <1>2, <1>3, <1>4, <1>10, <1>11, <2>2, RestAfterMeeting
  <2> QED
    BY <2>1, <2>2
<1> QED
  BY <1>1, <1>2, <1>4, <1>5, <1>9, <1>11, EditKeeps DEF Types

\* After an update the rows are what they were, and the polls count from none.
LEMMA UpdateRuleKeeps == ASSUME AlertsInv, UpdateRule PROVE AlertsInv'
<1>1. Types /\ RowsSane
  BY DEF AlertsInv
<1>2. PICK r \in DOMAIN rules, set \in Settings :
        /\ rules' = [rules EXCEPT ![r] = set]
        /\ seen' = [SeenOfMet EXCEPT ![r] =
             [s \in Severity |-> [Unseen EXCEPT !.told = SeenOfMet[r][s].told]]]
        /\ Edit /\ assigned' = assigned /\ rows' = rows
  BY DEF UpdateRule
<1>3. /\ DOMAIN rules' = DOMAIN rules /\ rules'[r] = set /\ r \in Rule
      /\ \A q \in DOMAIN rules : q # r => rules'[q] = rules[q]
  BY <1>1, <1>2 DEF Types
<1>4. DOMAIN rules' \subseteq Rule /\ \A q \in DOMAIN rules' : rules'[q] \in Settings
  BY <1>1, <1>2, <1>3 DEF Types
<1>5. RowsSane'
  BY <1>1, <1>2, <1>3 DEF RowsSane
<1>6. \A s \in Severity : SeenOfMet[r][s] \in Seen
  BY <1>3, MetFits
<1>7. \A s \in Severity : [Unseen EXCEPT !.told = SeenOfMet[r][s].told] \in Seen
  BY <1>6 DEF Unseen, Seen
<1>8. seen' \in [Rule -> [Severity -> Seen]]
  BY <1>2, <1>3, <1>7, MetFits
<1>9. /\ \A s \in Severity : seen'[r][s] = [Unseen EXCEPT !.told = SeenOfMet[r][s].told]
      /\ \A q \in Rule : q # r => seen'[q] = SeenOfMet[q]
  BY <1>2, <1>3, MetFits
<1>10. ASSUME NEW q \in DOMAIN rules', \A i \in Slot : Mid(check[i]) => check[i].rule # q,
              NEW s \in Severity
       PROVE  Agrees(rows'[q][s], seen'[q][s], rules'[q].polls)
  <2>1. Agrees(rows[q][s], SeenOfMet[q][s], rules[q].polls)
    BY <1>3, <1>10, RestAfterMeeting
  <2>2. CASE q = r
    <3>1. rows[r][s] \in Row
      BY <1>1, <1>3 DEF Types
    <3>2. rows[r][s].count \in Nat /\ set.polls \in Nat /\ set.polls >= 1
      BY <3>1, RowFields, SettingFields
    <3>3. seen'[r][s].streak = 0 /\ seen'[r][s].known = FALSE
          /\ seen'[r][s].told = SeenOfMet[r][s].told
      BY <1>9 DEF Unseen
    <3>4. /\ SeenOfMet[r][s].told # "twice"
          /\ SeenOfMet[r][s].told = "firing" => rows[r][s].state = "firing"
          /\ SeenOfMet[r][s].told = "resolved" => rows[r][s].state # "firing"
      BY <2>1, <2>2 DEF Agrees
    <3>5. Agrees(rows[r][s], seen'[r][s], set.polls)
      BY <3>2, <3>3, <3>4 DEF Agrees
    <3> QED
      BY <1>2, <1>3, <2>2, <3>5
  <2>3. CASE q # r
    BY <1>2, <1>3, <1>4, <1>9, <2>1, <2>3
  <2> QED
    BY <2>2, <2>3
<1> QED
  BY <1>1, <1>2, <1>4, <1>5, <1>8, <1>10, EditKeeps DEF Types

\* A rule goes with its rows.
LEMMA DeleteRuleKeeps == ASSUME AlertsInv, DeleteRule PROVE AlertsInv'
<1>1. Types /\ RowsSane
  BY DEF AlertsInv
<1>2. PICK r \in DOMAIN rules :
        /\ rules' = [q \in DOMAIN rules \ {r} |-> rules[q]]
        /\ rows' = [rows EXCEPT ![r] = [s \in Severity |-> NoRow]]
        /\ seen' = [SeenOfMet EXCEPT ![r] = [s \in Severity |-> Fresh]]
        /\ Edit /\ assigned' = assigned
  BY DEF DeleteRule
<1>3. /\ DOMAIN rules' = DOMAIN rules \ {r} /\ r \in Rule
      /\ \A q \in DOMAIN rules' : rules'[q] = rules[q]
  BY <1>1, <1>2 DEF Types
<1>4. DOMAIN rules' \subseteq Rule /\ \A q \in DOMAIN rules' : rules'[q] \in Settings
  BY <1>1, <1>3 DEF Types
<1>5. NoRow \in Row /\ Sane(NoRow) /\ Fresh \in Seen
  BY DEF Row, NoRow, Sane, Fresh, Seen
<1>6. rows' \in [Rule -> [Severity -> Row]]
  BY <1>1, <1>2, <1>3, <1>5 DEF Types
<1>7. /\ \A s \in Severity : rows'[r][s] = NoRow
      /\ \A q \in Rule : q # r => rows'[q] = rows[q]
  BY <1>1, <1>2, <1>3 DEF Types
<1>8. RowsSane'
  BY <1>1, <1>3, <1>5, <1>7 DEF RowsSane
<1>9. seen' \in [Rule -> [Severity -> Seen]]
  BY <1>2, <1>3, <1>5, MetFits
<1>10. \A q \in Rule : q # r => seen'[q] = SeenOfMet[q]
  BY <1>2, MetFits
<1>11. \A q \in DOMAIN rules' : (\A i \in Slot : Mid(check[i]) => check[i].rule # q)
         => \A s \in Severity : Agrees(rows'[q][s], seen'[q][s], rules'[q].polls)
  BY <1>3, <1>4, <1>7, <1>10, RestAfterMeeting
<1> QED
  BY <1>1, <1>2, <1>4, <1>6, <1>8, <1>9, <1>11, EditKeeps DEF Types

\* With all rows gone no alert fires; the resolution of one that did is not told.
LEMMA AssignKeeps == ASSUME AlertsInv, NEW yes \in BOOLEAN, Assign(yes) PROVE AlertsInv'
<1> DEFINE H(r, s) == [Fresh EXCEPT !.told = IF SeenOfMet[r][s].told = "resolved"
                                             THEN "resolved" ELSE "unknown"]
<1>1. Types /\ RowsSane
  BY DEF AlertsInv
<1>2. /\ assigned' = yes /\ rules' = rules /\ Edit
      /\ rows' = [r \in Rule |-> [s \in Severity |-> NoRow]]
      /\ seen' = [r \in Rule |-> [s \in Severity |-> H(r, s)]]
  BY DEF Assign
<1>3. NoRow \in Row /\ Sane(NoRow)
  BY DEF Row, NoRow, Sane
<1>4. \A r \in Rule : \A s \in Severity :
        /\ H(r, s) \in Seen
        /\ H(r, s).streak = 0 /\ H(r, s).told \in {"resolved", "unknown"}
  BY DEF Fresh, Seen
<1>5. \A r \in Rule : \A s \in Severity : rows'[r][s] = NoRow /\ seen'[r][s] = H(r, s)
  BY <1>2
<1>6. seen' \in [Rule -> [Severity -> Seen]]
  BY <1>2, <1>4
<1> HIDE DEF H
<1>7. ASSUME NEW r \in DOMAIN rules, NEW s \in Severity
      PROVE  Agrees(rows'[r][s], seen'[r][s], rules[r].polls)
  <2>1. r \in Rule /\ rules[r] \in Settings
    BY <1>1 DEF Types
  <2>2. rules[r].polls \in Nat /\ rules[r].polls >= 1
    BY <2>1, SettingFields
  <2>3. rows'[r][s] = NoRow /\ seen'[r][s].streak = 0
        /\ seen'[r][s].told \in {"resolved", "unknown"}
    BY <1>4, <1>5, <2>1
  <2> QED
    BY <2>2, <2>3 DEF Agrees, NoRow
<1> QED
  BY <1>1, <1>2, <1>3, <1>5, <1>6, <1>7, EditKeeps DEF Types, RowsSane

\* What is measured concerns no check that has begun.
LEMMA MeasureKeeps == ASSUME AlertsInv, Measure PROVE AlertsInv'
<1>1. value' \in Value
      /\ UNCHANGED <<rules, assigned, rows, check, disturbed, seen>>
  BY DEF Measure
<1>2. Types'
  BY <1>1 DEF AlertsInv, Types
<1>3. RowsSane' /\ OneAlone' /\ Resting'
  BY <1>1 DEF AlertsInv, RowsSane, OneAlone, Resting
<1>4. \A i \in Slot : CheckShape(check[i])' /\ Course(check[i])'
  BY <1>1 DEF AlertsInv, CheckShape, Course, Known
<1> QED
  BY <1>2, <1>3, <1>4 DEF AlertsInv

\* A restart leaves no check, and nothing known of the rules that were being checked.
LEMMA RestartKeeps == ASSUME AlertsInv, Restart PROVE AlertsInv'
<1>1. Types /\ RowsSane
  BY DEF AlertsInv
<1>2. /\ check' = [i \in Slot |-> Idle] /\ seen' = SeenOfMet /\ rows' = rows /\ rules' = rules
      /\ value' = value /\ assigned' = assigned /\ disturbed' \in 0 .. MaxDisturbed
  BY <1>1, BoundsAssumption DEF Restart, Types
<1>3. Types' /\ RowsSane'
  BY <1>1, <1>2, IdleCheck, MetFits DEF Types, RowsSane
<1>4. OneAlone' /\ \A i \in Slot : CheckShape(check[i])' /\ Course(check[i])'
  BY <1>2, IdleCheck DEF OneAlone, CheckShape, Course, Mid
<1>5. ASSUME NEW r \in DOMAIN rules, NEW s \in Severity
      PROVE  Agrees(rows[r][s], SeenOfMet[r][s], rules[r].polls)
  <2>1. CASE \A i \in Slot : Mid(check[i]) => check[i].rule # r
    BY <2>1, RestAfterMeeting
  <2>2. CASE \E i \in Slot : Mid(check[i]) /\ check[i].rule = r
    <3>1. r \in Rule /\ rules[r] \in Settings /\ rows[r][s] \in Row
      BY <1>1 DEF Types
    <3>2. SeenOfMet[r][s] = Unseen
      BY <2>2, <3>1 DEF SeenOfMet, Running, Mid
    <3> QED
      BY <3>1, <3>2, NothingKnown
  <2> QED
    BY <2>1, <2>2
<1>6. Resting'
  BY <1>2, <1>5 DEF Resting
<1> QED
  BY <1>3, <1>4, <1>6 DEF AlertsInv

\* A step that changes nothing.
LEMMA StutterKeeps == ASSUME AlertsInv, UNCHANGED vars PROVE AlertsInv'
  BY DEF vars, AlertsInv, Types, RowsSane, OneAlone, Resting, CheckShape, Course, Known

\* The invariant is inductive.
LEMMA NextKeeps == AlertsInv /\ [Next]_vars => AlertsInv'
<1> SUFFICES ASSUME AlertsInv, [Next]_vars PROVE AlertsInv'
  OBVIOUS
<1>1. ASSUME NEW i \in Slot, Poll(i) PROVE AlertsInv'
  BY <1>1, PollKeeps
<1>2. ASSUME NEW i \in Slot, CheckStep(i) PROVE AlertsInv'
  BY <1>2, ReadRulesKeeps, GetStateKeeps, LookKeeps, PutKeeps, RecordEventKeeps DEF CheckStep
<1>3. CASE CreateRule
  BY <1>3, CreateRuleKeeps
<1>4. CASE UpdateRule
  BY <1>4, UpdateRuleKeeps
<1>5. CASE DeleteRule
  BY <1>5, DeleteRuleKeeps
<1>6. CASE AssignPreset \/ RemoveAssignment
  BY <1>6, AssignKeeps DEF AssignPreset, RemoveAssignment
<1>7. CASE Measure
  BY <1>7, MeasureKeeps
<1>8. CASE Restart
  BY <1>8, RestartKeeps
<1>9. CASE UNCHANGED vars
  BY <1>9, StutterKeeps
<1> QED
  BY <1>1, <1>2, <1>3, <1>4, <1>5, <1>6, <1>7, <1>8, <1>9 DEF Next

\* When no check runs, every rule is one that nobody works on.
LEMMA InvImplies == AlertsInv => TypeOK /\ StateFollowsPolls /\ ToldOnce
<1> SUFFICES ASSUME AlertsInv PROVE TypeOK /\ StateFollowsPolls /\ ToldOnce
  OBVIOUS
<1>1. TypeOK
  BY DEF AlertsInv, Types, TypeOK, Check
<1>2. ASSUME Quiet, NEW r \in DOMAIN rules, NEW s \in Severity
      PROVE  /\ Agrees(rows[r][s], seen[r][s], rules[r].polls)
             /\ seen[r][s].streak \in Nat /\ rules[r].polls \in Nat
  <2>1. r \in Rule /\ rules[r] \in Settings /\ seen[r][s] \in Seen
    BY DEF AlertsInv, Types
  <2>2. \A i \in Slot : ~Mid(check[i])
    BY <1>2 DEF Quiet, Running, Mid
  <2> QED
    BY <2>1, <2>2, SettingFields DEF AlertsInv, Resting, Seen
<1>3. StateFollowsPolls
  <2> SUFFICES ASSUME Quiet, NEW r \in DOMAIN rules, NEW s \in Severity
               PROVE  /\ seen[r][s].streak >= rules[r].polls => Firing(r, s)
                      /\ seen[r][s].known /\ seen[r][s].streak < rules[r].polls => ~Firing(r, s)
    BY DEF StateFollowsPolls, Severities
  <2> QED
    BY <1>2 DEF Agrees, Firing
<1>4. ToldOnce
  BY <1>2 DEF ToldOnce, Agrees, Firing
<1> QED
  BY <1>1, <1>3, <1>4

------------------------------------------------------------------------------
\* Rules, rows and checks keep the fields and values the tables and the code allow.
THEOREM TypeCorrect == Spec => []TypeOK
<1>1. Init => AlertsInv
  BY InitInv
<1>2. AlertsInv /\ [Next]_vars => AlertsInv'
  BY NextKeeps
<1>3. AlertsInv => TypeOK
  BY InvImplies
<1> QED
  BY <1>1, <1>2, <1>3, PTL DEF Spec

\* For any number of checks that overlap in any way, with edits and restarts among them:
\* when no check runs, an alert fires if the last polls, as many as its rule asks for,
\* breached its threshold, and since a poll that did not, it fires only then.
THEOREM StateFollowsPollsCorrect == Spec => []StateFollowsPolls
<1>1. Init => AlertsInv
  BY InitInv
<1>2. AlertsInv /\ [Next]_vars => AlertsInv'
  BY NextKeeps
<1>3. AlertsInv => StateFollowsPolls
  BY InvImplies
<1> QED
  BY <1>1, <1>2, <1>3, PTL DEF Spec

\* Of checks that met nothing else, no event repeats the one before, and the latest event
\* says what the state says.
THEOREM ToldOnceCorrect == Spec => []ToldOnce
<1>1. Init => AlertsInv
  BY InitInv
<1>2. AlertsInv /\ [Next]_vars => AlertsInv'
  BY NextKeeps
<1>3. AlertsInv => ToldOnce
  BY InvImplies
<1> QED
  BY <1>1, <1>2, <1>3, PTL DEF Spec

==============================================================================
