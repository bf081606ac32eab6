---------------------------- MODULE Views_proofs ----------------------------
(***************************************************************************)
(* What the screens owe their user, for every set of screens, subjects and *)
(* rows, and for any number of clicks, selections and ticks.               *)
(*                                                                         *)
(* ShowsInv says what the guard of an effect is for: among the loads under *)
(* way, those that still count belong to the subject selected, and when    *)
(* the screen shows another subject one of them is on its way.             *)
(* Base says that the state is well formed and that clicks are numbered.   *)
(* FlagInv says which call holds which flag, and who has the guard's slot. *)
(* OwnInv says where the user's own changes are while loads are under way. *)
(***************************************************************************)
EXTENDS Views, FiniteSetTheorems, TLAPS

\* The fields of a load and of a call.
LoadShape(l) == l = [id |-> l.id, key |-> l.key, seen |-> l.seen, served |-> l.served,
                     live |-> l.live, for |-> l.for]
CallShape(c) == c = [id |-> c.id, op |-> c.op, row |-> c.row, key |-> c.key,
                     stage |-> c.stage, ran |-> c.ran, sure |-> c.sure, guard |-> c.guard]
ShownShape == shown = None \/ shown = [key |-> shown.key, seen |-> shown.seen]
Flags == rushed \in BOOLEAN /\ failed \in BOOLEAN
Shapes == /\ \A l \in loads : LoadShape(l)
          /\ \A c \in calls : CallShape(c) /\ c.op \in screen.ops

\* Loads that may still be shown belong to the selected subject, and a screen that
\* shows another subject waits for one of them, or has reported a failure.
LiveLoadsFit == \A l \in loads : l.live => l.key = subject
Catching == shown # None /\ shown.key # subject /\ ~failed => \E l \in loads : l.live

\* A request of a user who waits for every answer belongs to the selected subject.
CallsFit == ~rushed => \A c \in Running : c.key = subject

ShowsInv ==
  /\ screen \in Screens
  /\ Shapes /\ ShownShape /\ Flags
  /\ screen.load = "none" => loads = {} /\ shown = None
  /\ screen.load = "plain" => \A l \in loads : l.live
  /\ CallsFit
  /\ Sieved \/ ~rushed => LiveLoadsFit /\ Catching

\* A load that starts is live, of the subject asked for.
LEMMA LoadIsLive ==
  ASSUME NEW k, NEW i
  PROVE  Load(k, i).live /\ Load(k, i).key = k /\ LoadShape(Load(k, i))
  BY DEF Load, LoadShape

\* A load that is retired keeps its other fields.
LEMMA RetiredLoad ==
  ASSUME NEW l, NEW b, LoadShape(l)
  PROVE  LET m == [l EXCEPT !.live = b] IN LoadShape(m) /\ m.live = b
  BY DEF LoadShape

\* The loads that were under way keep their shape when they are retired, and none
\* of them counts any longer, unless every answer is shown.
LEMMA RetiredLoads ==
  ASSUME NEW ls, \A l \in ls : LoadShape(l)
  PROVE  /\ \A l \in Retired(ls) : LoadShape(l)
         /\ screen.load # "plain" => \A l \in Retired(ls) : ~l.live
         /\ screen.load = "plain" => Retired(ls) = ls
<1>1. CASE screen.load # "plain"
  <2>1. \A l \in ls : LET m == [l EXCEPT !.live = FALSE] IN LoadShape(m) /\ m.live = FALSE
    BY RetiredLoad
  <2>2. Retired(ls) = {[l EXCEPT !.live = FALSE] : l \in ls}
    BY <1>1 DEF Retired
  <2> HIDE DEF LoadShape
  <2> QED BY <1>1, <2>1, <2>2
<1>2. CASE screen.load = "plain"
  BY <1>2 DEF Retired
<1> QED BY <1>1, <1>2

\* A load that is joined counts, and keeps its subject and what it has seen.
LEMMA JoinedLoad ==
  ASSUME NEW l, NEW i, LoadShape(l)
  PROVE  /\ LoadShape(Joined(l, i)) /\ Joined(l, i).live /\ Joined(l, i).key = l.key
         /\ Joined(l, i).served = l.served /\ Joined(l, i).seen = l.seen
         /\ Joined(l, i).for = l.for \cup i
<1> DEFINE n == [l EXCEPT !.live = TRUE]
<1>1. /\ LoadShape(n) /\ n.live = TRUE /\ n.key = l.key /\ n.served = l.served
      /\ n.seen = l.seen /\ n.for = l.for
  <2>1. LoadShape(n) /\ n.live = TRUE
    BY RetiredLoad
  <2>2. n.key = l.key /\ n.served = l.served
    BY DEF LoadShape
  <2>3. n.seen = l.seen /\ n.for = l.for
    BY DEF LoadShape
  <2> QED BY <2>1, <2>2, <2>3
<1>2. Joined(l, i) = [n EXCEPT !.for = l.for \cup i]
  <2>1. [n EXCEPT !.for = n.for \cup i] = [l EXCEPT !.live = TRUE, !.for = @ \cup i]
    BY DEF LoadShape
  <2>2. n.for = l.for
    BY <1>1
  <2> QED BY <2>1, <2>2 DEF Joined
<1> HIDE DEF n
<1> QED BY <1>1, <1>2 DEF LoadShape

\* A load begins: it is the only one that counts, on a screen that retires the
\* earlier ones or when there was no other.
LEMMA StartedLoads ==
  ASSUME NEW k, NEW i, StartLoad(k, i), screen' = screen, \A l \in loads : LoadShape(l),
         screen.load = "plain" => \A l \in loads : l.live
  PROVE  /\ \A l \in loads' : LoadShape(l)
         /\ \E l \in loads' : l.live
         /\ screen.load = "plain" => \A l \in loads' : l.live
         /\ Sieved \/ loads = {} => \A l \in loads' : l.live => l.key = k
<1> DEFINE old == Retired(loads \ Fetching(k))
<1>1. PICK w : loads' = old \cup {Load(k, w)}
  BY DEF StartLoad
<1>2. /\ \A l \in old : LoadShape(l)
      /\ screen.load # "plain" => \A l \in old : ~l.live
      /\ screen.load = "plain" => old = loads \ Fetching(k)
  BY RetiredLoads
<1>3. loads = {} => old = {}
  BY DEF Retired
<1>4. Load(k, w).live /\ Load(k, w).key = k /\ LoadShape(Load(k, w))
  BY LoadIsLive
<1> HIDE DEF LoadShape, old
<1>5. CASE screen.load # "plain"
  BY <1>1, <1>2, <1>3, <1>4, <1>5
<1>6. CASE screen.load = "plain"
  BY <1>1, <1>2, <1>3, <1>4, <1>6 DEF Sieved
<1> QED BY <1>5, <1>6

\* The fetch of a subject is joined: it alone counts.
LEMMA JoinedLoads ==
  ASSUME NEW k, NEW i, NEW told, JoinLoad(k, i, told), \A l \in loads : LoadShape(l),
         screen.load = "query"
  PROVE  /\ \A l \in loads' : LoadShape(l)
         /\ Fetching(k) # {} => \E l \in loads' : l.live
         /\ \A l \in loads' : l.live => l.key = k
<1> DEFINE old == Retired(loads \ Fetching(k))
           new == {Joined(l, i) : l \in Fetching(k)}
<1>1. loads' = old \cup new
  BY DEF JoinLoad
<1>2. (\A l \in old : LoadShape(l)) /\ (\A l \in old : ~l.live)
  <2>1. \A l \in loads \ Fetching(k) : LoadShape(l)
    OBVIOUS
  <2> QED BY <2>1, RetiredLoads
<1>3. \A l \in Fetching(k) : LoadShape(l) /\ l.key = k
  BY DEF Fetching
<1>4. \A l \in new : LoadShape(l) /\ l.live /\ l.key = k
  BY <1>3, JoinedLoad
<1>5. Fetching(k) # {} => new # {}
  OBVIOUS
<1> HIDE DEF LoadShape, old, new
<1> QED BY <1>1, <1>2, <1>4, <1>5

\* What a reload, or another subject, does to the loads.
Loading(k) == \/ \E i : StartLoad(k, i)
              \/ /\ screen.load = "query"
                 /\ \E i, told : JoinLoad(k, i, told)
                 /\ Fetching(k) # {} \/ shown' = None \/ shown'.key = k

LEMMA ReloadLoads ==
  ASSUME NEW k, NEW i, NEW told, Reload(k, i, told)
  PROVE  Loading(k)
<1>1. CASE Fetching(k) # {} /\ ~HasData(k)
  BY <1>1 DEF Reload, Loading, Fetching
<1>2. CASE ~(Fetching(k) # {} /\ ~HasData(k))
  BY <1>2 DEF Reload, Loading
<1> QED BY <1>1, <1>2

\* A call that moves on keeps its operation and its subject.
LEMMA MovedCall ==
  ASSUME NEW c, NEW s, CallShape(c)
  PROVE  LET d == [c EXCEPT !.stage = s]
         IN  CallShape(d) /\ d.op = c.op /\ d.key = c.key /\ d.stage = s
  BY DEF CallShape

LEMMA MovedCalls ==
  ASSUME NEW c \in calls, NEW s, Move(c, s), Shapes, screen' = screen
  PROVE  /\ \A d \in calls' : CallShape(d) /\ d.op \in screen.ops
         /\ \A d \in Running' : d \in Running \/ (d.key = c.key /\ s \notin Ended)
<1>1. calls' = (calls \ {c}) \cup {[c EXCEPT !.stage = s]}
  BY DEF Move
<1>2. LET d == [c EXCEPT !.stage = s]
      IN  CallShape(d) /\ d.op = c.op /\ d.key = c.key /\ d.stage = s
  BY MovedCall DEF Shapes
<1> QED BY <1>1, <1>2 DEF Shapes, Running

\* A call that changes another field on the way.
LEMMA RunCall ==
  ASSUME NEW c, NEW s, NEW b, CallShape(c)
  PROVE  LET d == [c EXCEPT !.stage = s, !.ran = b]
         IN  CallShape(d) /\ d.op = c.op /\ d.key = c.key
<1> DEFINE m == [c EXCEPT !.stage = s]
<1>1. CallShape(m) /\ m.op = c.op /\ m.key = c.key
  BY MovedCall
<1>2. [c EXCEPT !.stage = s, !.ran = b] = [m EXCEPT !.ran = b]
  OBVIOUS
<1> HIDE DEF m
<1>3. LET d == [m EXCEPT !.ran = b]
      IN  CallShape(d) /\ d.op = m.op /\ d.key = m.key
  BY <1>1 DEF CallShape
<1> QED BY <1>1, <1>2, <1>3

LEMMA ConfirmedCall ==
  ASSUME NEW c, NEW s, NEW b, CallShape(c)
  PROVE  LET d == [c EXCEPT !.stage = s, !.sure = b]
         IN  CallShape(d) /\ d.op = c.op /\ d.key = c.key
<1> DEFINE m == [c EXCEPT !.stage = s]
<1>1. CallShape(m) /\ m.op = c.op /\ m.key = c.key
  BY MovedCall
<1>2. [c EXCEPT !.stage = s, !.sure = b] = [m EXCEPT !.sure = b]
  OBVIOUS
<1> HIDE DEF m
<1>3. LET d == [m EXCEPT !.sure = b]
      IN  CallShape(d) /\ d.op = m.op /\ d.key = m.key
  BY <1>1 DEF CallShape
<1> QED BY <1>1, <1>2, <1>3

LEMMA WarnedCall ==
  ASSUME NEW c, NEW s, NEW b, CallShape(c)
  PROVE  LET d == [c EXCEPT !.stage = s, !.guard = b]
         IN  CallShape(d) /\ d.op = c.op /\ d.key = c.key
<1> DEFINE m == [c EXCEPT !.stage = s]
<1>1. CallShape(m) /\ m.op = c.op /\ m.key = c.key
  BY MovedCall
<1>2. [c EXCEPT !.stage = s, !.guard = b] = [m EXCEPT !.guard = b]
  OBVIOUS
<1> HIDE DEF m
<1>3. LET d == [m EXCEPT !.guard = b]
      IN  CallShape(d) /\ d.op = m.op /\ d.key = m.key
  BY <1>1 DEF CallShape
<1> QED BY <1>1, <1>2, <1>3

\* What the calls must keep to in a step that leaves rushed as it is.
CallsKept == /\ \A d \in calls' : CallShape(d) /\ d.op \in screen.ops
             /\ \A d \in Running' : \E c \in Running : c.key = d.key

LEMMA MoveKeeps ==
  ASSUME NEW c \in Running, NEW s, Move(c, s), Shapes, screen' = screen
  PROVE  CallsKept
<1>1. c \in calls
  BY DEF Running
<1>2. \A d \in calls' : CallShape(d) /\ d.op \in screen.ops
  BY <1>1, MovedCalls
<1>3. \A d \in Running' : d \in Running \/ d.key = c.key
  BY <1>1, MovedCalls
<1> QED BY <1>2, <1>3 DEF CallsKept

\* A step of the calls alone.
LEMMA CallsOnly ==
  ASSUME ShowsInv, CallsKept, UNCHANGED <<screen, subject, shown, loads, failed>>,
         Flags', rushed => rushed'
  PROVE  ShowsInv'
<1>1. Shapes'
  BY DEF ShowsInv, Shapes, CallsKept
<1>2. CallsFit'
  BY DEF ShowsInv, CallsFit, CallsKept
<1>3. /\ LiveLoadsFit' = LiveLoadsFit /\ Catching' = Catching /\ ShownShape' = ShownShape
      /\ Sieved' = Sieved
  BY DEF LiveLoadsFit, Catching, ShownShape, Sieved
<1> QED BY <1>1, <1>2, <1>3 DEF ShowsInv

\* The screen is gone.
LEMMA Unmounted ==
  ASSUME ShowsInv, CallsKept, Unmount, screen' = screen, subject' = subject,
         Flags', rushed => rushed'
  PROVE  ShowsInv'
<1>1. loads' = {} /\ shown' = None
  BY DEF Unmount
<1>2. Shapes'
  BY <1>1 DEF ShowsInv, Shapes, CallsKept
<1>3. CallsFit'
  BY DEF ShowsInv, CallsFit, CallsKept
<1>4. LiveLoadsFit' /\ Catching' /\ ShownShape'
  BY <1>1 DEF LiveLoadsFit, Catching, ShownShape
<1> QED BY <1>1, <1>2, <1>3, <1>4 DEF ShowsInv

\* A load of the selected subject begins or is joined, on a screen that retires the
\* others or when no other load is under way, or the user did not wait.
LEMMA Reloading ==
  ASSUME ShowsInv, NEW k, Loading(k), screen' = screen,
         screen.load # "none", ShownShape', Flags',
         \A d \in calls' : CallShape(d) /\ d.op \in screen.ops,
         CallsFit',
         Sieved \/ ~rushed' => k = subject',
         Sieved \/ ~rushed' => Sieved \/ loads = {}
  PROVE  ShowsInv'
<1>1. ASSUME \A l \in loads' : LoadShape(l),
             (\E l \in loads' : l.live) \/ shown' = None \/ shown'.key = k,
             screen.load = "plain" => \A l \in loads' : l.live,
             Sieved \/ loads = {} => \A l \in loads' : l.live => l.key = k
      PROVE  ShowsInv'
  <2>1. Shapes'
    BY <1>1 DEF Shapes
  <2>2. ASSUME Sieved \/ ~rushed'
        PROVE  LiveLoadsFit' /\ Catching'
    BY <1>1, <2>2 DEF LiveLoadsFit, Catching
  <2>3. Sieved' = Sieved
    BY DEF Sieved
  <2> QED BY <1>1, <2>1, <2>2, <2>3 DEF ShowsInv
<1>2. ASSUME NEW i, StartLoad(k, i) PROVE ShowsInv'
  <2>1. /\ \A l \in loads' : LoadShape(l)
        /\ \E l \in loads' : l.live
        /\ screen.load = "plain" => \A l \in loads' : l.live
        /\ Sieved \/ loads = {} => \A l \in loads' : l.live => l.key = k
    BY <1>2, StartedLoads DEF ShowsInv, Shapes
  <2> QED BY <1>1, <2>1
<1>3. ASSUME screen.load = "query", NEW i, NEW told, JoinLoad(k, i, told),
             Fetching(k) # {} \/ shown' = None \/ shown'.key = k
      PROVE  ShowsInv'
  <2>1. /\ \A l \in loads' : LoadShape(l)
        /\ Fetching(k) # {} => \E l \in loads' : l.live
        /\ \A l \in loads' : l.live => l.key = k
    BY <1>3, JoinedLoads DEF ShowsInv, Shapes
  <2> QED BY <1>1, <1>3, <2>1
<1> QED BY <1>2, <1>3 DEF Loading

\* A patch adds a change to the data shown and keeps their subject.
LEMMA PatchKeeps ==
  ASSUME NEW c, ShownShape, Patches(c) \/ Stays(c)
  PROVE  ShownShape' /\ (shown' # None => shown # None /\ shown'.key = shown.key)
<1>1. CASE shown' = shown
  BY <1>1 DEF ShownShape
<1>2. CASE shown # None /\ shown' = [shown EXCEPT !.seen = @ \cup {c.id}]
  <2>1. PICK k, e : shown = [key |-> k, seen |-> e]
    BY <1>2 DEF ShownShape
  <2>2. shown' = [key |-> k, seen |-> e \cup {c.id}]
    BY <1>2, <2>1
  <2> QED BY <1>2, <2>1, <2>2 DEF ShownShape
<1> QED BY <1>1, <1>2 DEF Patches, Stays

\* A load that is served keeps its subject and whether it counts.
LEMMA ServedLoad ==
  ASSUME NEW l, NEW b, NEW e, LoadShape(l)
  PROVE  LET m == [l EXCEPT !.served = b, !.seen = e]
         IN  LoadShape(m) /\ m.key = l.key /\ m.live = l.live
<1> DEFINE n == [l EXCEPT !.served = b]
<1>1. LoadShape(n) /\ n.key = l.key /\ n.live = l.live
  BY DEF LoadShape
<1>2. [l EXCEPT !.served = b, !.seen = e] = [n EXCEPT !.seen = e]
  OBVIOUS
<1> HIDE DEF n
<1>3. LET m == [n EXCEPT !.seen = e]
      IN  LoadShape(m) /\ m.key = n.key /\ m.live = n.live
  BY <1>1 DEF LoadShape
<1> QED BY <1>1, <1>2, <1>3

\* The calls that waited for a load end with it.
LEMMA ReleaseKeeps ==
  ASSUME NEW l, Release(l), Shapes, screen' = screen
  PROVE  CallsKept
<1>1. \A c \in calls : LET d == [c EXCEPT !.stage = "ok"]
                       IN  CallShape(d) /\ d.op = c.op /\ d.key = c.key /\ d.stage = "ok"
  BY MovedCall DEF Shapes
<1>2. \A d \in calls' : d \in calls \/ \E c \in calls : d = [c EXCEPT !.stage = "ok"]
  BY DEF Release
<1> QED BY <1>1, <1>2 DEF CallsKept, Shapes, Running, Ended

\* The invariant holds when a screen is mounted.
LEMMA ShowsInvInit == Init => ShowsInv
<1> SUFFICES ASSUME Init PROVE ShowsInv
  OBVIOUS
<1>1. loads = {} \/ loads = {FirstLoad}
  BY DEF Init
<1>2. LoadShape(FirstLoad) /\ FirstLoad.live /\ FirstLoad.key = subject
  BY DEF FirstLoad, LoadShape
<1>3. shown = None \/ shown = [key |-> subject, seen |-> {}]
  BY DEF Init
<1>4. screen.load = "none" => loads = {} /\ shown = None
  BY DEF Init
<1>5. calls = {} /\ rushed = FALSE /\ failed = FALSE /\ screen \in Screens
  BY DEF Init
<1>6. Shapes
  BY <1>1, <1>2, <1>5 DEF Shapes
<1>7. ShownShape
  BY <1>3 DEF ShownShape
<1>8. LiveLoadsFit /\ Catching
  BY <1>1, <1>2, <1>3 DEF LiveLoadsFit, Catching
<1> QED BY <1>1, <1>2, <1>4, <1>5, <1>6, <1>7, <1>8 DEF ShowsInv, Flags, CallsFit, Running

\* Each step keeps it.
LEMMA ShowsInvNext == ShowsInv /\ [Next]_vars => ShowsInv'
<1> SUFFICES ASSUME ShowsInv, [Next]_vars PROVE ShowsInv'
  OBVIOUS
<1> USE DEF Ended
<1>1. ASSUME NEW k \in Subject, Select(k) PROVE ShowsInv'
  <2>1. CASE screen.load = "none"
    <3>1. loads' = loads /\ loads = {} /\ shown' = None
      BY <1>1, <2>1 DEF Select, EffectRuns, KeyChanges, ShowsInv
    <3>2. Shapes'
      BY <1>1, <3>1 DEF Select, ShowsInv, Shapes
    <3>3. CallsFit'
      BY <1>1 DEF Select, ShowsInv, CallsFit, Quiet, Running
    <3>4. ShownShape' /\ Flags' /\ LiveLoadsFit' /\ Catching'
      BY <1>1, <3>1 DEF Select, ShowsInv, ShownShape, Flags, LiveLoadsFit, Catching
    <3> QED BY <1>1, <2>1, <3>1, <3>2, <3>3, <3>4 DEF Select, ShowsInv
  <2>2. CASE screen.load # "none"
    <3>1. screen' = screen /\ subject' = k /\ calls' = calls
      BY <1>1, <2>2 DEF Select
    <3>2. CallsFit'
      BY <1>1 DEF Select, ShowsInv, CallsFit, Quiet, Running
    <3>3. ~rushed' => loads = {}
      BY <1>1 DEF Select, Quiet
    <3>4. Flags'
      BY <1>1 DEF Select, ShowsInv, Flags
    <3>5. \A d \in calls' : CallShape(d) /\ d.op \in screen.ops
      BY <3>1 DEF ShowsInv, Shapes
    <3>6. CASE EffectRuns(k)
      <4>1. Loading(k) /\ ShownShape'
        BY <2>2, <3>6 DEF EffectRuns, Loading, ShowsInv, ShownShape
      <4> QED BY <2>2, <3>1, <3>2, <3>3, <3>4, <3>5, <4>1, Reloading
    <3>7. CASE KeyChanges(k)
      <4>1. shown' = None \/ \E e : shown' = [key |-> k, seen |-> e]
        BY <3>7 DEF KeyChanges
      <4>2. ShownShape' /\ (shown' = None \/ shown'.key = k)
        BY <4>1 DEF ShownShape
      <4>3. Loading(k)
        BY <3>7, <4>2 DEF KeyChanges, Loading
      <4> QED BY <2>2, <3>1, <3>2, <3>3, <3>4, <3>5, <4>2, <4>3, Reloading
    <3> QED BY <1>1, <3>6, <3>7 DEF Select
  <2> QED BY <2>1, <2>2
<1>2. ASSUME Tick PROVE ShowsInv'
  <2>1. screen.load # "none"
    BY <1>2, ScreensAssumption DEF Tick, ShowsInv
  <2>2. UNCHANGED <<screen, subject, shown, calls, failed>> /\ (rushed => rushed')
    BY <1>2 DEF Tick
  <2>3. CallsFit' /\ (~rushed' => loads = {})
    BY <1>2 DEF Tick, ShowsInv, CallsFit, Quiet, Running
  <2>4. ShownShape' /\ Flags'
    BY <1>2 DEF Tick, ShowsInv, ShownShape, Flags
  <2>5. \A d \in calls' : CallShape(d) /\ d.op \in screen.ops
    BY <2>2 DEF ShowsInv, Shapes
  <2>6. CASE Reload(subject, {}, {})
    <3>1. Loading(subject)
      BY <2>6, ReloadLoads
    <3> QED BY <2>1, <2>2, <2>3, <2>4, <2>5, <3>1, Reloading
  <2>7. CASE loads' = loads
    <3>1. CallsKept
      BY <2>2, <2>5 DEF CallsKept, Running
    <3> QED BY <2>2, <2>4, <2>7, <3>1, CallsOnly
  <2> QED BY <1>2, <2>6, <2>7 DEF Tick
<1>3. ASSUME NEW o \in screen.ops, NEW r \in Row, Click(o, r) PROVE ShowsInv'
  <2> DEFINE d == [id |-> Cardinality(calls) + 1, op |-> o, row |-> r, key |-> subject,
                   stage |-> "sent", ran |-> FALSE, sure |-> FALSE, guard |-> None]
  <2>1. /\ calls' = calls \cup {d}
        /\ UNCHANGED <<screen, subject, shown, loads, failed>>
    BY <1>3 DEF Click
  <2>2. CallShape(d) /\ d.op = o /\ d.key = subject
    BY DEF CallShape
  <2>3. Shapes'
    BY <2>1, <2>2 DEF ShowsInv, Shapes
  <2>4. CallsFit' /\ (~rushed' => ~rushed)
    BY <1>3, <2>1, <2>2 DEF Click, ShowsInv, CallsFit, Quiet, Running
  <2>5. /\ ShownShape' /\ Flags'
        /\ LiveLoadsFit' = LiveLoadsFit /\ Catching' = Catching /\ Sieved' = Sieved
    BY <1>3, <2>1 DEF Click, ShowsInv, ShownShape, Flags, LiveLoadsFit, Catching, Sieved
  <2> QED BY <2>1, <2>3, <2>4, <2>5 DEF ShowsInv
<1>4. ASSUME Leave PROVE ShowsInv'
  <2>1. \A c \in calls : \A s \in {"ok", "error"} :
          LET d == [c EXCEPT !.stage = s]
          IN  CallShape(d) /\ d.op = c.op /\ d.key = c.key /\ d.stage = s
    BY MovedCall DEF ShowsInv, Shapes
  <2>2. \A d \in calls' : d \in calls \/ \E c \in calls : \E s \in {"ok", "error"} :
                                            d = [c EXCEPT !.stage = s]
    BY <1>4 DEF Leave
  <2>4. Unmount /\ Flags' /\ UNCHANGED <<screen, subject, rushed>>
    BY <1>4 DEF Leave, ShowsInv, Flags
  <2>5. ASSUME NEW d \in calls'
        PROVE  /\ CallShape(d) /\ d.op \in screen.ops
               /\ d.stage \notin Ended => \E c \in Running : c.key = d.key
    <3>1. CASE d \in calls
      BY <3>1 DEF ShowsInv, Shapes, Running
    <3>2. CASE \E c \in calls : \E s \in {"ok", "error"} : d = [c EXCEPT !.stage = s]
      <4>1. PICK c \in calls, s \in {"ok", "error"} : d = [c EXCEPT !.stage = s]
        BY <3>2
      <4>2. CallShape(d) /\ d.op = c.op /\ d.stage = s
        BY <2>1, <4>1
      <4> QED BY <4>2 DEF ShowsInv, Shapes
    <3> QED BY <2>2, <3>1, <3>2
  <2>6. \A d \in Running' : \E c \in Running : c.key = d.key
    BY <2>5 DEF Running
  <2>3. CallsKept
    BY <2>5, <2>6 DEF CallsKept
  <2> QED BY <2>3, <2>4, Unmounted
<1>5. ASSUME NEW c \in calls, Confirm(c) \/ Cancel(c) \/ Run(c) \/ Refuse(c) \/ LoseAnswer(c)
                              \/ Unheard(c) \/ Warn(c) \/ Ask(c)
      PROVE  ShowsInv'
  <2>1. UNCHANGED <<screen, subject, shown, loads, rushed, failed>>
    BY <1>5 DEF Confirm, Cancel, Run, Refuse, LoseAnswer, Unheard, Warn, Ask
  <2>9. Flags'
    BY <2>1 DEF ShowsInv, Flags
  <2>2. c \in Running
    BY <1>5 DEF Confirm, Cancel, Run, Refuse, LoseAnswer, Unheard, Warn, Ask, Running
  <2>3. CASE \E s : Move(c, s)
    BY <2>1, <2>2, <2>3, <2>9, MoveKeeps, CallsOnly DEF ShowsInv
  <2>4. CASE \E d : /\ calls' = (calls \ {c}) \cup {d}
                    /\ CallShape(d) /\ d.op = c.op /\ d.key = c.key
    <3>1. CallsKept
      BY <2>1, <2>2, <2>4 DEF CallsKept, ShowsInv, Shapes, Running
    <3> QED BY <2>1, <2>9, <3>1, CallsOnly
  <2>5. CallShape(c)
    BY DEF ShowsInv, Shapes
  <2>6. (\E s : Move(c, s)) \/ Run(c) \/ Confirm(c) \/ Warn(c)
    BY <1>5 DEF Cancel, Refuse, LoseAnswer, Unheard, Ask
  <2>7. CASE Run(c)
    <3> DEFINE d == [c EXCEPT !.stage = "done", !.ran = TRUE]
    <3>2. CallShape(d) /\ d.op = c.op /\ d.key = c.key
      BY <2>5, RunCall
    <3> QED BY <2>4, <2>7, <3>2 DEF Run
  <2>8. CASE Confirm(c)
    <3> DEFINE d == [c EXCEPT !.stage = "sent", !.sure = TRUE]
    <3>2. CallShape(d) /\ d.op = c.op /\ d.key = c.key
      BY <2>5, ConfirmedCall
    <3> QED BY <2>4, <2>8, <3>2 DEF Confirm
  <2>10. CASE Warn(c)
    <3>1. PICK g : calls' = (calls \ {c}) \cup {[c EXCEPT !.stage = "warned", !.guard = g]}
      BY <2>10 DEF Warn
    <3> DEFINE d == [c EXCEPT !.stage = "warned", !.guard = g]
    <3>2. CallShape(d) /\ d.op = c.op /\ d.key = c.key
      BY <2>5, WarnedCall
    <3> QED BY <2>4, <3>1, <3>2
  <2> QED BY <2>3, <2>6, <2>7, <2>8, <2>10
<1>6. ASSUME NEW c \in calls, Answered(c) PROVE ShowsInv'
  <2>1. /\ c \in Running /\ UNCHANGED <<screen, subject, failed>>
        /\ rushed' = (rushed \/ loads # {} \/ Running # {c})
    BY <1>6 DEF Answered, Running
  <2>2. \E s : Move(c, s)
    BY <1>6 DEF Answered, Closes, Reloads, AwaitsReload, Patches, Stays
  <2>3. CallsKept
    BY <2>1, <2>2, MoveKeeps DEF ShowsInv
  <2>4. CallsFit'
    BY <2>1, <2>3 DEF CallsFit, CallsKept, ShowsInv
  <2>8. Flags' /\ (rushed => rushed')
    BY <2>1 DEF ShowsInv, Flags
  <2>5. CASE Closes(c)
    BY <2>1, <2>8, <2>3, <2>5, Unmounted DEF Closes
  <2>6. CASE Reloads(c) \/ AwaitsReload(c)
    <3>1. screen.load # "none"
      BY <2>6, ScreensAssumption DEF Reloads, AwaitsReload, ShowsInv, Shapes
    <3>2. loads' = loads \/ \E i, told : Reload(Target(c), i, told)
      BY <2>6 DEF Reloads, AwaitsReload
    <3>3. Sieved \/ ~rushed => Target(c) = subject
      BY <2>1 DEF ShowsInv, CallsFit, Target, Sieved
    <3>4. shown' = shown /\ (~rushed' => ~rushed /\ loads = {})
      BY <2>1, <2>6 DEF Reloads, AwaitsReload
    <3>5. ShownShape'
      BY <3>4 DEF ShowsInv, ShownShape
    <3>6. \A d \in calls' : CallShape(d) /\ d.op \in screen.ops
      BY <2>3 DEF CallsKept
    <3>7. CASE loads' = loads
      BY <2>1, <2>3, <2>8, <3>4, <3>7, CallsOnly
    <3>8. CASE \E i, told : Reload(Target(c), i, told)
      <4>1. Loading(Target(c))
        BY <3>8, ReloadLoads
      <4>2. /\ Sieved \/ ~rushed' => Target(c) = subject'
            /\ Sieved \/ ~rushed' => Sieved \/ loads = {}
        BY <2>1, <3>3, <3>4
      <4> QED BY <2>1, <2>4, <2>8, <3>1, <3>5, <3>6, <4>1, <4>2, Reloading
    <3> QED BY <3>2, <3>7, <3>8
  <2>7. CASE Patches(c) \/ Stays(c)
    <3>1. loads' = loads /\ ShownShape' /\ (shown' # None => shown # None /\ shown'.key = shown.key)
      BY <2>7, PatchKeeps DEF Patches, Stays, ShowsInv
    <3>2. Shapes' /\ (LiveLoadsFit => LiveLoadsFit') /\ (Catching => Catching')
      BY <2>1, <2>3, <3>1 DEF ShowsInv, Shapes, CallsKept, LiveLoadsFit, Catching
    <3>3. Sieved' = Sieved
      BY <2>1 DEF Sieved
    <3> QED BY <2>1, <2>4, <2>8, <3>1, <3>2, <3>3 DEF ShowsInv
  <2> QED BY <1>6, <2>5, <2>6, <2>7 DEF Answered
<1>7. ASSUME NEW c \in calls, Failed(c) PROVE ShowsInv'
  <2>1. c \in Running /\ Move(c, "error") /\ UNCHANGED <<screen, subject, rushed, failed>>
    BY <1>7 DEF Failed, Running
  <2>2. CallsKept
    BY <2>1, MoveKeeps DEF ShowsInv
  <2>3. Unmount \/ UNCHANGED <<shown, loads>>
    BY <1>7 DEF Failed
  <2>4. Flags'
    BY <2>1 DEF ShowsInv, Flags
  <2>5. CASE Unmount
    BY <2>1, <2>2, <2>4, <2>5, Unmounted
  <2>6. CASE UNCHANGED <<shown, loads>>
    BY <2>1, <2>2, <2>4, <2>6, CallsOnly
  <2> QED BY <2>3, <2>5, <2>6
<1>8. ASSUME NEW l \in loads, Serve(l) PROVE ShowsInv'
  <2> DEFINE m == [l EXCEPT !.served = TRUE, !.seen = Changes(l.key)]
  <2>1. /\ loads' = (loads \ {l}) \cup {m}
        /\ UNCHANGED <<screen, subject, shown, calls, rushed, failed>>
    BY <1>8 DEF Serve
  <2>2. LoadShape(m) /\ m.key = l.key /\ m.live = l.live
    <3>1. LoadShape(l)
      BY DEF ShowsInv, Shapes
    <3> QED BY <3>1, ServedLoad
  <2> HIDE DEF m
  <2>3. Shapes' /\ ShownShape' /\ CallsFit'
    BY <2>1, <2>2 DEF ShowsInv, Shapes, ShownShape, CallsFit, Running
  <2>5. Flags'
    BY <2>1 DEF ShowsInv, Flags
  <2>4. (LiveLoadsFit => LiveLoadsFit') /\ (Catching => Catching')
    BY <2>1, <2>2 DEF LiveLoadsFit, Catching
  <2>6. Sieved' = Sieved
    BY <2>1 DEF Sieved
  <2> QED BY <2>1, <2>2, <2>3, <2>4, <2>5, <2>6 DEF ShowsInv
<1>9. ASSUME NEW l \in loads, Show(l) \/ LoadFails(l) PROVE ShowsInv'
  <2>1. /\ loads' = loads \ {l} /\ Release(l)
        /\ UNCHANGED <<screen, subject, rushed>>
    BY <1>9 DEF Show, LoadFails
  <2>2. CallsKept
    BY <2>1, ReleaseKeeps DEF ShowsInv
  <2>3. Shapes' /\ CallsFit'
    BY <2>1, <2>2 DEF ShowsInv, Shapes, CallsFit, CallsKept
  <2>4. LiveLoadsFit => LiveLoadsFit'
    BY <2>1 DEF LiveLoadsFit
  <2>10. Flags'
    BY <1>9, <2>1 DEF Show, LoadFails, ShowsInv, Flags
  <2>5. screen.load # "none" /\ Sieved' = Sieved
    BY <2>1 DEF ShowsInv, Sieved
  <2>6. CASE Show(l) /\ l.live
    <3>1. shown' = [key |-> l.key, seen |-> l.seen] /\ subject' = subject
      BY <2>1, <2>6 DEF Show
    <3>2. ShownShape' /\ (LiveLoadsFit => Catching')
      BY <2>6, <3>1 DEF ShownShape, LiveLoadsFit, Catching
    <3> QED BY <2>1, <2>3, <2>4, <2>5, <2>10, <3>2 DEF ShowsInv
  <2>7. CASE Show(l) /\ ~l.live
    <3>1. shown' = shown /\ subject' = subject /\ failed' = failed
      BY <2>1, <2>7 DEF Show, ShowsInv, Flags
    <3>2. ShownShape' /\ (Catching => Catching')
      BY <2>1, <2>7, <3>1 DEF ShowsInv, ShownShape, Catching
    <3> QED BY <2>1, <2>3, <2>4, <2>5, <2>10, <3>2 DEF ShowsInv
  <2>8. CASE LoadFails(l) /\ l.live
    <3>1. failed' /\ shown' \in {shown, None} /\ rushed' = rushed
      BY <2>1, <2>8 DEF LoadFails
    <3>2. ShownShape' /\ Catching'
      BY <3>1 DEF ShowsInv, ShownShape, Catching
    <3> QED BY <2>1, <2>3, <2>4, <2>5, <2>10, <3>1, <3>2 DEF ShowsInv
  <2>9. CASE LoadFails(l) /\ ~l.live
    <3>1. shown' = shown /\ subject' = subject /\ failed' = failed
      BY <2>1, <2>9 DEF LoadFails, ShowsInv, Flags
    <3>2. ShownShape' /\ (Catching => Catching')
      BY <2>1, <2>9, <3>1 DEF ShowsInv, ShownShape, Catching
    <3> QED BY <2>1, <2>3, <2>4, <2>5, <2>10, <3>2 DEF ShowsInv
  <2> QED BY <1>9, <2>6, <2>7, <2>8, <2>9
<1>10. ASSUME UNCHANGED vars PROVE ShowsInv'
  BY <1>10 DEF vars, ShowsInv, Shapes, ShownShape, Flags, CallsFit, LiveLoadsFit, Catching,
               Running, Sieved
<1> QED BY <1>1, <1>2, <1>3, <1>4, <1>5, <1>6, <1>7, <1>8, <1>9, <1>10
        DEF Next, User, CallStep, LoadStep

\* ShowsSelected holds of every screen: when every request has been answered, the
\* data on it are those of the subject selected, unless the last load that counted
\* failed, or the user of a screen without a guarded effect or a query did not wait.
THEOREM ShowsSelectedCorrect == Spec => []ShowsSelected
<1>1. ShowsInv => ShowsSelected
  BY DEF ShowsInv, ShowsSelected, Catching, Quiet
<1> QED BY <1>1, ShowsInvInit, ShowsInvNext, PTL DEF Spec

-----------------------------------------------------------------------------
(* The state of a screen is well formed                                    *)
-----------------------------------------------------------------------------
\* Clicks are numbered from 1 on, and the number tells the calls apart.
Ids == /\ \E n \in 0 .. MaxCalls : {c.id : c \in calls} = 1 .. n
       /\ \A c, d \in calls : c.id = d.id => c = d

Base == TypeOK /\ IsFiniteSet(loads) /\ Ids

\* What a call keeps from the click to its end.
Same(c, d) == d.id = c.id /\ d.op = c.op /\ d.row = c.row /\ d.key = c.key

\* What becomes of every call in a step that is not a click: g[c].
Becomes(g) ==
  /\ g \in [calls -> CallType]
  /\ calls' = {g[c] : c \in calls}
  /\ \A c \in calls : Same(c, g[c]) /\ (c.stage \in Ended => g[c] = c)

\* The calls but c stay as they are.
Only(g, c, d) == g[c] = d /\ \A x \in calls : x # c => g[x] = x

\* The fields of a call.
LEMMA CallFields ==
  ASSUME NEW c \in CallType
  PROVE  /\ c.id \in 1 .. MaxCalls /\ c.op \in screen.ops /\ c.row \in Row
         /\ c.key \in Subject /\ c.stage \in Stages /\ c.ran \in BOOLEAN /\ c.sure \in BOOLEAN
         /\ c.guard \in {None} \cup Guards
  BY DEF CallType

\* A call that goes to another stage.
LEMMA StageSet ==
  ASSUME NEW c \in CallType, NEW s \in Stages
  PROVE  LET d == [c EXCEPT !.stage = s] IN
           /\ d \in CallType /\ Same(c, d) /\ d.stage = s /\ d.ran = c.ran /\ d.sure = c.sure
           /\ d.guard = c.guard
  BY DEF CallType, Same

\* A call that is carried out.
LEMMA RanSet ==
  ASSUME NEW c \in CallType
  PROVE  LET d == [c EXCEPT !.stage = "done", !.ran = TRUE] IN
           /\ d \in CallType /\ Same(c, d) /\ d.stage = "done" /\ d.ran /\ d.sure = c.sure
           /\ d.guard = c.guard
  BY DEF CallType, Same, Stages

\* A call that is confirmed.
LEMMA SureSet ==
  ASSUME NEW c \in CallType
  PROVE  LET d == [c EXCEPT !.stage = "sent", !.sure = TRUE] IN
           /\ d \in CallType /\ Same(c, d) /\ d.stage = "sent" /\ d.ran = c.ran /\ d.sure
           /\ d.guard = c.guard
  BY DEF CallType, Same, Stages

\* A call that is warned of.
LEMMA WarnSet ==
  ASSUME NEW c \in CallType, NEW g \in Guards
  PROVE  LET d == [c EXCEPT !.stage = "warned", !.guard = g] IN
           /\ d \in CallType /\ Same(c, d) /\ d.stage = "warned" /\ d.ran = c.ran
           /\ d.sure = c.sure /\ d.guard = g
  BY DEF CallType, Same, Stages

\* One call goes on, the others stay.
LEMMA OneMoves ==
  ASSUME calls \subseteq CallType, NEW c \in Running, NEW d \in CallType, Same(c, d),
         calls' = (calls \ {c}) \cup {d}
  PROVE  \E g : Becomes(g) /\ Only(g, c, d)
<1> DEFINE g == [x \in calls |-> IF x = c THEN d ELSE x]
<1>1. c \in calls /\ c.stage \notin Ended
  BY DEF Running
<1>2. g \in [calls -> CallType]
  OBVIOUS
<1>3. g[c] = d /\ \A x \in calls : x # c => g[x] = x
  BY <1>1
<1> HIDE DEF g
<1>4. calls' = {g[x] : x \in calls}
  BY <1>1, <1>3
<1>5. \A x \in calls : Same(x, g[x]) /\ (x.stage \in Ended => g[x] = x)
  BY <1>1, <1>3 DEF Same
<1> QED BY <1>2, <1>3, <1>4, <1>5 DEF Becomes, Only

\* A move of the stage.
LEMMA MoveBecomes ==
  ASSUME calls \subseteq CallType, NEW c \in Running, NEW s \in Stages, Move(c, s)
  PROVE  \E g : /\ Becomes(g) /\ \A x \in calls : x # c => g[x] = x
                /\ g[c].stage = s /\ g[c].ran = c.ran /\ g[c].sure = c.sure
                /\ g[c].guard = c.guard
<1> DEFINE d == [c EXCEPT !.stage = s]
<1>1. c \in CallType
  BY DEF Running
<1>2. /\ d \in CallType /\ Same(c, d) /\ d.stage = s /\ d.ran = c.ran /\ d.sure = c.sure
      /\ d.guard = c.guard
  BY <1>1, StageSet
<1>3. calls' = (calls \ {c}) \cup {d}
  BY DEF Move
<1> HIDE DEF d
<1>4. PICK g : Becomes(g) /\ Only(g, c, d)
  BY <1>2, <1>3, OneMoves
<1> QED BY <1>2, <1>4 DEF Only

\* The calls that wait for a load end.
Waits(c, l) == c.id \in l.for /\ c.stage = "reloading"
Done(c, d) == d.stage = "ok" /\ d.ran = c.ran /\ d.sure = c.sure /\ d.guard = c.guard

LEMMA ReleaseBecomes ==
  ASSUME calls \subseteq CallType, NEW l, Release(l)
  PROVE  \E g : /\ Becomes(g)
                /\ \A c \in calls : IF Waits(c, l) THEN Done(c, g[c]) ELSE g[c] = c
<1> DEFINE waiting == {c \in calls : c.id \in l.for /\ c.stage = "reloading"}
           e(c) == [c EXCEPT !.stage = "ok"]
           g == [c \in calls |-> IF c \in waiting THEN e(c) ELSE c]
<1>1. \A c \in calls : e(c) \in CallType /\ Same(c, e(c)) /\ Done(c, e(c))
  BY StageSet DEF Stages, Done
<1>2. calls' = (calls \ waiting) \cup {e(c) : c \in waiting}
  BY DEF Release
<1> HIDE DEF e
<1>3. g \in [calls -> CallType] /\ \A c \in calls : g[c] = IF c \in waiting THEN e(c) ELSE c
  BY <1>1
<1> HIDE DEF g
<1>4. calls' = {g[c] : c \in calls}
  BY <1>2, <1>3
<1>5. \A c \in calls : Same(c, g[c]) /\ (c.stage \in Ended => g[c] = c)
  BY <1>1, <1>3 DEF Same, Ended
<1>6. Becomes(g)
  BY <1>3, <1>4, <1>5 DEF Becomes
<1> QED BY <1>1, <1>3, <1>6 DEF Waits

\* Leaving the page.
LEMMA LeaveBecomes ==
  ASSUME calls \subseteq CallType, Leave
  PROVE  \E g : /\ Becomes(g)
                /\ \A c \in calls : g[c].stage = CASE c.stage = "reloading" -> "ok"
                                                   [] c.stage = "asked" -> "error"
                                                   [] OTHER -> c.stage
                /\ \A c \in calls : /\ g[c].ran = c.ran /\ g[c].sure = c.sure
                                    /\ g[c].guard = c.guard
<1> DEFINE e(c) == CASE c.stage = "reloading" -> [c EXCEPT !.stage = "ok"]
                     [] c.stage = "asked" -> [c EXCEPT !.stage = "error"]
                     [] OTHER -> c
           g == [c \in calls |-> e(c)]
<1>1. ASSUME NEW c \in calls
      PROVE  /\ e(c) \in CallType /\ Same(c, e(c))
             /\ e(c).stage = CASE c.stage = "reloading" -> "ok"
                               [] c.stage = "asked" -> "error"
                               [] OTHER -> c.stage
             /\ e(c).ran = c.ran /\ e(c).sure = c.sure /\ e(c).guard = c.guard
             /\ c.stage \in Ended => e(c) = c
  <2>1. "ok" \in Stages /\ "error" \in Stages /\ c \in CallType
    BY DEF Stages
  <2>2. CASE c.stage = "reloading"
    <3>1. e(c) = [c EXCEPT !.stage = "ok"]
      BY <2>2
    <3> HIDE DEF e
    <3>2. /\ e(c) \in CallType /\ Same(c, e(c)) /\ e(c).stage = "ok"
          /\ e(c).ran = c.ran /\ e(c).sure = c.sure /\ e(c).guard = c.guard
      BY <2>1, <3>1, StageSet
    <3> QED BY <2>2, <3>2 DEF Ended
  <2>3. CASE c.stage = "asked"
    <3>1. e(c) = [c EXCEPT !.stage = "error"]
      BY <2>3
    <3> HIDE DEF e
    <3>2. /\ e(c) \in CallType /\ Same(c, e(c)) /\ e(c).stage = "error"
          /\ e(c).ran = c.ran /\ e(c).sure = c.sure /\ e(c).guard = c.guard
      BY <2>1, <3>1, StageSet
    <3> QED BY <2>3, <3>2 DEF Ended
  <2>4. CASE c.stage # "reloading" /\ c.stage # "asked"
    <3>1. e(c) = c
      BY <2>4
    <3> QED BY <2>1, <2>4, <3>1 DEF Same
  <2> QED BY <2>2, <2>3, <2>4
<1>2. calls' = {e(c) : c \in calls}
  BY DEF Leave
<1> HIDE DEF e
<1>3. g \in [calls -> CallType] /\ \A c \in calls : g[c] = e(c)
  BY <1>1
<1> HIDE DEF g
<1>4. calls' = {g[c] : c \in calls}
  BY <1>2, <1>3
<1>5. Becomes(g)
  BY <1>1, <1>3, <1>4 DEF Becomes
<1> QED BY <1>1, <1>3, <1>5

\* Calls that go on keep their numbers.
LEMMA IdsKept ==
  ASSUME Ids, NEW g, Becomes(g)
  PROVE  Ids'
<1>1. \A c, d \in calls' : c.id = d.id => c = d
  BY DEF Ids, Becomes, Same
<1>2. {d.id : d \in calls'} = {c.id : c \in calls}
  BY DEF Becomes, Same
<1> QED BY <1>1, <1>2 DEF Ids

\* The first n numbers.
LEMMA UpTo ==
  ASSUME NEW n \in Nat
  PROVE  IsFiniteSet(1 .. n) /\ Cardinality(1 .. n) = n
<1>1. n \in Int /\ 1 \in Int
  OBVIOUS
<1>2. IsFiniteSet(1 .. n) /\ Cardinality(1 .. n) = IF 1 > n THEN 0 ELSE n - 1 + 1
  BY <1>1, FS_Interval
<1> QED BY <1>2

\* The numbers count the clicks.
LEMMA IdsCount ==
  ASSUME Ids
  PROVE  Cardinality(calls) \in Nat /\ {c.id : c \in calls} = 1 .. Cardinality(calls)
<1>1. PICK n \in 0 .. MaxCalls : {c.id : c \in calls} = 1 .. n
  BY DEF Ids
<1> DEFINE f == [c \in calls |-> c.id]
<1>2. f \in [calls -> 1 .. n] /\ \A c \in calls : f[c] = c.id
  BY <1>1
<1>3. DOMAIN f = calls
  OBVIOUS
<1> HIDE DEF f
<1>4. f \in Injection(calls, 1 .. n)
  BY <1>2, <1>3 DEF Injection, IsInjective, Ids
<1>5. f \in Surjection(calls, 1 .. n)
  BY <1>1, <1>2 DEF Surjection
<1>6. n \in Nat /\ IsFiniteSet(1 .. n) /\ Cardinality(1 .. n) = n
  BY BoundsAssumption, UpTo
<1>7. Cardinality(calls) = n
  BY <1>4, <1>5, <1>6, FS_Injection
<1> QED BY <1>1, <1>6, <1>7

\* There is a number for one load more.
LEMMA FreshIdType ==
  ASSUME IsFiniteSet(loads)
  PROVE  FreshId \in Nat
<1> DEFINE k == Cardinality(loads)
<1>1. k \in Nat
  BY FS_CardinalityType
<1>2. \E n \in 1 .. k + 1 : \A l \in loads : l.id # n
  <2> SUFFICES ASSUME \A n \in 1 .. k + 1 : \E l \in loads : l.id = n PROVE FALSE
    OBVIOUS
  <2> DEFINE f == [n \in 1 .. k + 1 |-> CHOOSE l \in loads : l.id = n]
  <2>1. f \in [1 .. k + 1 -> loads] /\ \A n \in 1 .. k + 1 : f[n].id = n
    OBVIOUS
  <2>2. DOMAIN f = 1 .. k + 1
    OBVIOUS
  <2> HIDE DEF f
  <2>3. f \in Injection(1 .. k + 1, loads)
    BY <2>1, <2>2 DEF Injection, IsInjective
  <2>4. Cardinality(1 .. k + 1) <= k
    BY <2>3, FS_Injection
  <2>5. Cardinality(1 .. k + 1) = k + 1
    <3>1. k + 1 \in Nat
      BY <1>1
    <3> QED BY <3>1, UpTo
  <2> QED BY <1>1, <2>4, <2>5
<1>3. FreshId \in 1 .. k + 1
  BY <1>2 DEF FreshId
<1> QED BY <1>1, <1>3

\* The loads that are retired, and those that are joined, have their types.
LEMMA RetiredTypes ==
  ASSUME NEW ls \in SUBSET LoadType, IsFiniteSet(ls)
  PROVE  Retired(ls) \subseteq LoadType /\ IsFiniteSet(Retired(ls))
<1>1. CASE screen.load = "plain"
  BY <1>1 DEF Retired
<1>2. CASE screen.load # "plain"
  <2> DEFINE T == {[l EXCEPT !.live = FALSE] : l \in ls}
             f == [l \in ls |-> [l EXCEPT !.live = FALSE]]
  <2>1. Retired(ls) = T
    BY <1>2 DEF Retired
  <2>2. \A l \in ls : [l EXCEPT !.live = FALSE] \in LoadType
    BY DEF LoadType
  <2>3. f \in Surjection(ls, T)
    BY DEF Surjection
  <2>4. IsFiniteSet(T)
    BY <2>3, FS_Surjection
  <2> QED BY <2>1, <2>2, <2>4
<1> QED BY <1>1, <1>2

LEMMA JoinedTypes ==
  ASSUME NEW ls \in SUBSET LoadType, IsFiniteSet(ls), NEW i \in SUBSET (1 .. MaxCalls)
  PROVE  LET T == {Joined(l, i) : l \in ls} IN T \subseteq LoadType /\ IsFiniteSet(T)
<1> DEFINE T == {Joined(l, i) : l \in ls}
           f == [l \in ls |-> Joined(l, i)]
<1>1. \A l \in ls : Joined(l, i) \in LoadType
  BY DEF LoadType, Joined
<1>2. f \in Surjection(ls, T)
  BY DEF Surjection
<1>3. IsFiniteSet(T)
  BY <1>2, FS_Surjection
<1> QED BY <1>1, <1>3

\* So have the loads after one has started, or was joined.
LEMMA StartTypes ==
  ASSUME NEW k \in Subject, NEW i \in SUBSET (1 .. MaxCalls), NEW told \in SUBSET (1 .. MaxCalls),
         StartLoad(k, i) \/ JoinLoad(k, i, told), missed \subseteq 1 .. MaxCalls,
         loads \subseteq LoadType, IsFiniteSet(loads)
  PROVE  loads' \subseteq LoadType /\ IsFiniteSet(loads') /\ missed' \subseteq 1 .. MaxCalls
<1> DEFINE F == Fetching(k)
<1>1. F \subseteq loads /\ IsFiniteSet(F) /\ IsFiniteSet(loads \ F)
  <2>1. F \subseteq loads /\ (loads \ F) \subseteq loads
    BY DEF Fetching
  <2> HIDE DEF F
  <2> QED BY <2>1, FS_Subset
<1>2. Retired(loads \ F) \subseteq LoadType /\ IsFiniteSet(Retired(loads \ F))
  <2>1. (loads \ F) \in SUBSET LoadType
    OBVIOUS
  <2> QED BY <1>1, <2>1, RetiredTypes
<1>3. CASE StartLoad(k, i)
  <2> DEFINE w == i \cup UNION {l.for : l \in F}
  <2>1. w \subseteq 1 .. MaxCalls
    <3>1. \A l \in F : l.for \subseteq 1 .. MaxCalls
      BY <1>1 DEF LoadType
    <3> QED BY <3>1
  <2>2. loads' = Retired(loads \ F) \cup {Load(k, w)} /\ missed' = {}
    BY <1>3 DEF StartLoad
  <2> HIDE DEF w
  <2>3. Load(k, w) \in LoadType
    <3>1. FreshId \in Nat
      BY FreshIdType
    <3> QED BY <2>1, <3>1 DEF Load, LoadType
  <2>4. IsFiniteSet(loads')
    BY <1>2, <2>2, FS_AddElement
  <2> QED BY <1>2, <2>2, <2>3, <2>4
<1>4. CASE JoinLoad(k, i, told)
  <2> DEFINE T == {Joined(l, i) : l \in F}
  <2>1. T \subseteq LoadType /\ IsFiniteSet(T)
    BY <1>1, JoinedTypes
  <2>2. loads' = Retired(loads \ F) \cup T /\ missed' = missed \cup told
    BY <1>4 DEF JoinLoad
  <2> HIDE DEF T, F
  <2>3. IsFiniteSet(loads')
    BY <1>2, <2>1, <2>2, FS_Union
  <2> QED BY <1>2, <2>1, <2>2, <2>3
<1> QED BY <1>3, <1>4

\* And so they have after a reload.
LEMMA ReloadTypes ==
  ASSUME NEW k \in Subject, NEW i \in SUBSET (1 .. MaxCalls), NEW told \in SUBSET (1 .. MaxCalls),
         Reload(k, i, told), missed \subseteq 1 .. MaxCalls,
         loads \subseteq LoadType, IsFiniteSet(loads)
  PROVE  loads' \subseteq LoadType /\ IsFiniteSet(loads') /\ missed' \subseteq 1 .. MaxCalls
<1>1. StartLoad(k, i) \/ JoinLoad(k, i, told)
  BY DEF Reload
<1> QED BY <1>1, StartTypes

\* The data a screen may show, and the flags it may have set.
ShownType == [key : Subject, seen : SUBSET (1 .. MaxCalls)]
FlagSet == {<<o.lock, r>> : o \in screen.ops, r \in Row}
SlotType == [Guards -> {None} \cup (1 .. MaxCalls)]

\* No call changes.
LEMMA StandStill ==
  ASSUME calls \subseteq CallType, calls' = calls
  PROVE  \E g : Becomes(g) /\ \A c \in calls : g[c] = c
<1> DEFINE g == [c \in calls |-> c]
<1>1. g \in [calls -> CallType] /\ \A c \in calls : g[c] = c
  OBVIOUS
<1> HIDE DEF g
<1>2. Becomes(g)
  BY <1>1 DEF Becomes, Same
<1> QED BY <1>1, <1>2

\* What a step owes to the types, click or not.
LEMMA BaseFrom ==
  ASSUME Base, screen' = screen, open' \in BOOLEAN, subject' \in Subject,
         shown' = None \/ shown' \in ShownType,
         loads' \subseteq LoadType, IsFiniteSet(loads'),
         calls' \subseteq CallType, Ids', busy' \subseteq FlagSet,
         slot' \in SlotType, missed' \subseteq 1 .. MaxCalls,
         selects' \in 0 .. MaxSelects, polls' \in 0 .. MaxPolls,
         rushed' \in BOOLEAN, failed' \in BOOLEAN
  PROVE  Base'
<1>1. CallType' = CallType /\ LoadType' = LoadType /\ screen' \in Screens
  BY DEF CallType, LoadType, Base, TypeOK
<1>2. busy' \subseteq {<<o.lock, r>> : o \in screen'.ops, r \in Row}
  BY DEF FlagSet
<1> HIDE DEF CallType, LoadType
<1>3. TypeOK'
  BY <1>1, <1>2 DEF TypeOK, ShownType, SlotType
<1> QED BY <1>3 DEF Base

\* What a step without a click owes to them.
LEMMA BaseGoesOn ==
  ASSUME Base, screen' = screen, open' \in BOOLEAN,
         shown' = None \/ shown' \in ShownType,
         loads' \subseteq LoadType, IsFiniteSet(loads'),
         \E g : Becomes(g), busy' \subseteq busy,
         slot' \in SlotType, missed' \subseteq 1 .. MaxCalls,
         UNCHANGED <<subject, selects, polls>>,
         rushed' \in BOOLEAN, failed' \in BOOLEAN
  PROVE  Base'
<1>1. PICK g : Becomes(g)
  OBVIOUS
<1>2. calls' \subseteq CallType
  BY <1>1 DEF Becomes
<1>3. Ids'
  BY <1>1, IdsKept DEF Base
<1>4. /\ busy' \subseteq FlagSet /\ subject' \in Subject
      /\ selects' \in 0 .. MaxSelects /\ polls' \in 0 .. MaxPolls
  BY DEF Base, TypeOK, FlagSet
<1> QED BY <1>2, <1>3, <1>4, BaseFrom

\* What the types say of the state before a step.
LEMMA BaseFacts ==
  ASSUME Base
  PROVE  /\ screen \in Screens /\ open \in BOOLEAN /\ subject \in Subject
         /\ shown = None \/ shown \in ShownType
         /\ loads \subseteq LoadType /\ IsFiniteSet(loads) /\ calls \subseteq CallType
         /\ busy \subseteq FlagSet /\ slot \in SlotType /\ missed \subseteq 1 .. MaxCalls
         /\ selects \in 0 .. MaxSelects /\ polls \in 0 .. MaxPolls
         /\ rushed \in BOOLEAN /\ failed \in BOOLEAN
  BY DEF Base, TypeOK, ShownType, FlagSet, SlotType

\* No dialog is a state of the guards' slots, and so is one more or less.
LEMMA SlotTypes ==
  /\ NoDialog \in SlotType
  /\ \A sl \in SlotType, n \in {None} \cup (1 .. MaxCalls) : \A g :
       [sl EXCEPT ![g] = n] \in SlotType
  BY DEF NoDialog, SlotType

\* At the start.
LEMMA BaseInit == Init => Base
<1> SUFFICES ASSUME Init PROVE Base
  OBVIOUS
<1> DEFINE l == FirstLoad
<1>1. l \in LoadType
  BY DEF LoadType, Init, FirstLoad
<1>2. loads = {} \/ loads = {l}
  BY DEF Init
<1> HIDE DEF l
<1>3. loads \subseteq LoadType
  BY <1>1, <1>2
<1>4. IsFiniteSet(loads)
  <2>1. IsFiniteSet({}) /\ IsFiniteSet({l})
    BY FS_EmptySet, FS_Singleton
  <2> QED BY <1>2, <2>1
<1>5. Ids
  <2>1. calls = {} /\ 0 \in 0 .. MaxCalls /\ 1 .. 0 = {}
    BY BoundsAssumption DEF Init
  <2> QED BY <2>1 DEF Ids
<1>6. selects \in 0 .. MaxSelects /\ polls \in 0 .. MaxPolls
  BY BoundsAssumption DEF Init
<1>7. /\ screen \in Screens /\ open \in BOOLEAN /\ subject \in Subject
      /\ calls = {} /\ busy = {} /\ slot = NoDialog /\ rushed \in BOOLEAN
      /\ failed \in BOOLEAN /\ missed = {}
  BY DEF Init
<1>8. shown = None \/ shown \in ShownType
  BY DEF Init, ShownType
<1>9. slot \in SlotType
  BY <1>7, SlotTypes
<1>10. calls \subseteq CallType /\ busy \subseteq FlagSet /\ missed \subseteq 1 .. MaxCalls
  BY <1>7
<1> QED BY <1>3, <1>4, <1>5, <1>6, <1>7, <1>8, <1>9, <1>10
        DEF Base, TypeOK, ShownType, FlagSet, SlotType

\* A click.
LEMMA ClickBase ==
  ASSUME Base, NEW o \in screen.ops, NEW r \in Row, Click(o, r)
  PROVE  Base'
<1> DEFINE n == Cardinality(calls)
           d == [id |-> n + 1, op |-> o, row |-> r, key |-> subject, stage |-> "sent",
                 ran |-> FALSE, sure |-> FALSE, guard |-> None]
<1>1. n \in Nat /\ {c.id : c \in calls} = 1 .. n
  BY IdsCount DEF Base
<1>2. n + 1 \in 1 .. MaxCalls
  BY <1>1, BoundsAssumption DEF Click
<1>3. d \in CallType /\ d.id = n + 1
  BY <1>2, BaseFacts DEF CallType, Stages
<1>4. /\ calls' = calls \cup {d}
      /\ UNCHANGED <<screen, open, subject, shown, loads, slot, selects, polls, failed, missed>>
      /\ busy' = Lock(o, r) /\ rushed' \in BOOLEAN
  BY DEF Click
<1> HIDE DEF d
<1>5. Ids'
  <2>1. {c.id : c \in calls'} = 1 .. n + 1
    <3>1. {c.id : c \in calls'} = {c.id : c \in calls} \cup {n + 1}
      BY <1>3, <1>4
    <3>2. 1 .. n + 1 = (1 .. n) \cup {n + 1}
      BY <1>1
    <3> QED BY <1>1, <3>1, <3>2
  <2>2. \A c \in calls : c.id # n + 1
    <3>1. \A c \in calls : c.id \in 1 .. n
      BY <1>1
    <3>2. n + 1 \notin 1 .. n
      BY <1>1
    <3> QED BY <3>1, <3>2
  <2>3. \A c, e \in calls' : c.id = e.id => c = e
    BY <1>3, <1>4, <2>2 DEF Base, Ids
  <2>4. n + 1 \in 0 .. MaxCalls
    BY <1>2
  <2> QED BY <2>1, <2>3, <2>4 DEF Ids
<1>6. busy' \subseteq FlagSet
  <2>1. <<o.lock, r>> \in FlagSet
    BY DEF FlagSet
  <2>2. Lock(o, r) \subseteq busy \cup {<<o.lock, r>>}
    BY DEF Lock, Reset
  <2> QED BY <1>4, <2>1, <2>2, BaseFacts
<1>7. calls' \subseteq CallType
  BY <1>3, <1>4, BaseFacts
<1> QED BY <1>4, <1>5, <1>6, <1>7, BaseFacts, BaseFrom

\* Another subject, and the interval's tick.
LEMMA ReloadBase ==
  ASSUME Base, Tick \/ \E k \in Subject : Select(k)
  PROVE  Base'
<1>1. UNCHANGED <<screen, open, calls, busy, slot, failed>> /\ rushed' \in BOOLEAN
  BY DEF Tick, Select
<1>2. /\ subject' \in Subject
      /\ selects' \in 0 .. MaxSelects /\ polls' \in 0 .. MaxPolls
  BY BaseFacts, BoundsAssumption DEF Tick, Select
<1>5. \A k \in Subject : Changes(k) \subseteq 1 .. MaxCalls
  BY BaseFacts, CallFields DEF Changes
<1>6. shown' = None \/ shown' \in ShownType
  <2>1. CASE Tick
    BY <2>1, BaseFacts DEF Tick
  <2>2. CASE \E k \in Subject : EffectRuns(k)
    BY <2>2, BaseFacts DEF EffectRuns
  <2>3. ASSUME NEW k \in Subject, KeyChanges(k) PROVE shown' = None \/ shown' \in ShownType
    <3>1. shown' = None \/ \E e \in SUBSET Changes(k) : shown' = [key |-> k, seen |-> e]
      BY <2>3 DEF KeyChanges
    <3>2. \A e \in SUBSET Changes(k) : [key |-> k, seen |-> e] \in ShownType
      BY <1>5 DEF ShownType
    <3> QED BY <3>1, <3>2
  <2> QED BY <2>1, <2>2, <2>3 DEF Select
<1>3. loads' \subseteq LoadType /\ IsFiniteSet(loads') /\ missed' \subseteq 1 .. MaxCalls
  <2>1. CASE UNCHANGED <<loads, missed>>
    BY <2>1, BaseFacts
  <2>2. CASE Tick
    <3>1. CASE Reload(subject, {}, {})
      BY <3>1, BaseFacts, ReloadTypes
    <3> QED BY <2>1, <2>2, <3>1 DEF Tick
  <2>3. ASSUME NEW k \in Subject, Select(k)
        PROVE  loads' \subseteq LoadType /\ IsFiniteSet(loads') /\ missed' \subseteq 1 .. MaxCalls
    <3>1. UNCHANGED <<loads, missed>> \/ StartLoad(k, {}) \/ JoinLoad(k, {}, Changes(k))
      BY <2>3 DEF Select, EffectRuns, KeyChanges
    <3>2. {} \in SUBSET (1 .. MaxCalls) /\ Changes(k) \in SUBSET (1 .. MaxCalls)
      BY <1>5
    <3>3. CASE StartLoad(k, {}) \/ JoinLoad(k, {}, Changes(k))
      BY <3>2, <3>3, BaseFacts, StartTypes
    <3> QED BY <2>1, <3>1, <3>3
  <2> QED BY <2>2, <2>3
<1>4. Ids' /\ calls' \subseteq CallType
  BY <1>1, BaseFacts DEF Base, Ids
<1> QED BY <1>1, <1>2, <1>3, <1>4, <1>6, BaseFacts, BaseFrom

\* The user leaves.
LEMMA LeaveBase ==
  ASSUME Base, Leave
  PROVE  Base'
<1>1. \E g : Becomes(g)
  BY BaseFacts, LeaveBecomes
<1>2. /\ UNCHANGED <<screen, subject, selects, polls, rushed, failed>>
      /\ open' = FALSE /\ shown' = None /\ loads' = {} /\ busy' = {} /\ slot' = NoDialog
      /\ missed' = missed
  BY DEF Leave, Unmount
<1>3. IsFiniteSet(loads') /\ slot' \in SlotType
  BY <1>2, FS_EmptySet, SlotTypes
<1> QED BY <1>1, <1>2, <1>3, BaseFacts, BaseGoesOn

\* Which calls go on, and how, in a step of one call.
LEMMA CallBecomes ==
  ASSUME Base, NEW c \in calls,
         \/ Confirm(c) \/ Cancel(c) \/ Run(c) \/ Refuse(c) \/ LoseAnswer(c) \/ Answered(c)
         \/ Failed(c) \/ Unheard(c) \/ Warn(c) \/ Ask(c)
  PROVE  c \in Running /\ \E g : Becomes(g) /\ \A x \in calls : x # c => g[x] = x
<1>1. c \in Running
  BY DEF Running, Ended, Confirm, Cancel, Run, Refuse, LoseAnswer, Answered, Failed, Unheard,
         Warn, Ask
<1>2. calls \subseteq CallType /\ c \in CallType
  BY BaseFacts
<1>3. CASE \E s \in Stages : Move(c, s)
  BY <1>1, <1>2, <1>3, MoveBecomes
<1>4. CASE Run(c)
  <2> DEFINE d == [c EXCEPT !.stage = "done", !.ran = TRUE]
  <2>1. d \in CallType /\ Same(c, d)
    BY <1>2, RanSet
  <2>2. calls' = (calls \ {c}) \cup {d}
    BY <1>4 DEF Run
  <2> QED BY <1>1, <1>2, <2>1, <2>2, OneMoves DEF Only
<1>5. CASE Confirm(c)
  <2> DEFINE d == [c EXCEPT !.stage = "sent", !.sure = TRUE]
  <2>1. d \in CallType /\ Same(c, d)
    BY <1>2, SureSet
  <2>2. calls' = (calls \ {c}) \cup {d}
    BY <1>5 DEF Confirm
  <2> QED BY <1>1, <1>2, <2>1, <2>2, OneMoves DEF Only
<1>7. CASE Warn(c)
  <2>1. PICK w \in c.op.ask :
          calls' = (calls \ {c}) \cup {[c EXCEPT !.stage = "warned", !.guard = w]}
    BY <1>7 DEF Warn
  <2>2. w \in Guards
    BY <1>2, <2>1, BaseFacts, CallFields, ScreensAssumption
  <2> DEFINE d == [c EXCEPT !.stage = "warned", !.guard = w]
  <2>3. d \in CallType /\ Same(c, d)
    BY <1>2, <2>2, WarnSet
  <2> QED BY <1>1, <1>2, <2>1, <2>3, OneMoves DEF Only
<1>6. CASE \/ Cancel(c) \/ Refuse(c) \/ LoseAnswer(c) \/ Answered(c) \/ Failed(c)
           \/ Unheard(c) \/ Ask(c)
  <2>1. {"error", "refused", "lost", "ok", "reloading", "asked"} \subseteq Stages
    BY DEF Stages
  <2>2. \/ Move(c, "error") \/ Move(c, "refused") \/ Move(c, "lost") \/ Move(c, "ok")
        \/ Move(c, "reloading") \/ Move(c, "asked")
    BY <1>6 DEF Cancel, Refuse, LoseAnswer, Answered, Closes, Reloads, AwaitsReload, Patches,
                Stays, Failed, Unheard, Ask
  <2> QED BY <1>3, <2>1, <2>2
<1> QED BY <1>1, <1>4, <1>5, <1>6, <1>7

\* A step of one call.
LEMMA CallBase ==
  ASSUME Base, NEW c \in calls,
         \/ Confirm(c) \/ Cancel(c) \/ Run(c) \/ Refuse(c) \/ LoseAnswer(c) \/ Answered(c)
         \/ Failed(c) \/ Unheard(c) \/ Warn(c) \/ Ask(c)
  PROVE  Base'
<1>1. \E g : Becomes(g)
  BY CallBecomes
<1>2. c \in CallType /\ c.id \in 1 .. MaxCalls /\ c.key \in Subject
  <2>1. c \in CallType
    BY BaseFacts
  <2> QED BY <2>1, CallFields
<1>3. /\ slot \in SlotType /\ [slot EXCEPT ![c.guard] = None] \in SlotType
      /\ [slot EXCEPT ![c.guard] = c.id] \in SlotType /\ NoDialog \in SlotType
  BY <1>2, BaseFacts, SlotTypes
<1>4. CASE Confirm(c) \/ Cancel(c) \/ Run(c) \/ Refuse(c) \/ LoseAnswer(c)
           \/ Unheard(c) \/ Warn(c) \/ Ask(c)
  <2>1. UNCHANGED <<screen, open, subject, shown, loads, selects, polls, rushed, failed, missed>>
    BY <1>4 DEF Confirm, Cancel, Run, Refuse, LoseAnswer, Unheard, Warn, Ask
  <2>2. busy' \subseteq busy
    BY <1>4 DEF Confirm, Cancel, Run, Refuse, LoseAnswer, Unheard, Warn, Ask, Unlock, Reset
  <2>3. slot' \in SlotType
    BY <1>3, <1>4 DEF Confirm, Cancel, Run, Refuse, LoseAnswer, Unheard, Warn, Ask
  <2> QED BY <1>1, <2>1, <2>2, <2>3, BaseFacts, BaseGoesOn
<1>5. ASSUME Unmount, UNCHANGED <<screen, subject, selects, polls, failed>>, rushed' \in BOOLEAN
      PROVE  Base'
  <2>1. /\ open' = FALSE /\ shown' = None /\ loads' = {} /\ busy' = {} /\ slot' = NoDialog
        /\ missed' = missed
    BY <1>5 DEF Unmount
  <2>2. IsFiniteSet(loads') /\ slot' \in SlotType
    BY <1>3, <2>1, FS_EmptySet
  <2> QED BY <1>1, <1>5, <2>1, <2>2, BaseFacts, BaseGoesOn
<1>6. CloseDialog(c) => slot' \in SlotType
  BY <1>3 DEF CloseDialog
<1>7. CASE Answered(c)
  <2>1. UNCHANGED <<screen, subject, selects, polls, failed>> /\ rushed' \in BOOLEAN
    BY <1>7 DEF Answered
  <2>2. CASE Closes(c)
    BY <1>5, <2>1, <2>2 DEF Closes
  <2>3. CASE Reloads(c) \/ AwaitsReload(c)
    <3>1. UNCHANGED <<open, shown>> /\ busy' \subseteq busy /\ slot' \in SlotType
      BY <1>6, <2>3 DEF Reloads, AwaitsReload, Unlock, Reset
    <3>2. Target(c) \in Subject
      BY <1>2, BaseFacts DEF Target
    <3>3. CASE UNCHANGED <<loads, missed>>
      BY <1>1, <2>1, <3>1, <3>3, BaseFacts, BaseGoesOn
    <3>4. ASSUME NEW i \in SUBSET (1 .. MaxCalls), Reload(Target(c), i, {c.id})
          PROVE  Base'
      <4>1. {c.id} \in SUBSET (1 .. MaxCalls)
        BY <1>2
      <4>2. loads' \subseteq LoadType /\ IsFiniteSet(loads') /\ missed' \subseteq 1 .. MaxCalls
        BY <3>2, <3>4, <4>1, BaseFacts, ReloadTypes
      <4> QED BY <1>1, <2>1, <3>1, <4>2, BaseFacts, BaseGoesOn
    <3>5. {} \in SUBSET (1 .. MaxCalls) /\ {c.id} \in SUBSET (1 .. MaxCalls)
      BY <1>2
    <3> QED BY <2>3, <3>3, <3>4, <3>5 DEF Reloads, AwaitsReload
  <2>4. CASE Patches(c) \/ Stays(c)
    <3>1. UNCHANGED <<open, loads, missed>> /\ busy' \subseteq busy /\ slot' \in SlotType
      BY <1>6, <2>4 DEF Patches, Stays, Unlock, Reset
    <3>2. shown' = None \/ shown' \in ShownType
      <4>1. CASE shown' = shown
        BY <4>1, BaseFacts
      <4>2. CASE shown # None /\ shown' = [shown EXCEPT !.seen = @ \cup {c.id}]
        BY <1>2, <4>2, BaseFacts DEF ShownType
      <4> QED BY <2>4, <4>1, <4>2 DEF Patches, Stays
    <3> QED BY <1>1, <2>1, <3>1, <3>2, BaseFacts, BaseGoesOn
  <2> QED BY <1>7, <2>2, <2>3, <2>4 DEF Answered
<1>8. CASE Failed(c)
  <2>1. UNCHANGED <<screen, subject, selects, polls, rushed, failed>>
    BY <1>8 DEF Failed
  <2>2. CASE Unmount
    BY <1>5, <2>1, <2>2, BaseFacts
  <2>3. CASE busy' = Unlock(c) /\ CloseDialog(c) /\ UNCHANGED <<open, shown, loads, missed>>
    <3>1. busy' \subseteq busy /\ slot' \in SlotType
      BY <1>6, <2>3 DEF Unlock, Reset
    <3> QED BY <1>1, <2>1, <2>3, <3>1, BaseFacts, BaseGoesOn
  <2> QED BY <1>8, <2>2, <2>3 DEF Failed
<1> QED BY <1>4, <1>7, <1>8

\* A load that is served, shown or lost.
LEMMA LoadBase ==
  ASSUME Base, NEW l \in loads, Serve(l) \/ Show(l) \/ LoadFails(l)
  PROVE  Base'
<1>1. l \in LoadType /\ loads \subseteq LoadType /\ IsFiniteSet(loads)
  BY BaseFacts
<1>2. IsFiniteSet(loads \ {l})
  BY <1>1, FS_RemoveElement
<1>3. CASE Serve(l)
  <2> DEFINE m == [l EXCEPT !.served = TRUE, !.seen = Changes(l.key)]
  <2>1. Changes(l.key) \subseteq 1 .. MaxCalls
    BY BaseFacts, CallFields DEF Changes
  <2>2. m \in LoadType
    BY <1>1, <2>1 DEF LoadType
  <2>3. /\ loads' = (loads \ {l}) \cup {m}
        /\ UNCHANGED <<screen, open, subject, shown, calls, busy, slot, selects, polls,
                       rushed, failed, missed>>
    BY <1>3 DEF Serve
  <2> HIDE DEF m
  <2>4. loads' \subseteq LoadType /\ IsFiniteSet(loads')
    BY <1>1, <1>2, <2>2, <2>3, FS_AddElement
  <2>5. \E g : Becomes(g)
    BY <2>3, BaseFacts, StandStill
  <2> QED BY <2>3, <2>4, <2>5, BaseFacts, BaseGoesOn
<1>4. CASE Show(l) \/ LoadFails(l)
  <2>1. /\ UNCHANGED <<screen, open, subject, slot, selects, polls, rushed, missed>>
        /\ Release(l) /\ loads' = loads \ {l} /\ failed' \in BOOLEAN
    BY <1>4, BaseFacts DEF Show, LoadFails
  <2>2. \E g : Becomes(g)
    BY <2>1, BaseFacts, ReleaseBecomes
  <2>3. busy' \subseteq busy
    BY <2>1 DEF Release
  <2>4. shown' = None \/ shown' \in ShownType
    <3>1. [key |-> l.key, seen |-> l.seen] \in ShownType
      BY <1>1 DEF LoadType, ShownType
    <3> QED BY <1>4, <3>1, BaseFacts DEF Show, LoadFails
  <2>5. loads' \subseteq LoadType /\ IsFiniteSet(loads')
    BY <1>1, <1>2, <2>1
  <2> QED BY <2>1, <2>2, <2>3, <2>4, <2>5, BaseFacts, BaseGoesOn
<1> QED BY <1>3, <1>4

\* Every step keeps the types.
LEMMA BaseNext == Base /\ [Next]_vars => Base'
<1> SUFFICES ASSUME Base, [Next]_vars PROVE Base'
  OBVIOUS
<1>1. CASE Tick \/ \E k \in Subject : Select(k)
  BY <1>1, ReloadBase
<1>2. CASE Leave
  BY <1>2, LeaveBase
<1>3. CASE \E o \in screen.ops, r \in Row : Click(o, r)
  BY <1>3, ClickBase
<1>4. CASE \E c \in calls :
             \/ Confirm(c) \/ Cancel(c) \/ Run(c) \/ Refuse(c) \/ LoseAnswer(c) \/ Answered(c)
             \/ Failed(c) \/ Unheard(c) \/ Warn(c) \/ Ask(c)
  BY <1>4, CallBase
<1>5. CASE \E l \in loads : Serve(l) \/ Show(l) \/ LoadFails(l)
  BY <1>5, LoadBase
<1>6. CASE UNCHANGED vars
  <2>1. \E g : Becomes(g)
    BY <1>6, BaseFacts, StandStill DEF vars
  <2> QED BY <1>6, <2>1, BaseFacts, BaseGoesOn DEF vars
<1> QED BY <1>1, <1>2, <1>3, <1>4, <1>5, <1>6 DEF Next, User, CallStep, LoadStep

\* The state of every screen stays well formed: the numbers of clicks and loads
\* are there when they are needed, and every change a screen shows is one that
\* was asked for.
THEOREM TypeCorrect == Spec => []TypeOK
<1>1. Base => TypeOK
  BY DEF Base
<1> QED BY <1>1, BaseInit, BaseNext, PTL DEF Spec

-----------------------------------------------------------------------------
(* Busy flags and dialogs                                                  *)
-----------------------------------------------------------------------------
\* The flags that disable every operation that uses them.
Exclusive == {"one", "own"}

\* A screen that is gone has no state left.
Closed == ~open => busy = {} /\ loads = {} /\ shown = None

\* A call holds the flag it was sent under until it ends, and holds it alone.
Held == open => \A c \in Running : c.op.lock \in Exclusive => \E b \in busy : b[1] = c.op.lock
Sole == \A c, d \in Running : c.op.lock \in Exclusive /\ c.op.lock = d.op.lock => c = d

\* Two calls are under way only when the user did not wait.
Overlap == \A c, d \in Running : c # d => rushed

\* A call that was warned of, or confirmed, names a guard of its operation, and only
\* the calls that await their reload are waiting for it.
Warned == \A c \in calls : c.stage \in {"warned", "asked"} \/ c.sure => c.guard \in c.op.ask
Awaited == \A c \in calls : c.stage = "reloading" => c.op.then = "await"

\* A call that asks has its guard's slot, or is one of several actions of a hasty
\* user. Where a flag is the id of the row clicked last, a call may lose the slot to
\* another one of the same flag; as long as the flag is set, one of them has kept it.
Settled == open => \A c \in Running : c.op.lock # "last" => Settling(c)
LastSettled == open /\ (\E b \in busy : b[1] = "last")
                 => \E c \in Running : c.op.lock = "last" /\ Settling(c)

\* Every flag belongs to a call under way.
Backs(c, b) == c.op.lock = b[1] /\ (b[1] = "each" => c.row = b[2])
Backed == \A b \in busy : \E c \in Running : Backs(c, b)

\* A dialog is gone once its operation has succeeded, so that no second call of
\* it starts unless the first one failed.
IsDialog(o) == o.then \in {"close", "leave"}
Once == \A c, d \in calls :
          IsDialog(c.op) /\ c.op = d.op /\ c.stage # "error" /\ d.stage # "error" => c = d
Gone == \A c \in calls : IsDialog(c.op) /\ c.stage = "ok" => ~open

FlagInv == /\ Closed /\ Held /\ Sole /\ Overlap /\ Warned /\ Awaited
           /\ Settled /\ LastSettled /\ Backed /\ Once /\ Gone

\* A call under way after a step was under way before it.
LEMMA RunningBefore ==
  ASSUME NEW g, Becomes(g)
  PROVE  /\ \A d \in Running' : \E c \in Running : d = g[c] /\ Same(c, d)
         /\ \A d \in calls' : \E c \in calls : d = g[c] /\ Same(c, d)
         /\ \A c \in calls : g[c] \in calls'
  BY DEF Becomes, Running

\* Calls that go on stay alone with their flag, and a dialog's stays the only one.
LEMMA StayApart ==
  ASSUME NEW g, Becomes(g), FlagInv, rushed => rushed'
  PROVE  Sole' /\ Overlap' /\ Once'
<1>1. Sole'
  BY RunningBefore DEF FlagInv, Sole, Same
<1>2. Overlap'
  BY RunningBefore DEF FlagInv, Overlap
<1>3. Once'
  <2>1. \A c \in calls : g[c].stage # "error" => c.stage # "error"
    BY DEF Becomes, Ended
  <2> QED BY <2>1, RunningBefore DEF FlagInv, Once, Same
<1> QED BY <1>1, <1>2, <1>3

\* What call c leaves behind when it ends: every flag but its own, each of which
\* belongs to another call.
LEMMA UnlockLeaves ==
  ASSUME NEW c \in Running, FlagInv, open
  PROVE  /\ \A b \in Unlock(c) : \E d \in Running : d # c /\ Backs(d, b)
         /\ \A d \in Running : d # c /\ d.op.lock \in Exclusive
                                 => \E b \in Unlock(c) : b[1] = d.op.lock
<1>1. ASSUME NEW b \in Unlock(c) PROVE \E d \in Running : d # c /\ Backs(d, b)
  <2>1. b \in busy /\ ~Backs(c, b)
    BY <1>1 DEF Unlock, Reset, Backs
  <2> QED BY <2>1 DEF FlagInv, Backed
<1>2. ASSUME NEW d \in Running, d # c, d.op.lock \in Exclusive
      PROVE  \E b \in Unlock(c) : b[1] = d.op.lock
  <2>1. PICK b \in busy : b[1] = d.op.lock
    BY <1>2 DEF FlagInv, Held
  <2>2. d.op.lock # c.op.lock
    BY <1>2 DEF FlagInv, Sole
  <2>3. b \in Unlock(c)
    BY <2>1, <2>2 DEF Unlock, Reset
  <2> QED BY <2>1, <2>3
<1> QED BY <1>1, <1>2

\* Calls that were warned of have a flag in common.
LEMMA SameLock ==
  ASSUME Base, FlagInv, NEW c \in Running, NEW d \in Running, c.op.ask # {}, d.stage = "asked"
  PROVE  c.op.lock = d.op.lock /\ c.op.lock # "free"
<1>1. d \in calls /\ d.op.ask # {}
  BY DEF FlagInv, Warned, Running
<1>2. c.op \in screen.ops /\ d.op \in screen.ops /\ screen \in Screens
  BY BaseFacts, CallFields DEF Running
<1> QED BY <1>1, <1>2, GuardAssumption

\* Another call that asks keeps its claim when a slot changes hands between the
\* calls of a guard hook.
LEMMA OthersSettled ==
  ASSUME Base, FlagInv, NEW c \in Running, NEW d \in Running, d # c, open, Settling(d),
         d.op.lock # "last" \/ c.op.lock # "last",
         slot' = slot \/ c.op.ask # {}, rushed => rushed'
  PROVE  d.stage = "asked" => slot'[d.guard] = d.id \/ (d.op.lock = "each" /\ rushed')
<1> SUFFICES ASSUME d.stage = "asked"
             PROVE  slot'[d.guard] = d.id \/ (d.op.lock = "each" /\ rushed')
  OBVIOUS
<1>1. rushed
  BY DEF FlagInv, Overlap
<1>2. slot[d.guard] = d.id \/ (d.op.lock = "each" /\ rushed)
  BY DEF Settling
<1>3. CASE slot' = slot
  BY <1>2, <1>3
<1>4. CASE c.op.ask # {}
  <2>1. c.op.lock = d.op.lock /\ c.op.lock # "free"
    BY <1>4, SameLock
  <2>2. d.op.lock \in {"one", "own", "each", "last"}
    <3>1. d.op \in screen.ops /\ screen \in Screens
      BY BaseFacts, CallFields DEF Running
    <3> QED BY <2>1, <3>1, ScreensAssumption
  <2>3. d.op.lock = "each"
    BY <2>1, <2>2 DEF FlagInv, Sole, Exclusive
  <2> QED BY <1>1, <2>3
<1> QED BY <1>3, <1>4

\* One call goes on or ends on a screen that stays.
LEMMA OneStep ==
  ASSUME Base, FlagInv, NEW c \in Running, NEW g, Becomes(g),
         \A x \in calls : x # c => g[x] = x,
         open' = open, rushed => rushed', Closed',
         g[c].stage \in {"warned", "asked"} \/ g[c].sure => g[c].guard \in c.op.ask,
         g[c].stage = "reloading" => c.op.then = "await",
         IsDialog(c.op) /\ g[c].stage = "ok" => ~open,
         slot' = slot \/ c.op.ask # {},
         open /\ g[c].stage = "asked" => slot'[g[c].guard] = c.id,
         open => busy' = IF g[c].stage \in Ended THEN Unlock(c) ELSE busy
  PROVE  FlagInv'
<1>1. Sole' /\ Overlap' /\ Once'
  BY StayApart
<1>2. c \in calls /\ Same(c, g[c]) /\ g[c] \in calls'
  BY RunningBefore DEF Becomes, Running
<1>3. \A d \in calls' : d = g[c] \/ (d \in calls /\ d # c)
  BY RunningBefore
<1>4. \A d \in Running' : d = g[c] \/ (d \in Running /\ d # c)
  BY <1>3 DEF Running
<1>5. \A d \in Running : d # c => d \in Running'
  <2>1. \A d \in calls : d # c => d \in calls'
    BY RunningBefore
  <2> QED BY <2>1 DEF Running
<1>6. Warned' /\ Awaited' /\ Gone'
  BY <1>2, <1>3 DEF FlagInv, Warned, Awaited, Gone, Same
<1>7. Settled'
  <2> SUFFICES ASSUME open', NEW d \in Running', d.op.lock # "last", d.stage = "asked"
               PROVE  slot'[d.guard] = d.id \/ (d.op.lock = "each" /\ rushed')
    BY DEF Settled, Settling
  <2>1. CASE d = g[c]
    BY <1>2, <2>1 DEF Same
  <2>2. CASE d \in Running /\ d # c
    <3>1. Settling(d)
      BY <2>2 DEF FlagInv, Settled
    <3> QED BY <2>2, <3>1, OthersSettled
  <2> QED BY <1>4, <2>1, <2>2
<1>8. LastSettled'
  <2> SUFFICES ASSUME open', NEW b \in busy', b[1] = "last"
               PROVE  \E d \in Running' : d.op.lock = "last" /\ Settling(d)'
    BY DEF LastSettled
  <2>1. CASE c.op.lock = "last" /\ g[c].stage \in Ended
    <3>1. busy' = Unlock(c)
      BY <2>1
    <3> QED BY <2>1, <3>1 DEF Unlock, Reset
  <2>2. CASE c.op.lock = "last" /\ g[c].stage \notin Ended
    <3>1. g[c] \in Running' /\ g[c].op.lock = "last"
      BY <1>2, <2>2 DEF Running, Same
    <3>2. g[c].stage = "asked" => slot'[g[c].guard] = g[c].id
      BY <1>2 DEF Same
    <3> QED BY <3>1, <3>2 DEF Settling
  <2>3. CASE c.op.lock # "last"
    <3>1. b \in busy
      BY DEF Unlock, Reset
    <3>2. PICK d \in Running : d.op.lock = "last" /\ Settling(d)
      BY <3>1 DEF FlagInv, LastSettled
    <3>3. d # c /\ d \in Running'
      BY <1>5, <2>3, <3>2
    <3>4. d.stage = "asked" => slot'[d.guard] = d.id \/ (d.op.lock = "each" /\ rushed')
      BY <2>3, <3>2, <3>3, OthersSettled
    <3> QED BY <3>2, <3>3, <3>4 DEF Settling
  <2> QED BY <2>1, <2>2, <2>3
<1>9. Held' /\ Backed'
  <2>1. CASE ~open
    <3>1. busy' = {}
      BY <2>1 DEF Closed
    <3> QED BY <2>1, <3>1 DEF Held, Backed
  <2>2. CASE open /\ g[c].stage \in Ended
    <3>1. busy' = Unlock(c)
      BY <2>2
    <3>2. g[c] \notin Running'
      BY <2>2 DEF Running
    <3>3. Held'
      BY <1>4, <2>2, <3>1, <3>2, UnlockLeaves DEF Held
    <3>4. Backed'
      BY <1>5, <2>2, <3>1, UnlockLeaves DEF Backed
    <3> QED BY <3>3, <3>4
  <2>3. CASE open /\ g[c].stage \notin Ended
    <3>1. busy' = busy
      BY <2>3
    <3>2. g[c] \in Running'
      BY <1>2, <2>3 DEF Running
    <3>3. Held'
      BY <1>2, <1>4, <2>3, <3>1 DEF FlagInv, Held, Same
    <3>4. Backed'
      BY <1>2, <1>5, <3>1, <3>2 DEF FlagInv, Backed, Backs, Same
    <3> QED BY <3>3, <3>4
  <2> QED BY <2>1, <2>2, <2>3
<1> QED BY <1>1, <1>6, <1>7, <1>8, <1>9 DEF FlagInv

\* The screen goes away.
LEMMA GoneStep ==
  ASSUME Base, FlagInv, NEW g, Becomes(g), Unmount, rushed => rushed',
         \A c \in calls : \/ g[c] = c
                          \/ /\ g[c].stage \notin {"warned", "asked", "reloading"}
                             /\ (g[c].sure => c.sure) /\ g[c].guard = c.guard
  PROVE  FlagInv'
<1>1. Sole' /\ Overlap' /\ Once'
  BY StayApart
<1>2. open' = FALSE /\ busy' = {} /\ loads' = {} /\ shown' = None
  BY DEF Unmount
<1>3. Warned' /\ Awaited'
  BY RunningBefore DEF FlagInv, Warned, Awaited, Same
<1>4. Closed' /\ Held' /\ Settled' /\ LastSettled' /\ Backed' /\ Gone'
  BY <1>2 DEF Closed, Held, Settled, LastSettled, Backed, Gone
<1> QED BY <1>1, <1>3, <1>4 DEF FlagInv

\* Nothing happens to calls and flags.
LEMMA CalmStep ==
  ASSUME FlagInv, UNCHANGED <<open, calls, busy, slot>>, rushed => rushed', Closed'
  PROVE  FlagInv'
<1>1. Running' = Running
  BY DEF Running
<1>2. Held' /\ Sole' /\ Overlap' /\ Backed'
  BY <1>1 DEF FlagInv, Held, Sole, Overlap, Backed
<1>3. Warned' /\ Awaited' /\ Once' /\ Gone'
  BY DEF FlagInv, Warned, Awaited, Once, Gone
<1>4. \A c \in Running : Settling(c) => Settling(c)'
  BY DEF Settling
<1>5. Settled' /\ LastSettled'
  BY <1>1, <1>4 DEF FlagInv, Settled, LastSettled
<1> QED BY <1>2, <1>3, <1>5 DEF FlagInv

\* At the start no flag is set.
LEMMA FlagInit == Init => FlagInv
  BY DEF Init, FlagInv, Closed, Held, Sole, Overlap, Warned, Awaited, Settled, LastSettled,
         Backed, Once, Gone, Running

\* A click finds its flag free and takes it.
LEMMA ClickFlags ==
  ASSUME Base, FlagInv, NEW o \in screen.ops, NEW r \in Row, Click(o, r)
  PROVE  FlagInv'
<1> DEFINE d == [id |-> Cardinality(calls) + 1, op |-> o, row |-> r, key |-> subject,
                 stage |-> "sent", ran |-> FALSE, sure |-> FALSE, guard |-> None]
<1>1. /\ calls' = calls \cup {d} /\ busy' = Lock(o, r) /\ open /\ ~Locked(o, r)
      /\ rushed' = (rushed \/ ~Quiet)
      /\ UNCHANGED <<screen, open, shown, loads, slot>>
  BY DEF Click
<1>2. d.op = o /\ d.row = r /\ d.stage = "sent" /\ d.sure = FALSE
  OBVIOUS
<1> HIDE DEF d
<1>3. Running' = Running \cup {d}
  BY <1>1, <1>2 DEF Running, Ended
<1>4. Running # {} => rushed'
  BY <1>1 DEF Quiet
<1>5. rushed => rushed'
  BY <1>1
<1>6. o.lock \in Exclusive => \A c \in Running : c.op.lock # o.lock
  BY <1>1 DEF FlagInv, Held, Locked, Exclusive
<1>7. Sole'
  BY <1>2, <1>3, <1>6 DEF FlagInv, Sole
<1>8. Overlap'
  BY <1>3, <1>4, <1>5 DEF FlagInv, Overlap
<1>9. Warned' /\ Awaited' /\ Gone' /\ Closed'
  BY <1>1, <1>2 DEF FlagInv, Warned, Awaited, Gone, Closed
<1>10. Settled' /\ LastSettled'
  <2>1. \A c \in Running : Settling(c) => Settling(c)'
    BY <1>1, <1>5 DEF Settling
  <2>2. d \in Running' /\ \A c \in Running' : c \in Running \/ Settling(c)'
    <3>1. \A c \in Running' : c.stage = "sent" => Settling(c)'
      BY DEF Settling
    <3> QED BY <1>2, <1>3, <3>1
  <2>3. Settled'
    BY <1>1, <1>3, <2>1, <2>2 DEF FlagInv, Settled
  <2>4. ASSUME NEW b \in busy', b[1] = "last"
        PROVE  \E c \in Running' : c.op.lock = "last" /\ Settling(c)'
    <3>1. CASE o.lock = "last"
      <4>1. \A c \in Running' : c.stage = "sent" => Settling(c)'
        BY DEF Settling
      <4> QED BY <1>2, <2>2, <3>1, <4>1
    <3>2. CASE o.lock # "last"
      <4>1. b \in busy
        BY <1>1, <2>4, <3>2 DEF Lock
      <4> QED BY <1>1, <1>3, <2>1, <2>4, <4>1 DEF FlagInv, LastSettled
    <3> QED BY <3>1, <3>2
  <2> QED BY <2>3, <2>4 DEF LastSettled
<1>11. Held'
  <2>1. \A b \in busy : b[1] \in Exclusive => b \in busy'
    BY <1>1 DEF Lock, Reset, Exclusive
  <2>2. o.lock \in Exclusive => <<o.lock, r>> \in busy'
    BY <1>1 DEF Lock, Exclusive
  <2>3. \A c \in Running : c.op.lock \in Exclusive => \E b \in busy : b[1] = c.op.lock
    BY <1>1 DEF FlagInv, Held
  <2>4. <<o.lock, r>>[1] = o.lock
    OBVIOUS
  <2> QED BY <1>2, <1>3, <2>1, <2>2, <2>3, <2>4 DEF Held
<1>12. Backed'
  <2>1. \A b \in busy' : b \in busy \/ b = <<o.lock, r>>
    BY <1>1 DEF Lock, Reset
  <2>2. Backs(d, <<o.lock, r>>)
    BY <1>2 DEF Backs
  <2> QED BY <1>3, <2>1, <2>2 DEF FlagInv, Backed
<1>13. Once'
  <2>1. ASSUME NEW c \in calls, IsDialog(o), c.op = o, c.stage # "error" PROVE FALSE
    <3>1. o.lock \in Exclusive
      BY <2>1, DialogAssumption, BaseFacts DEF IsDialog, Exclusive
    <3>2. CASE c.stage = "ok"
      BY <1>1, <2>1, <3>2 DEF FlagInv, Gone
    <3>3. CASE c.stage # "ok"
      <4>1. c \in Running
        BY <2>1, <3>3 DEF Running, Ended
      <4> QED BY <1>6, <2>1, <3>1, <4>1
    <3> QED BY <3>2, <3>3
  <2> QED BY <1>1, <1>2, <2>1 DEF FlagInv, Once
<1> QED BY <1>7, <1>8, <1>9, <1>10, <1>11, <1>12, <1>13 DEF FlagInv

\* Steps of one call.
LEMMA CallFlags ==
  ASSUME Base, FlagInv, NEW c \in calls,
         \/ Confirm(c) \/ Cancel(c) \/ Run(c) \/ Refuse(c) \/ LoseAnswer(c) \/ Answered(c)
         \/ Failed(c) \/ Unheard(c) \/ Warn(c) \/ Ask(c)
  PROVE  FlagInv'
<1>1. c \in Running /\ c \in CallType /\ calls \subseteq CallType
  BY CallBecomes, BaseFacts
<1>2. c.stage \in {"warned", "asked"} \/ c.sure => c.guard \in c.op.ask
  BY DEF FlagInv, Warned
<1>3. {"error", "refused", "lost", "ok", "reloading", "warned", "asked"} \subseteq Stages
  BY DEF Stages
<1>4. rushed => rushed'
  BY DEF Confirm, Cancel, Run, Refuse, LoseAnswer, Answered, Failed, Unheard, Warn, Ask
<1>5. CASE Run(c)
  <2> DEFINE d == [c EXCEPT !.stage = "done", !.ran = TRUE]
  <2>1. /\ d \in CallType /\ Same(c, d) /\ d.stage = "done" /\ d.sure = c.sure
        /\ d.guard = c.guard
    BY <1>1, RanSet
  <2>2. calls' = (calls \ {c}) \cup {d} /\ UNCHANGED <<open, busy, loads, shown, slot>>
    BY <1>5 DEF Run
  <2> HIDE DEF d
  <2>3. PICK g : Becomes(g) /\ Only(g, c, d)
    BY <1>1, <2>1, <2>2, OneMoves
  <2>4. Closed'
    BY <2>2 DEF FlagInv, Closed
  <2> QED BY <1>1, <1>2, <1>4, <2>1, <2>2, <2>3, <2>4, OneStep DEF Only, Ended
<1>6. CASE Confirm(c)
  <2> DEFINE d == [c EXCEPT !.stage = "sent", !.sure = TRUE]
  <2>1. d \in CallType /\ Same(c, d) /\ d.stage = "sent" /\ d.guard = c.guard
    BY <1>1, SureSet
  <2>2. /\ calls' = (calls \ {c}) \cup {d} /\ UNCHANGED <<open, busy, loads, shown, slot>>
        /\ c.stage = "asked"
    BY <1>6 DEF Confirm
  <2> HIDE DEF d
  <2>3. PICK g : Becomes(g) /\ Only(g, c, d)
    BY <1>1, <2>1, <2>2, OneMoves
  <2>4. Closed'
    BY <2>2 DEF FlagInv, Closed
  <2> QED BY <1>1, <1>2, <1>4, <2>1, <2>2, <2>3, <2>4, OneStep DEF Only, Ended
<1>15. CASE Warn(c)
  <2>1. PICK w \in c.op.ask :
          calls' = (calls \ {c}) \cup {[c EXCEPT !.stage = "warned", !.guard = w]}
    BY <1>15 DEF Warn
  <2>2. w \in Guards
    BY <1>1, <2>1, BaseFacts, CallFields, ScreensAssumption
  <2> DEFINE d == [c EXCEPT !.stage = "warned", !.guard = w]
  <2>3. d \in CallType /\ Same(c, d) /\ d.stage = "warned" /\ d.guard = w
    BY <1>1, <2>2, WarnSet
  <2>4. calls' = (calls \ {c}) \cup {d} /\ UNCHANGED <<open, busy, loads, shown, slot>>
    BY <1>15, <2>1 DEF Warn
  <2> HIDE DEF d
  <2>5. PICK g : Becomes(g) /\ Only(g, c, d)
    BY <1>1, <2>3, <2>4, OneMoves
  <2>6. Closed'
    BY <2>4 DEF FlagInv, Closed
  <2> QED BY <1>1, <1>4, <2>1, <2>3, <2>4, <2>5, <2>6, OneStep DEF Only, Ended
<1>7. CASE Refuse(c) \/ LoseAnswer(c)
  <2>1. PICK s \in {"refused", "lost"} : Move(c, s)
    BY <1>7 DEF Refuse, LoseAnswer
  <2>2. UNCHANGED <<open, busy, loads, shown, slot>>
    BY <1>7 DEF Refuse, LoseAnswer
  <2>3. PICK g : /\ Becomes(g) /\ \A x \in calls : x # c => g[x] = x
                 /\ g[c].stage = s /\ g[c].sure = c.sure /\ g[c].guard = c.guard
    BY <1>1, <1>3, <2>1, MoveBecomes
  <2>4. Closed'
    BY <2>2 DEF FlagInv, Closed
  <2> QED BY <1>1, <1>2, <1>4, <2>1, <2>2, <2>3, <2>4, OneStep DEF Ended
<1>8. CASE Ask(c)
  <2>1. /\ Move(c, "asked") /\ slot' = [slot EXCEPT ![c.guard] = c.id]
        /\ UNCHANGED <<open, busy, loads, shown>> /\ c.stage = "warned"
    BY <1>8 DEF Ask
  <2>2. PICK g : /\ Becomes(g) /\ \A x \in calls : x # c => g[x] = x
                 /\ g[c].stage = "asked" /\ g[c].sure = c.sure /\ g[c].guard = c.guard
    BY <1>1, <1>3, <2>1, MoveBecomes
  <2>3. Closed'
    BY <2>1 DEF FlagInv, Closed
  <2>4. c.guard \in Guards
    <3>1. c.guard \in c.op.ask
      BY <1>2, <2>1
    <3> QED BY <1>1, <3>1, BaseFacts, CallFields, ScreensAssumption
  <2>5. slot'[g[c].guard] = c.id
    BY <2>1, <2>2, <2>4, BaseFacts DEF SlotType
  <2>6. c.op.ask # {} /\ g[c].guard \in c.op.ask
    BY <1>2, <2>1, <2>2
  <2> QED BY <1>1, <1>4, <2>1, <2>2, <2>3, <2>5, <2>6, OneStep DEF Ended
<1>9. CASE Cancel(c)
  <2>1. /\ Move(c, "error") /\ busy' = Unlock(c) /\ UNCHANGED <<open, loads, shown>>
        /\ c.stage = "asked" /\ open
    BY <1>9 DEF Cancel
  <2>2. PICK g : /\ Becomes(g) /\ \A x \in calls : x # c => g[x] = x
                 /\ g[c].stage = "error" /\ g[c].sure = c.sure /\ g[c].guard = c.guard
    BY <1>1, <1>3, <2>1, MoveBecomes
  <2>3. Closed'
    BY <2>1 DEF Closed
  <2>4. c.op.ask # {} /\ g[c].guard \in c.op.ask
    BY <1>2, <2>1, <2>2
  <2> QED BY <1>1, <1>4, <2>1, <2>2, <2>3, <2>4, OneStep DEF Ended
<1>10. CASE Unheard(c)
  <2>1. /\ ~open /\ UNCHANGED <<open, busy, loads, shown, slot>>
        /\ Move(c, IF c.stage = "done" THEN "ok" ELSE "error")
    BY <1>10 DEF Unheard
  <2>2. PICK s \in {"ok", "error"} : Move(c, s)
    BY <2>1
  <2>3. PICK g : /\ Becomes(g) /\ \A x \in calls : x # c => g[x] = x
                 /\ g[c].stage = s /\ g[c].sure = c.sure /\ g[c].guard = c.guard
    BY <1>1, <1>3, <2>2, MoveBecomes
  <2>4. Closed'
    BY <2>1 DEF FlagInv, Closed
  <2> QED BY <1>1, <1>2, <1>4, <2>1, <2>2, <2>3, <2>4, OneStep DEF Ended
<1>11. ASSUME NEW s \in {"ok", "error"}, Move(c, s), Unmount
       PROVE  FlagInv'
  <2>1. PICK g : /\ Becomes(g) /\ \A x \in calls : x # c => g[x] = x
                 /\ g[c].stage = s /\ g[c].sure = c.sure /\ g[c].guard = c.guard
    BY <1>1, <1>3, <1>11, MoveBecomes
  <2> QED BY <1>4, <1>11, <2>1, GoneStep
<1>12. ASSUME NEW s \in {"ok", "error", "reloading"}, Move(c, s), open, open' = open,
              CloseDialog(c), s = "ok" => ~IsDialog(c.op), s = "reloading" => c.op.then = "await",
              busy' = IF s \in Ended THEN Unlock(c) ELSE busy
       PROVE  FlagInv'
  <2>1. PICK g : /\ Becomes(g) /\ \A x \in calls : x # c => g[x] = x
                 /\ g[c].stage = s /\ g[c].sure = c.sure /\ g[c].guard = c.guard
    BY <1>1, <1>3, <1>12, MoveBecomes
  <2>2. Closed'
    BY <1>12 DEF Closed
  <2>3. slot' = slot \/ c.op.ask # {}
    BY <1>2, <1>12 DEF CloseDialog
  <2>4. g[c].stage \notin {"warned", "asked"}
    BY <1>12, <2>1
  <2>5. g[c].sure => g[c].guard \in c.op.ask
    BY <1>2, <2>1
  <2>6. open => busy' = IF g[c].stage \in Ended THEN Unlock(c) ELSE busy
    BY <1>12, <2>1
  <2>7. /\ g[c].stage = "reloading" => c.op.then = "await"
        /\ IsDialog(c.op) /\ g[c].stage = "ok" => ~open
    BY <1>12, <2>1
  <2> QED BY <1>1, <1>4, <1>12, <2>1, <2>2, <2>3, <2>4, <2>5, <2>6, <2>7, OneStep
<1>13. CASE Answered(c)
  <2>1. CASE Closes(c)
    BY <1>11, <2>1 DEF Closes
  <2>2. CASE Reloads(c) \/ Patches(c) \/ Stays(c)
    <3>1. /\ Move(c, "ok") /\ open /\ open' = open /\ CloseDialog(c) /\ busy' = Unlock(c)
          /\ ~IsDialog(c.op)
      BY <1>13, <2>2 DEF Answered, Reloads, Patches, Stays, IsDialog
    <3>2. "ok" \in Ended
      BY DEF Ended
    <3> QED BY <1>12, <3>1, <3>2
  <2>3. CASE AwaitsReload(c)
    <3>1. /\ Move(c, "reloading") /\ open /\ open' = open /\ CloseDialog(c) /\ busy' = busy
          /\ c.op.then = "await"
      BY <1>13, <2>3 DEF Answered, AwaitsReload
    <3>2. "reloading" \notin Ended
      BY DEF Ended
    <3> QED BY <1>12, <3>1, <3>2
  <2> QED BY <1>13, <2>1, <2>2, <2>3 DEF Answered
<1>14. CASE Failed(c)
  <2>1. CASE Unmount
    BY <1>11, <1>14, <2>1 DEF Failed
  <2>2. CASE busy' = Unlock(c) /\ CloseDialog(c) /\ UNCHANGED <<open, shown, loads, missed>>
    <3>1. Move(c, "error") /\ open /\ "error" \in Ended
      BY <1>14 DEF Failed, Ended
    <3> QED BY <1>12, <2>2, <3>1
  <2> QED BY <1>14, <2>1, <2>2 DEF Failed
<1> QED BY <1>5, <1>6, <1>7, <1>8, <1>9, <1>10, <1>13, <1>14, <1>15

\* Loads: the calls that waited for one end with it, and leave no flag of theirs.
LEMMA LoadFlags ==
  ASSUME Base, FlagInv, NEW l \in loads, Serve(l) \/ Show(l) \/ LoadFails(l)
  PROVE  FlagInv'
<1>1. open
  BY DEF FlagInv, Closed
<1>2. UNCHANGED <<open, slot, rushed>>
  BY DEF Serve, Show, LoadFails
<1>3. Closed'
  BY <1>1, <1>2 DEF Closed
<1>4. CASE Serve(l)
  <2>1. UNCHANGED <<calls, busy>>
    BY <1>4 DEF Serve
  <2> QED BY <1>2, <1>3, <2>1, CalmStep
<1>5. CASE Show(l) \/ LoadFails(l)
  <2>1. Release(l)
    BY <1>5 DEF Show, LoadFails
  <2>2. PICK g : /\ Becomes(g)
                 /\ \A c \in calls : IF Waits(c, l) THEN Done(c, g[c]) ELSE g[c] = c
    BY <2>1, BaseFacts, ReleaseBecomes
  <2>3. \A b \in busy' : b \in busy /\ \A c \in calls : Waits(c, l) => b \in Unlock(c)
    BY <2>1 DEF Release, Waits
  <2>4. \A b \in busy : (\A c \in calls : Waits(c, l) => b \in Unlock(c)) => b \in busy'
    BY <2>1 DEF Release, Waits
  <2>5. \A c \in calls : Waits(c, l) => c \in Running /\ c.op.then = "await"
    BY DEF Waits, Running, Ended, FlagInv, Awaited
  <2>6. \A d \in Running' : d \in Running /\ ~Waits(d, l)
    BY <2>2, RunningBefore DEF Running, Ended, Done
  <2>7. \A c \in Running : ~Waits(c, l) => c \in Running'
    <3>1. \A c \in calls : ~Waits(c, l) => c \in calls'
      BY <2>2, RunningBefore
    <3> QED BY <3>1 DEF Running
  <2>8. \A c \in Running : Settling(c) => Settling(c)'
    BY <1>2 DEF Settling
  <2>9. Sole' /\ Overlap' /\ Once'
    BY <1>2, <2>2, StayApart
  <2>10. Warned' /\ Awaited'
    BY <2>2, RunningBefore DEF FlagInv, Warned, Awaited, Same, Done
  <2>11. Gone'
    <3>1. \A c \in calls : Waits(c, l) => ~IsDialog(c.op)
      BY <2>5 DEF IsDialog
    <3> QED BY <1>2, <2>2, <3>1, RunningBefore DEF FlagInv, Gone, Same
  <2>12. Settled'
    BY <1>2, <2>6, <2>8 DEF FlagInv, Settled
  <2>13. LastSettled'
    <3> SUFFICES ASSUME NEW b \in busy', b[1] = "last"
                 PROVE  \E c \in Running' : c.op.lock = "last" /\ Settling(c)'
      BY DEF LastSettled
    <3>1. PICK c \in Running : c.op.lock = "last" /\ Settling(c)
      BY <1>1, <2>3 DEF FlagInv, LastSettled
    <3>2. ~Waits(c, l)
      BY <2>3, <3>1 DEF Unlock, Reset, Running
    <3> QED BY <2>7, <2>8, <3>1, <3>2
  <2>14. Held'
    <3> SUFFICES ASSUME NEW d \in Running', d.op.lock \in Exclusive
                 PROVE  \E b \in busy' : b[1] = d.op.lock
      BY DEF Held
    <3>1. d \in Running /\ ~Waits(d, l)
      BY <2>6
    <3>2. PICK b \in busy : b[1] = d.op.lock
      BY <1>1, <3>1 DEF FlagInv, Held
    <3>3. \A c \in calls : Waits(c, l) => c.op.lock # d.op.lock
      BY <2>5, <3>1 DEF FlagInv, Sole
    <3>4. \A c \in calls : Waits(c, l) => b \in Unlock(c)
      BY <3>2, <3>3 DEF Unlock, Reset
    <3> QED BY <2>4, <3>2, <3>4
  <2>15. Backed'
    <3> SUFFICES ASSUME NEW b \in busy' PROVE \E c \in Running' : Backs(c, b)
      BY DEF Backed
    <3>1. PICK c \in Running : Backs(c, b)
      BY <2>3 DEF FlagInv, Backed
    <3>2. ~Waits(c, l)
      BY <2>3, <3>1 DEF Unlock, Reset, Backs, Running
    <3> QED BY <2>7, <3>1, <3>2
  <2> QED BY <1>3, <2>9, <2>10, <2>11, <2>12, <2>13, <2>14, <2>15 DEF FlagInv
<1> QED BY <1>4, <1>5

\* Every step keeps the flags backed and the dialogs single.
LEMMA FlagNext == Base /\ FlagInv /\ [Next]_vars => FlagInv'
<1> SUFFICES ASSUME Base, FlagInv, [Next]_vars PROVE FlagInv'
  OBVIOUS
<1>1. CASE Tick \/ \E k \in Subject : Select(k)
  <2>1. open /\ UNCHANGED <<open, calls, busy, slot>> /\ (rushed => rushed')
    BY <1>1 DEF Tick, Select
  <2>2. Closed'
    BY <2>1 DEF Closed
  <2> QED BY <2>1, <2>2, CalmStep
<1>2. CASE Leave
  <2>1. PICK g : /\ Becomes(g)
                 /\ \A c \in calls : g[c].stage = CASE c.stage = "reloading" -> "ok"
                                                    [] c.stage = "asked" -> "error"
                                                    [] OTHER -> c.stage
                 /\ \A c \in calls : /\ g[c].ran = c.ran /\ g[c].sure = c.sure
                                     /\ g[c].guard = c.guard
    BY <1>2, BaseFacts, LeaveBecomes
  <2>2. Unmount /\ rushed' = rushed
    BY <1>2 DEF Leave
  <2>3. Warned' /\ Awaited'
    BY <2>1, RunningBefore DEF FlagInv, Warned, Awaited, Same
  <2>4. Sole' /\ Overlap' /\ Once'
    BY <2>1, <2>2, StayApart
  <2>5. Closed' /\ Held' /\ Settled' /\ LastSettled' /\ Backed' /\ Gone'
    BY <2>2 DEF Unmount, Closed, Held, Settled, LastSettled, Backed, Gone
  <2> QED BY <2>3, <2>4, <2>5 DEF FlagInv
<1>3. CASE \E o \in screen.ops, r \in Row : Click(o, r)
  BY <1>3, ClickFlags
<1>4. CASE \E c \in calls :
             \/ Confirm(c) \/ Cancel(c) \/ Run(c) \/ Refuse(c) \/ LoseAnswer(c) \/ Answered(c)
             \/ Failed(c) \/ Unheard(c) \/ Warn(c) \/ Ask(c)
  BY <1>4, CallFlags
<1>5. CASE \E l \in loads : Serve(l) \/ Show(l) \/ LoadFails(l)
  BY <1>5, LoadFlags
<1>6. CASE UNCHANGED vars
  <2>1. UNCHANGED <<open, calls, busy, slot, rushed, loads, shown>>
    BY <1>6 DEF vars
  <2>2. Closed'
    BY <2>1 DEF FlagInv, Closed
  <2> QED BY <2>1, <2>2, CalmStep
<1> QED BY <1>1, <1>2, <1>3, <1>4, <1>5, <1>6 DEF Next, User, CallStep, LoadStep

\* Flags and dialogs in every reachable state.
LEMMA AlwaysFlags == Spec => [](Base /\ FlagInv)
  BY BaseInit, BaseNext, FlagInit, FlagNext, PTL DEF Spec

\* No button of any screen is dead: whatever fails, and in whatever order calls,
\* warnings and reloads end, a flag that is set belongs to a call that will reset it.
THEOREM FlagsCorrect == Spec => []FlagsAreBacked
<1>1. Base /\ FlagInv => FlagsAreBacked
  <2> SUFFICES ASSUME Base, FlagInv, NEW b \in busy
               PROVE  \E c \in Running : Settling(c) /\ c.op.lock = b[1]
                                          /\ (b[1] = "each" => c.row = b[2])
    BY DEF FlagsAreBacked
  <2>1. open
    BY DEF FlagInv, Closed
  <2>2. PICK c \in Running : Backs(c, b)
    BY DEF FlagInv, Backed
  <2>3. CASE b[1] = "last"
    BY <2>1, <2>3 DEF FlagInv, LastSettled
  <2>4. CASE b[1] # "last"
    BY <2>1, <2>2, <2>4 DEF FlagInv, Settled, Backs
  <2> QED BY <2>3, <2>4
<1> QED BY <1>1, AlwaysFlags, PTL

\* No dialog has its operation carried out twice, unless its user was told that the
\* first attempt failed.
THEOREM DialogCorrect == Spec => []DialogRunsOnce
<1>1. Base /\ FlagInv => DialogRunsOnce
  <2> SUFFICES ASSUME Base, FlagInv, NEW o \in screen.ops, o.then \in {"close", "leave"}
               PROVE  Cardinality({c \in calls : c.op = o /\ c.ran /\ c.stage # "error"}) <= 1
    BY DEF DialogRunsOnce
  <2> DEFINE S == {c \in calls : c.op = o /\ c.ran /\ c.stage # "error"}
  <2>1. \A c, d \in S : c = d
    BY DEF FlagInv, Once, IsDialog
  <2>2. CASE S = {}
    BY <2>2, FS_EmptySet
  <2>3. CASE S # {}
    <3>1. PICK c \in S : TRUE
      BY <2>3
    <3>2. S = {c}
      BY <2>1, <3>1
    <3>3. Cardinality({c}) = 1
      BY FS_Singleton
    <3> HIDE DEF S
    <3>4. Cardinality(S) <= 1
      BY <3>2, <3>3
    <3> QED BY <3>4 DEF S
  <2> QED BY <2>2, <2>3
<1> QED BY <1>1, AlwaysFlags, PTL

-----------------------------------------------------------------------------
(* The user's own changes                                                  *)
-----------------------------------------------------------------------------
\* The changes of the selected subject that the user was, or will be, told of.
Reports(c) == /\ c.stage \in {"ok", "reloading"} /\ c.ran
              /\ c.op.then \in {"reload", "await", "patch"}
Told == {c.id : c \in {d \in calls : Reports(d) /\ d.key = subject}}

\* Whatever may still be shown has all of them, and if the screen does not, a load
\* is on its way that will bring them, or one has failed.
\* Those whose reload joined an older fetch are not counted.
Fresh == \A l \in loads : l.live /\ l.served => Told \ missed \subseteq l.seen
Caught == \/ failed \/ shown = None \/ shown.key # subject
          \/ Told \ missed \subseteq shown.seen
          \/ \E l \in loads : l.live

\* The fetch that a query may join counts already.
Counting == screen.load = "query" => \A l \in loads : l.key = subject => l.live

OwnInv == Counting /\ (Orderly => Fresh /\ Caught)

\* Who is orderly after a step was so before it.
LEMMA OrderlyBefore ==
  ASSUME screen' = screen, rushed => rushed'
  PROVE  Orderly' => Orderly
  BY DEF Orderly, Sieved

\* No call reports anything new.
LEMMA ToldKept ==
  ASSUME NEW g, Becomes(g), subject' = subject,
         \A c \in calls : Reports(g[c]) => Reports(c)
  PROVE  Told' \subseteq Told
<1> SUFFICES ASSUME NEW n \in Told' PROVE n \in Told
  OBVIOUS
<1>1. PICK d \in calls' : Reports(d) /\ d.key = subject' /\ n = d.id
  BY DEF Told, Reports
<1>2. PICK c \in calls : d = g[c] /\ Same(c, d)
  BY RunningBefore
<1>3. Reports(c) /\ c.key = subject /\ n = c.id
  BY <1>1, <1>2 DEF Same
<1> QED BY <1>3 DEF Told

\* A step that shows nothing and reports nothing.
LEMMA SilentStep ==
  ASSUME OwnInv, Told' \subseteq Told,
         UNCHANGED <<screen, subject, shown, loads, failed, missed>>, rushed => rushed'
  PROVE  OwnInv'
<1>1. Counting'
  BY DEF OwnInv, Counting
<1> SUFFICES ASSUME Orderly' PROVE Fresh' /\ Caught'
  BY <1>1 DEF OwnInv
<1>2. Fresh /\ Caught
  BY OrderlyBefore DEF OwnInv
<1>3. Fresh'
  BY <1>2 DEF Fresh
<1>4. Caught'
  BY <1>2 DEF Caught
<1> QED BY <1>3, <1>4

\* The screen has nothing to show.
LEMMA EmptyStep ==
  ASSUME loads' = {}, shown' = None
  PROVE  OwnInv'
  BY DEF OwnInv, Counting, Fresh, Caught

\* A query retires the fetches of the other subjects.
LEMMA RetiredKeys ==
  ASSUME NEW k, \A l \in loads : LoadShape(l), screen.load = "query"
  PROVE  \A m \in Retired(loads \ Fetching(k)) : ~m.live /\ m.key # k
<1>1. \A l \in loads \ Fetching(k) : LoadShape(l) /\ l.key # k
  BY DEF Fetching
<1>2. \A l \in loads \ Fetching(k) : LET m == [l EXCEPT !.live = FALSE]
                                     IN  m.live = FALSE /\ m.key = l.key
  BY <1>1 DEF LoadShape
<1> HIDE DEF LoadShape
<1> QED BY <1>1, <1>2 DEF Retired

\* A load that starts has not been served, and retires those that were.
LEMMA StartStep ==
  ASSUME NEW k, NEW i, StartLoad(k, i), \A l \in loads : LoadShape(l), screen' = screen,
         screen.load = "query" => k = subject'
  PROVE  Counting' /\ (Sieved \/ loads = {} => Fresh' /\ Caught')
<1> DEFINE old == Retired(loads \ Fetching(k))
<1>1. PICK w : loads' = old \cup {Load(k, w)}
  BY DEF StartLoad
<1>2. Load(k, w).live = TRUE /\ Load(k, w).served = FALSE
  BY DEF Load
<1>3. Counting'
  <2> SUFFICES ASSUME screen.load = "query" PROVE \A l \in loads' : l.key = subject' => l.live
    BY DEF Counting
  <2>1. \A l \in old : l.key # k
    BY RetiredKeys
  <2> HIDE DEF old
  <2> QED BY <1>1, <1>2, <2>1
<1>4. ASSUME Sieved \/ loads = {} PROVE Fresh' /\ Caught'
  <2>1. \A l \in old : ~l.live
    <3>1. CASE Sieved
      <4>1. \A l \in loads \ Fetching(k) : LoadShape(l)
        OBVIOUS
      <4> QED BY <3>1, <4>1, RetiredLoads DEF Sieved
    <3>2. CASE loads = {}
      BY <3>2 DEF Retired
    <3> QED BY <1>4, <3>1, <3>2
  <2> HIDE DEF old
  <2>2. Fresh'
    BY <1>1, <1>2, <2>1 DEF Fresh
  <2>3. Caught'
    BY <1>1, <1>2 DEF Caught
  <2> QED BY <2>2, <2>3
<1> QED BY <1>3, <1>4

\* A fetch that is joined counts, with what it has read.
LEMMA JoinStep ==
  ASSUME NEW k, NEW i, NEW told, JoinLoad(k, i, told), \A l \in loads : LoadShape(l),
         screen' = screen, screen.load = "query", k = subject'
  PROVE  /\ Counting'
         /\ \A l \in loads' : l.live => \E m \in Fetching(k) : l.served = m.served /\ l.seen = m.seen
         /\ Fetching(k) # {} => \E l \in loads' : l.live
<1> DEFINE old == Retired(loads \ Fetching(k))
           new == {Joined(l, i) : l \in Fetching(k)}
<1>1. loads' = old \cup new
  BY DEF JoinLoad
<1>2. \A l \in old : ~l.live /\ l.key # k
  BY RetiredKeys
<1>3. \A l \in Fetching(k) : LoadShape(l)
  BY DEF Fetching
<1>4. \A l \in new : l.live /\ \E m \in Fetching(k) : l.served = m.served /\ l.seen = m.seen
  BY <1>3, JoinedLoad
<1>5. Fetching(k) # {} => new # {}
  OBVIOUS
<1> HIDE DEF old, new
<1>6. Counting'
  BY <1>1, <1>2, <1>4 DEF Counting
<1> QED BY <1>1, <1>2, <1>4, <1>5, <1>6

\* A reload: a load starts that will have every change, or a fetch is joined that has
\* all but those the reload is for.
LEMMA ReloadOwn ==
  ASSUME ShowsInv, OwnInv, NEW k, NEW i, NEW told, Reload(k, i, told),
         screen' = screen, subject' = subject, screen.load = "query" => k = subject,
         Told' \subseteq Told \cup told,
         Orderly' => Orderly /\ (Sieved \/ loads = {})
  PROVE  OwnInv'
<1>1. \A l \in loads : LoadShape(l)
  BY DEF ShowsInv, Shapes
<1>2. CASE StartLoad(k, i)
  BY <1>1, <1>2, StartStep DEF OwnInv
<1>3. CASE JoinLoad(k, i, told) /\ Fetching(k) # {}
  <2>1. screen.load = "query" /\ k = subject
    BY <1>3 DEF Fetching
  <2>2. /\ Counting'
        /\ \A l \in loads' : l.live => \E m \in Fetching(k) : l.served = m.served /\ l.seen = m.seen
        /\ \E l \in loads' : l.live
    BY <1>1, <1>3, <2>1, JoinStep
  <2>3. \A m \in Fetching(k) : m \in loads /\ m.live
    BY <2>1 DEF Fetching, OwnInv, Counting
  <2>4. missed' = missed \cup told
    BY <1>3 DEF JoinLoad
  <2>5. ASSUME Orderly' PROVE Fresh'
    <3>1. Fresh
      BY <2>5 DEF OwnInv
    <3>2. Told' \ missed' \subseteq Told \ missed
      BY <2>4
    <3> QED BY <2>2, <2>3, <3>1, <3>2 DEF Fresh
  <2>6. Caught'
    BY <2>2 DEF Caught
  <2> QED BY <2>2, <2>5, <2>6 DEF OwnInv
<1> QED BY <1>2, <1>3 DEF Reload

\* A load that was served has every change.
LEMMA ServeOwn ==
  ASSUME Base, ShowsInv, OwnInv, NEW l \in loads, Serve(l)
  PROVE  OwnInv'
<1> DEFINE m == [l EXCEPT !.served = TRUE, !.seen = Changes(l.key)]
<1>1. /\ loads' = (loads \ {l}) \cup {m}
      /\ UNCHANGED <<screen, subject, shown, calls, rushed, failed, missed>>
  BY DEF Serve
<1>2. m.key = l.key /\ m.live = l.live /\ m.seen = Changes(l.key)
  BY BaseFacts DEF LoadType
<1> HIDE DEF m
<1>8. Counting'
  BY <1>1, <1>2 DEF OwnInv, Counting
<1> SUFFICES ASSUME Orderly' PROVE Fresh' /\ Caught'
  BY <1>8 DEF OwnInv
<1>3. Orderly /\ Fresh /\ Caught /\ Told' = Told
  BY <1>1 DEF Orderly, Sieved, OwnInv, Told
<1>4. l.live => l.key = subject
  BY <1>3 DEF ShowsInv, LiveLoadsFit, Orderly
<1>5. l.live => Told \subseteq m.seen
  BY <1>2, <1>4 DEF Told, Reports, Changes
<1>6. Fresh'
  BY <1>1, <1>2, <1>3, <1>5 DEF Fresh
<1>7. Caught'
  BY <1>1, <1>2, <1>3 DEF Caught
<1> QED BY <1>6, <1>7

\* A load that is shown brings every change; one that fails is reported.
LEMMA ShowOwn ==
  ASSUME Base, ShowsInv, OwnInv, NEW l \in loads, Show(l) \/ LoadFails(l)
  PROVE  OwnInv'
<1>1. /\ loads' = loads \ {l} /\ Release(l) /\ UNCHANGED <<screen, subject, rushed, missed>>
      /\ l \in LoadType /\ failed \in BOOLEAN
  BY BaseFacts DEF Show, LoadFails
<1>2. PICK g : /\ Becomes(g)
               /\ \A c \in calls : IF Waits(c, l) THEN Done(c, g[c]) ELSE g[c] = c
  BY <1>1, BaseFacts, ReleaseBecomes
<1>3. Told' \subseteq Told
  <2>1. \A c \in calls : Reports(g[c]) => Reports(c)
    BY <1>2 DEF Becomes, Same, Reports, Waits, Done
  <2> QED BY <1>1, <1>2, <2>1, ToldKept
<1>9. Counting'
  BY <1>1 DEF OwnInv, Counting
<1> SUFFICES ASSUME Orderly' PROVE Fresh' /\ Caught'
  BY <1>9 DEF OwnInv
<1>4. Orderly /\ Fresh /\ Caught
  BY <1>1 DEF Orderly, Sieved, OwnInv
<1>5. Fresh'
  BY <1>1, <1>3, <1>4 DEF Fresh
<1>6. CASE ~l.live
  <2>1. shown' = shown /\ (failed => failed')
    BY <1>1, <1>6 DEF Show, LoadFails
  <2> QED BY <1>1, <1>3, <1>4, <1>5, <1>6, <2>1 DEF Caught
<1>7. CASE l.live /\ LoadFails(l)
  <2>1. failed'
    BY <1>7 DEF LoadFails
  <2> QED BY <1>5, <2>1 DEF Caught
<1>8. CASE l.live /\ Show(l)
  <2>1. shown' = [key |-> l.key, seen |-> l.seen] /\ l.served
    BY <1>8 DEF Show
  <2>2. Told \ missed \subseteq l.seen
    BY <1>4, <1>8, <2>1 DEF Fresh
  <2>3. Told' \ missed' \subseteq shown'.seen
    BY <1>1, <1>3, <2>1, <2>2
  <2> QED BY <1>5, <2>3 DEF Caught
<1> QED BY <1>6, <1>7, <1>8

\* A call that goes on without an answer, or ends with an error.
LEMMA MuteOwn ==
  ASSUME Base, OwnInv, NEW c \in calls,
         \/ Confirm(c) \/ Cancel(c) \/ Run(c) \/ Refuse(c) \/ LoseAnswer(c) \/ Warn(c) \/ Ask(c)
         \/ (Failed(c) /\ UNCHANGED <<shown, loads, missed>>)
  PROVE  OwnInv'
<1>1. UNCHANGED <<screen, subject, shown, loads, rushed, failed, missed>>
  BY DEF Confirm, Cancel, Run, Refuse, LoseAnswer, Warn, Ask, Failed
<1>2. c \in CallType /\ calls \subseteq CallType
  BY BaseFacts
<1>3. PICK d : /\ calls' = (calls \ {c}) \cup {d}
               /\ d.stage \notin {"ok", "reloading"}
  <2>1. \A s \in Stages : [c EXCEPT !.stage = s].stage = s
    BY <1>2, StageSet
  <2>2. [c EXCEPT !.stage = "done", !.ran = TRUE].stage = "done"
    BY <1>2, RanSet
  <2>3. [c EXCEPT !.stage = "sent", !.sure = TRUE].stage = "sent"
    BY <1>2, SureSet
  <2>4. CASE Run(c)
    BY <2>2, <2>4 DEF Run
  <2>5. CASE Confirm(c)
    BY <2>3, <2>5 DEF Confirm
  <2>7. CASE Warn(c)
    <3>1. PICK w \in c.op.ask :
            calls' = (calls \ {c}) \cup {[c EXCEPT !.stage = "warned", !.guard = w]}
      BY <2>7 DEF Warn
    <3>2. w \in Guards
      BY <1>2, <3>1, BaseFacts, CallFields, ScreensAssumption
    <3>3. [c EXCEPT !.stage = "warned", !.guard = w].stage = "warned"
      BY <1>2, <3>2, WarnSet
    <3> QED BY <3>1, <3>3
  <2>6. CASE \/ Cancel(c) \/ Refuse(c) \/ LoseAnswer(c) \/ Ask(c) \/ Failed(c)
    <3>1. PICK s \in {"error", "refused", "lost", "asked"} : Move(c, s)
      BY <2>6 DEF Cancel, Refuse, LoseAnswer, Ask, Failed
    <3>2. s \in Stages /\ s \notin {"ok", "reloading"}
      BY DEF Stages
    <3> QED BY <2>1, <3>1, <3>2 DEF Move
  <2> QED BY <2>4, <2>5, <2>6, <2>7
<1>4. Told' \subseteq Told
  BY <1>1, <1>3 DEF Told, Reports
<1> QED BY <1>1, <1>4, SilentStep

\* An answer: a reload starts, a patch is applied, or nothing is reported.
LEMMA AnsweredOwn ==
  ASSUME Base, ShowsInv, OwnInv, NEW c \in calls, Answered(c)
  PROVE  OwnInv'
<1>1. /\ UNCHANGED <<screen, subject, failed>> /\ c.stage = "done"
      /\ rushed' = (rushed \/ loads # {} \/ Running # {c})
  BY DEF Answered
<1>2. c \in CallType /\ calls \subseteq CallType /\ c \in Running
  BY <1>1, BaseFacts DEF Running, Ended
<1>3. \A s \in {"ok", "reloading"} : Move(c, s) =>
         /\ Told' \subseteq Told \cup {c.id}
         /\ c.key # subject => Told' \subseteq Told
  <2> SUFFICES ASSUME NEW s \in {"ok", "reloading"}, Move(c, s)
               PROVE  /\ Told' \subseteq Told \cup {c.id}
                      /\ c.key # subject => Told' \subseteq Told
    OBVIOUS
  <2> DEFINE d == [c EXCEPT !.stage = s]
  <2>1. d.id = c.id /\ d.key = c.key
    BY <1>2, StageSet DEF Stages, Same
  <2>2. calls' = (calls \ {c}) \cup {d}
    BY DEF Move
  <2> HIDE DEF d
  <2> QED BY <1>1, <2>1, <2>2 DEF Told
<1>4. CASE Closes(c)
  BY <1>4, EmptyStep DEF Closes, Unmount
<1>5. CASE Reloads(c) \/ AwaitsReload(c)
  <2>1. PICK s \in {"ok", "reloading"} : Move(c, s)
    BY <1>5 DEF Reloads, AwaitsReload
  <2>2. Orderly' => Orderly /\ (Sieved \/ loads = {})
    BY <1>1 DEF Orderly, Sieved
  <2>3. CASE \E i : Reload(Target(c), i, {c.id})
    <3>1. screen.load = "query" => Target(c) = subject
      BY DEF Target
    <3> QED BY <1>1, <1>3, <2>1, <2>2, <2>3, <3>1, ReloadOwn
  <2>4. CASE c.key # subject /\ UNCHANGED <<loads, missed>>
    <3>1. shown' = shown /\ (rushed => rushed')
      BY <1>1, <1>5 DEF Reloads, AwaitsReload
    <3> QED BY <1>1, <1>3, <2>1, <2>4, <3>1, SilentStep
  <2> QED BY <1>5, <2>3, <2>4 DEF Reloads, AwaitsReload
<1>6. CASE Patches(c)
  <2>8. Counting'
    BY <1>1, <1>6 DEF Patches, OwnInv, Counting
  <2> SUFFICES ASSUME Orderly' PROVE Fresh' /\ Caught'
    BY <2>8 DEF OwnInv
  <2>1. c.op \in screen.ops /\ c.op.then = "patch"
    BY <1>2, <1>6, CallFields DEF Patches
  <2>2. ~rushed' /\ ~rushed /\ loads = {}
    BY <1>1, <2>1 DEF Orderly
  <2>3. c.key = subject
    BY <1>2, <2>2 DEF ShowsInv, CallsFit
  <2>4. loads' = {} /\ missed' = missed /\ Caught
    BY <1>6, <2>2 DEF Patches, OwnInv, Orderly
  <2>5. Told' \subseteq Told \cup {c.id}
    BY <1>3, <1>6 DEF Patches
  <2>6. Fresh'
    BY <2>4 DEF Fresh
  <2>7. Caught'
    <3>1. CASE failed \/ shown = None
      BY <1>1, <1>6, <3>1 DEF Patches, Caught
    <3>2. CASE shown # None /\ shown.key # subject
      BY <1>1, <1>6, <2>3, <3>2 DEF Patches, Caught
    <3>3. CASE shown # None /\ shown.key = subject /\ Told \ missed \subseteq shown.seen
      <4>1. shown' = [shown EXCEPT !.seen = @ \cup {c.id}]
        BY <1>6, <2>3, <3>3 DEF Patches
      <4>2. shown'.seen = shown.seen \cup {c.id}
        BY <3>3, <4>1, BaseFacts DEF ShownType
      <4>3. Told' \ missed' \subseteq shown'.seen
        BY <2>4, <2>5, <3>3, <4>2
      <4> QED BY <4>3 DEF Caught
    <3> QED BY <2>2, <2>4, <3>1, <3>2, <3>3 DEF Caught
  <2> QED BY <2>6, <2>7
<1>7. CASE Stays(c)
  <2> DEFINE d == [c EXCEPT !.stage = "ok"]
  <2>1. d.op = c.op /\ c.op.then = "stay"
    BY <1>2, <1>7, StageSet DEF Stages, Same, Stays
  <2>2. calls' = (calls \ {c}) \cup {d} /\ UNCHANGED <<shown, loads, missed>>
    BY <1>7 DEF Stays, Move
  <2> HIDE DEF d
  <2>3. Told' \subseteq Told
    BY <1>1, <2>1, <2>2 DEF Told, Reports
  <2> QED BY <1>1, <2>2, <2>3, SilentStep
<1> QED BY <1>4, <1>5, <1>6, <1>7 DEF Answered

\* At the start nothing was done.
LEMMA OwnInit == Init => OwnInv
<1> SUFFICES ASSUME Init PROVE OwnInv
  OBVIOUS
<1>1. Told = {}
  BY DEF Init, Told
<1>2. \A l \in loads : l.live
  BY DEF Init, FirstLoad
<1> QED BY <1>1, <1>2 DEF OwnInv, Counting, Fresh, Caught

\* Another subject is selected.
LEMMA SelectOwn ==
  ASSUME ShowsInv, OwnInv, NEW k \in Subject, Select(k)
  PROVE  OwnInv'
<1>1. /\ screen' = screen /\ subject' = k /\ calls' = calls /\ rushed' = (rushed \/ ~Quiet)
      /\ \A l \in loads : LoadShape(l)
  BY DEF Select, ShowsInv, Shapes
<1>2. Orderly' => Sieved \/ loads = {}
  BY <1>1 DEF Orderly, Sieved, Quiet
<1>3. CASE StartLoad(k, {})
  BY <1>1, <1>2, <1>3, StartStep DEF OwnInv
<1>4. CASE screen.load = "none"
  <2>1. loads' = {} /\ shown' = None
    BY <1>4 DEF Select, EffectRuns, KeyChanges, ShowsInv
  <2> QED BY <2>1, EmptyStep
<1>5. CASE screen.load = "query" /\ JoinLoad(k, {}, Changes(k))
  <2>1. Counting'
    BY <1>1, <1>5, JoinStep
  <2>2. Told' \subseteq missed'
    <3>1. Told' \subseteq Changes(k)
      BY <1>1 DEF Told, Reports, Changes
    <3> QED BY <1>5, <3>1 DEF JoinLoad
  <2>3. Fresh'
    BY <2>2 DEF Fresh
  <2>4. Caught'
    BY <2>2 DEF Caught
  <2> QED BY <2>1, <2>3, <2>4 DEF OwnInv
<1> QED BY <1>3, <1>4, <1>5 DEF Select, EffectRuns, KeyChanges

\* A tick, or another reload that no call of the screen asked for.
LEMMA TickOwn ==
  ASSUME ShowsInv, OwnInv, Tick
  PROVE  OwnInv'
<1>1. /\ UNCHANGED <<screen, subject, shown, calls, failed>> /\ rushed' = (rushed \/ ~Quiet)
  BY DEF Tick
<1>2. Orderly' => Orderly /\ (Sieved \/ loads = {})
  BY <1>1 DEF Orderly, Sieved, Quiet
<1>3. Told' = Told
  BY <1>1 DEF Told
<1>4. CASE UNCHANGED <<loads, missed>>
  BY <1>1, <1>3, <1>4, SilentStep
<1>5. CASE Reload(subject, {}, {})
  BY <1>1, <1>2, <1>3, <1>5, ReloadOwn
<1> QED BY <1>4, <1>5 DEF Tick

\* Every step keeps it.
LEMMA OwnNext == Base /\ FlagInv /\ ShowsInv /\ OwnInv /\ [Next]_vars => OwnInv'
<1> SUFFICES ASSUME Base, FlagInv, ShowsInv, OwnInv, [Next]_vars PROVE OwnInv'
  OBVIOUS
<1>2. ASSUME Tick \/ \E k \in Subject : Select(k) PROVE OwnInv'
  BY <1>2, SelectOwn, TickOwn
<1>3. ASSUME Leave PROVE OwnInv'
  BY <1>3, EmptyStep DEF Leave, Unmount
<1>4. ASSUME NEW o \in screen.ops, NEW r \in Row, Click(o, r) PROVE OwnInv'
  <2> DEFINE d == [id |-> Cardinality(calls) + 1, op |-> o, row |-> r, key |-> subject,
                   stage |-> "sent", ran |-> FALSE, sure |-> FALSE, guard |-> None]
  <2>1. /\ calls' = calls \cup {d} /\ (rushed => rushed')
        /\ UNCHANGED <<screen, subject, shown, loads, failed, missed>>
    BY <1>4 DEF Click
  <2>2. d.stage = "sent"
    OBVIOUS
  <2> HIDE DEF d
  <2>3. Told' \subseteq Told
    BY <2>1, <2>2 DEF Told, Reports
  <2> QED BY <2>1, <2>3, SilentStep
<1>5. ASSUME NEW c \in calls, \/ Confirm(c) \/ Cancel(c) \/ Run(c) \/ Refuse(c)
                              \/ LoseAnswer(c) \/ Warn(c) \/ Ask(c)
      PROVE  OwnInv'
  BY <1>5, MuteOwn
<1>6. ASSUME NEW c \in calls, Failed(c) PROVE OwnInv'
  <2>1. CASE Unmount
    BY <2>1, EmptyStep DEF Unmount
  <2>2. CASE UNCHANGED <<shown, loads, missed>>
    BY <1>6, <2>2, MuteOwn
  <2> QED BY <1>6, <2>1, <2>2 DEF Failed
<1>7. ASSUME NEW c \in calls, Unheard(c) PROVE OwnInv'
  <2>1. loads' = {} /\ shown' = None
    BY <1>7 DEF Unheard, FlagInv, Closed
  <2> QED BY <2>1, EmptyStep
<1>8. ASSUME NEW c \in calls, Answered(c) PROVE OwnInv'
  BY <1>8, AnsweredOwn
<1>9. ASSUME NEW l \in loads, Serve(l) \/ Show(l) \/ LoadFails(l) PROVE OwnInv'
  BY <1>9, ServeOwn, ShowOwn
<1>10. ASSUME UNCHANGED vars PROVE OwnInv'
  <2>1. UNCHANGED <<screen, subject, shown, loads, failed, calls, rushed, missed>>
    BY <1>10 DEF vars
  <2>2. Told' \subseteq Told
    BY <2>1 DEF Told
  <2> QED BY <2>1, <2>2, SilentStep
<1> QED BY <1>2, <1>3, <1>4, <1>5, <1>6, <1>7, <1>8, <1>9, <1>10
        DEF Next, User, CallStep, LoadStep

\* When everything has been answered, the rows of the selected subject include every
\* change its user was told of: in every order of clicks and answers where the reloads
\* are guarded or queries, and for a user who waits elsewhere. The one exception is a
\* call whose reload found the query's first fetch under way and joined it.
THEOREM OwnChangesCorrect == Spec => []OwnChangesShown
<1>1. OwnInv => OwnChangesShown
  <2> SUFFICES ASSUME OwnInv, Quiet, shown # None, ~failed, Orderly, shown.key = subject
               PROVE  Reported \ missed \subseteq shown.seen
    BY DEF OwnChangesShown
  <2>1. Told \ missed \subseteq shown.seen
    BY DEF OwnInv, Caught, Quiet
  <2>2. Reported \subseteq Told
    BY DEF Reported, Told, Reports
  <2> QED BY <2>1, <2>2
<1> QED BY <1>1, AlwaysFlags, ShowsInvInit, ShowsInvNext, OwnInit, OwnNext, PTL DEF Spec

=============================================================================
