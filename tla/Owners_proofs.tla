--------------------------- MODULE Owners_proofs ---------------------------
(***************************************************************************)
(* Proofs about the ownership ledger, for any numbers of users, nodes, VMs *)
(* and handlers in flight; NoSilentOrphan, TransferConserves and           *)
(* LimitRespected, which handlers that overlap break, for one at a time.   *)
(***************************************************************************)
EXTENDS Owners, FiniteSetTheorems, TLAPS

(* The statements that a handler of each operation may still execute.      *)
StepsOf(op) ==
    CASE op = "add"           -> {"limit", "user", "insert"}
      [] op = "remove"        -> {"owner", "last", "soft_delete"}
      [] op = "transfer"      -> {"limit", "owner", "user", "move"}
      [] op = "adopt"         -> {"vacant", "limit", "insert"}
      [] op = "deploy"        -> {"run", "resolve", "user", "limit", "insert"}
      [] op = "clone"         -> {"run", "resolve", "limit", "user", "insert"}
      [] op = "template"      -> {"resolve", "untemplate"}
      [] op = "refresh"       -> {"snapshot", "owned", "drop"}
      [] op = "orphan_user"   -> {"count", "entries", "orphan", "drop_user"}
      [] op = "transfer_user" -> {"count", "entries", "hand_over", "drop_user"}
      [] op = "delete_node"   -> {"forget", "last_node", "drop_node"}
      [] OTHER                -> {}

VmOps == {"add", "remove", "transfer", "adopt", "deploy", "clone", "template"}
UserOps == {"add", "remove", "transfer", "adopt", "deploy", "clone",
            "orphan_user", "transfer_user"}
NodeOnlyOps == {"refresh", "delete_node"}

(* The parameters an operation was started with are there.                 *)
HasArguments(l) ==
    /\ l.op \in VmOps => l.vm \in VM
    /\ l.op \in UserOps => l.user \in User
    /\ l.op \in NodeOnlyOps => l.node \in Node

(* A hand-over without a target never gets to its loop.                    *)
NoTarget(l) ==
    l.op = "transfer_user" /\ l.other = None =>
        l.steps \in {<<"count", "entries", "hand_over", "drop_user">>,
                     <<"drop_user">>, <<>>}

LocalOK(l) ==
    /\ l \in Local
    /\ l.steps \in Seq(StepsOf(l.op))
    /\ HasArguments(l)
    /\ NoTarget(l)

ProcOK == proc \in [Proc -> Local] /\ \A p \in Proc : LocalOK(proc[p])

(* Every active row has been inserted once: the foreign keys of the users  *)
(* and nodes look at all rows, so they hold on to those of active rows.    *)
LiveCounted == \A r \in live : ever[r] > 0

(* The tables, apart from the handlers.                                    *)
Tables ==
    /\ live \subseteq Row
    /\ ever \in [Row -> 0..MaxRows]
    /\ users \in [User -> {"active", "inactive", "gone"}]
    /\ nodes \subseteq Node
    /\ exists \subseteq VM
    /\ LiveCounted
    /\ ForeignKeys

IInv == ProcOK /\ Tables

-----------------------------------------------------------------------------
(* The control of a handler.                                               *)

LEMMA StepsOfType == \A op \in AllOps \cup {"none"} : StepsOf(op) \subseteq StepName
  BY DEF StepsOf, StepName, AllOps

LEMMA SeqMono ==
  ASSUME NEW S, NEW T, S \subseteq T, NEW s \in Seq(S)
  PROVE  s \in Seq(T)
  OBVIOUS

LEMMA IdleOK == LocalOK(Idle) /\ Idle \in Local
  BY DEF LocalOK, Idle, Local, HasArguments, NoTarget, VmOps, UserOps,
         NodeOnlyOps, StepsOf, AllOps, StepName

(* Rewriting the script of a handler.                                      *)
LEMMA StepsOK ==
  ASSUME NEW l, LocalOK(l), NEW s \in Seq(StepsOf(l.op)),
         l.op = "transfer_user" /\ l.other = None => s \in {<<"drop_user">>, <<>>}
  PROVE  LocalOK([l EXCEPT !.steps = s])
  <1>1. s \in Seq(StepName)
    BY StepsOfType, SeqMono DEF LocalOK, Local
  <1>2. [l EXCEPT !.steps = s] \in Local
    BY <1>1 DEF LocalOK, Local
  <1>3. QED
    BY <1>2 DEF LocalOK, Local, HasArguments, NoTarget

LEMMA TailSeq ==
  ASSUME NEW S, NEW s \in Seq(S), s # <<>>
  PROVE  Tail(s) \in Seq(S) /\ Head(s) \in S
  OBVIOUS

LEMMA TailOK ==
  ASSUME NEW l, LocalOK(l), l.steps # <<>>,
         ~(l.op = "transfer_user" /\ l.other = None /\ Head(l.steps) = "count")
  PROVE  LocalOK([l EXCEPT !.steps = Tail(l.steps)])
  <1>1. Tail(l.steps) \in Seq(StepsOf(l.op))
    BY TailSeq DEF LocalOK
  <1>2. l.op = "transfer_user" /\ l.other = None
          => Tail(l.steps) \in {<<"drop_user">>, <<>>}
    <2>1. SUFFICES ASSUME l.op = "transfer_user", l.other = None
                   PROVE  Tail(l.steps) \in {<<"drop_user">>, <<>>}
      OBVIOUS
    <2>2. l.steps \in {<<"count", "entries", "hand_over", "drop_user">>,
                       <<"drop_user">>}
      BY <2>1 DEF LocalOK, NoTarget
    <2>3. l.steps # <<"count", "entries", "hand_over", "drop_user">>
      <3>1. Head(<<"count", "entries", "hand_over", "drop_user">>) = "count"
        OBVIOUS
      <3>2. QED
        BY <2>1, <3>1
    <2>4. Tail(<<"drop_user">>) = <<>>
      OBVIOUS
    <2>5. QED
      BY <2>2, <2>3, <2>4
  <1>3. QED
    BY <1>1, <1>2, StepsOK

LEMMA HeadOK ==
  ASSUME NEW l, LocalOK(l), l.steps # <<>>
  PROVE  Head(l.steps) \in StepsOf(l.op)
  BY DEF LocalOK

LEMMA ProcUpdate ==
  ASSUME ProcOK, NEW p \in Proc, NEW x, LocalOK(x), proc' = [proc EXCEPT ![p] = x]
  PROVE  ProcOK'
  BY DEF ProcOK, LocalOK, HasArguments, NoTarget

LEMMA FinishOK ==
  ASSUME ProcOK, NEW p \in Proc, Finish(p)
  PROVE  ProcOK'
  BY ProcUpdate, IdleOK DEF Finish

LEMMA AdvanceOK ==
  ASSUME ProcOK, NEW p \in Proc, NEW s, At(p, s), Advance(p), s # "count"
  PROVE  ProcOK'
  <1> DEFINE x == [proc[p] EXCEPT !.steps = Tail(proc[p].steps)]
  <1>1. LocalOK(x)
    BY TailOK DEF ProcOK, At
  <1>2. proc' = [proc EXCEPT ![p] = x]
    BY DEF Advance, Goto
  <1> HIDE DEF x
  <1>3. QED
    BY <1>1, <1>2, ProcUpdate

LEMMA AdvanceIfOK ==
  ASSUME ProcOK, NEW p \in Proc, NEW s, At(p, s), NEW c, AdvanceIf(p, c),
         s # "count"
  PROVE  ProcOK'
  BY FinishOK, AdvanceOK DEF AdvanceIf

(* Skipping to the deletion of the user.                                   *)
LEMMA DropUserOK ==
  ASSUME ProcOK, NEW p \in Proc, Goto(p, <<"drop_user">>),
         proc[p].op \in {"orphan_user", "transfer_user"}
  PROVE  ProcOK'
  <1> DEFINE x == [proc[p] EXCEPT !.steps = <<"drop_user">>]
  <1>1. <<"drop_user">> \in Seq(StepsOf(proc[p].op))
    BY DEF StepsOf
  <1>2. LocalOK(x)
    BY <1>1, StepsOK DEF ProcOK
  <1>3. proc' = [proc EXCEPT ![p] = x]
    BY DEF Goto
  <1> HIDE DEF x
  <1>4. QED
    BY <1>2, <1>3, ProcUpdate

(* Filling in what a loop has to do, and what it compares with.            *)
LEMMA TodoOK ==
  ASSUME NEW l, LocalOK(l), NEW t \in SUBSET (VM \X Nat)
  PROVE  LocalOK([l EXCEPT !.todo = t])
  <1>1. [l EXCEPT !.todo = t] \in Local
    BY DEF LocalOK, Local
  <1>2. QED
    BY <1>1 DEF LocalOK, Local, HasArguments, NoTarget

LEMMA SnapOK ==
  ASSUME NEW l, LocalOK(l), NEW t \in SUBSET VM
  PROVE  LocalOK([l EXCEPT !.snap = t])
  <1>1. [l EXCEPT !.snap = t] \in Local
    BY DEF LocalOK, Local
  <1>2. QED
    BY <1>1 DEF LocalOK, Local, HasArguments, NoTarget

LEMMA TodoAdvanceOK ==
  ASSUME ProcOK, NEW p \in Proc, NEW s, At(p, s), s # "count",
         NEW t \in SUBSET (VM \X Nat),
         proc' = [proc EXCEPT ![p].todo = t, ![p].steps = Tail(@)]
  PROVE  ProcOK'
  <1> DEFINE x == [proc[p] EXCEPT !.todo = t]
             y == [x EXCEPT !.steps = Tail(x.steps)]
  <1>1. LocalOK(x)
    BY TodoOK DEF ProcOK
  <1>2. x.steps = proc[p].steps /\ x.op = proc[p].op /\ x.other = proc[p].other
    BY DEF ProcOK, LocalOK, Local
  <1>3. LocalOK(y)
    <2> HIDE DEF x
    <2>1. QED BY <1>1, <1>2, TailOK DEF At
  <1>4. proc' = [proc EXCEPT ![p] = y]
    BY <1>2 DEF ProcOK, LocalOK, Local
  <1> HIDE DEF x, y
  <1>5. QED
    BY <1>3, <1>4, ProcUpdate

LEMMA TodoShrinkOK ==
  ASSUME ProcOK, NEW p \in Proc, NEW e,
         proc' = [proc EXCEPT ![p].todo = @ \ {e}]
  PROVE  ProcOK'
  <1> DEFINE t == proc[p].todo \ {e}
             x == [proc[p] EXCEPT !.todo = t]
  <1>1. t \in SUBSET (VM \X Nat)
    BY DEF ProcOK, LocalOK, Local
  <1>2. LocalOK(x)
    <2> HIDE DEF t
    <2>1. QED BY <1>1, TodoOK DEF ProcOK
  <1>3. proc' = [proc EXCEPT ![p] = x]
    OBVIOUS
  <1> HIDE DEF x
  <1>4. QED
    BY <1>2, <1>3, ProcUpdate

-----------------------------------------------------------------------------
(* The tables.                                                             *)

(* Soft deletes and everything that leaves the tables alone.               *)
LEMMA ShrinkOK ==
  ASSUME Tables, live' \subseteq live, exists' \subseteq VM,
         UNCHANGED <<ever, users, nodes>>
  PROVE  Tables'
  BY DEF Tables, LiveCounted, ForeignKeys

(* An INSERT that the database accepts.                                    *)
LEMMA InsertOK ==
  ASSUME Tables, NEW v \in VM, NEW u \in User, NEW op, NEW kept \in SUBSET live,
         Insertable(v, u, op, kept), Bounded(v, u),
         live' = kept \cup {<<v, u>>},
         ever' = [ever EXCEPT ![<<v, u>>] = @ + 1],
         UNCHANGED <<users, nodes, exists>>
  PROVE  Tables'
  <1>1. <<v, u>> \in Row /\ live' \subseteq Row
    BY DEF Tables, Row
  <1>2. ever' \in [Row -> 0..MaxRows]
    BY <1>1, OwnersAssumption DEF Tables, Bounded
  <1>3. LiveCounted'
    BY <1>1 DEF Tables, LiveCounted
  <1>4. ForeignKeys'
    BY <1>1 DEF Tables, ForeignKeys, Insertable
  <1>5. QED
    BY <1>1, <1>2, <1>3, <1>4 DEF Tables

-----------------------------------------------------------------------------
(* Starting a handler.                                                     *)

LEMMA ScriptOK ==
  \A op \in AllOps : Script(op) \in Seq(StepsOf(op))
  <1>1. SUFFICES ASSUME NEW op \in AllOps PROVE Script(op) \in Seq(StepsOf(op))
    OBVIOUS
  <1>2. CASE op = "add" BY <1>2 DEF Script, StepsOf
  <1>3. CASE op = "remove" BY <1>3 DEF Script, StepsOf
  <1>4. CASE op = "transfer" BY <1>4 DEF Script, StepsOf
  <1>5. CASE op = "adopt" BY <1>5 DEF Script, StepsOf
  <1>6. CASE op = "deploy" BY <1>6 DEF Script, StepsOf
  <1>7. CASE op = "clone" BY <1>7 DEF Script, StepsOf
  <1>8. CASE op = "template" BY <1>8 DEF Script, StepsOf
  <1>9. CASE op = "refresh" BY <1>9 DEF Script, StepsOf
  <1>10. CASE op = "orphan_user" BY <1>10 DEF Script, StepsOf
  <1>11. CASE op = "transfer_user" BY <1>11 DEF Script, StepsOf
  <1>12. CASE op = "delete_node" BY <1>12 DEF Script, StepsOf
  <1>13. QED
    BY <1>1, <1>2, <1>3, <1>4, <1>5, <1>6, <1>7, <1>8, <1>9, <1>10, <1>11,
       <1>12 DEF AllOps

LEMMA BeginOK ==
  ASSUME IInv, NEW p \in Proc, NEW l \in Local, HasArguments(l), Begin(p, l)
  PROVE  IInv'
  <1> DEFINE x == [l EXCEPT !.steps = Script(l.op)]
  <1>1. l.op \in AllOps
    BY OwnersAssumption DEF Begin
  <1>2. Script(l.op) \in Seq(StepsOf(l.op)) /\ Script(l.op) \in Seq(StepName)
    BY <1>1, ScriptOK, StepsOfType, SeqMono
  <1>3. Script("transfer_user") = <<"count", "entries", "hand_over", "drop_user">>
    BY DEF Script
  <1>4. x \in Local /\ x.steps = Script(l.op) /\ x.op = l.op /\ x.vm = l.vm
        /\ x.user = l.user /\ x.other = l.other /\ x.node = l.node
    BY <1>2 DEF Local
  <1>5. proc' = [proc EXCEPT ![p] = x]
    BY DEF Begin
  <1> HIDE DEF x
  <1>6. LocalOK(x)
    BY <1>2, <1>3, <1>4 DEF LocalOK, HasArguments, NoTarget
  <1>7. ProcOK'
    BY <1>5, <1>6, ProcUpdate DEF IInv
  <1>8. Tables'
    BY ShrinkOK DEF Begin, IInv, Tables
  <1>9. QED
    BY <1>7, <1>8 DEF IInv

(* A handler starts with the arguments of its operation.                   *)
Begins(p) == \E l \in Local : HasArguments(l) /\ Begin(p, l)

LEMMA StartBegins ==
  ASSUME NEW p \in Proc, Start(p)
  PROVE  Begins(p)
  <1> USE DEF HasArguments, VmOps, UserOps, NodeOnlyOps
  <1>1. ASSUME NEW actor \in User, NEW v \in VM, NEW u \in User,
               AddCoOwner(p, actor, v, u)
        PROVE  Begins(p)
    <2> DEFINE l == [Idle EXCEPT !.op = "add", !.vm = v, !.user = u]
    <2>1. l \in Local /\ HasArguments(l)
      BY IdleOK DEF Local, AllOps
    <2>2. Begin(p, l)
      BY <1>1 DEF AddCoOwner
    <2> HIDE DEF l
    <2>3. QED
      BY <2>1, <2>2 DEF Begins
  <1>2. ASSUME NEW actor \in User, NEW v \in VM, NEW u \in User,
               NEW orphan \in BOOLEAN, RemoveOwner(p, actor, v, u, orphan)
        PROVE  Begins(p)
    <2> DEFINE l == [Idle EXCEPT !.op = "remove", !.vm = v, !.user = u,
                                !.orphan = orphan]
    <2>1. l \in Local /\ HasArguments(l)
      BY IdleOK DEF Local, AllOps
    <2>2. Begin(p, l)
      BY <1>2 DEF RemoveOwner
    <2> HIDE DEF l
    <2>3. QED
      BY <2>1, <2>2 DEF Begins
  <1>3. ASSUME NEW actor \in User, NEW v \in VM, NEW to \in User,
               TransferOwner(p, actor, v, to)
        PROVE  Begins(p)
    <2> DEFINE l == [Idle EXCEPT !.op = "transfer", !.vm = v, !.user = to,
                                !.other = actor]
    <2>1. l \in Local /\ HasArguments(l)
      BY IdleOK DEF Local, AllOps
    <2>2. Begin(p, l)
      BY <1>3 DEF TransferOwner
    <2> HIDE DEF l
    <2>3. QED
      BY <2>1, <2>2 DEF Begins
  <1>4. ASSUME NEW actor \in User, NEW v \in VM, AdoptResource(p, actor, v)
        PROVE  Begins(p)
    <2> DEFINE l == [Idle EXCEPT !.op = "adopt", !.vm = v, !.user = actor]
    <2>1. l \in Local /\ HasArguments(l)
      BY IdleOK DEF Local, AllOps
    <2>2. Begin(p, l)
      BY <1>4 DEF AdoptResource
    <2> HIDE DEF l
    <2>3. QED
      BY <2>1, <2>2 DEF Begins
  <1>5. ASSUME NEW actor \in User, NEW v \in VM, StartDeploy(p, actor, v)
        PROVE  Begins(p)
    <2> DEFINE l == [Idle EXCEPT !.op = "deploy", !.vm = v, !.user = actor]
    <2>1. l \in Local /\ HasArguments(l)
      BY IdleOK DEF Local, AllOps
    <2>2. Begin(p, l)
      BY <1>5 DEF StartDeploy
    <2> HIDE DEF l
    <2>3. QED
      BY <2>1, <2>2 DEF Begins
  <1>6. ASSUME NEW actor \in User, NEW v \in VM, StartClone(p, actor, v)
        PROVE  Begins(p)
    <2> DEFINE l == [Idle EXCEPT !.op = "clone", !.vm = v, !.user = actor]
    <2>1. l \in Local /\ HasArguments(l)
      BY IdleOK DEF Local, AllOps
    <2>2. Begin(p, l)
      BY <1>6 DEF StartClone
    <2> HIDE DEF l
    <2>3. QED
      BY <2>1, <2>2 DEF Begins
  <1>7. ASSUME NEW v \in VM, StartTemplate(p, v) PROVE Begins(p)
    <2> DEFINE l == [Idle EXCEPT !.op = "template", !.vm = v]
    <2>1. l \in Local /\ HasArguments(l)
      BY IdleOK DEF Local, AllOps
    <2>2. Begin(p, l)
      BY <1>7 DEF StartTemplate
    <2> HIDE DEF l
    <2>3. QED
      BY <2>1, <2>2 DEF Begins
  <1>8. ASSUME NEW n \in Node, StartRefresh(p, n) PROVE Begins(p)
    <2> DEFINE l == [Idle EXCEPT !.op = "refresh", !.node = n]
    <2>1. l \in Local /\ HasArguments(l)
      BY IdleOK DEF Local, AllOps
    <2>2. Begin(p, l)
      BY <1>8 DEF StartRefresh
    <2> HIDE DEF l
    <2>3. QED
      BY <2>1, <2>2 DEF Begins
  <1>9. ASSUME NEW n \in Node, RemoveNode(p, n) PROVE Begins(p)
    <2> DEFINE l == [Idle EXCEPT !.op = "delete_node", !.node = n]
    <2>1. l \in Local /\ HasArguments(l)
      BY IdleOK DEF Local, AllOps
    <2>2. Begin(p, l)
      BY <1>9 DEF RemoveNode
    <2> HIDE DEF l
    <2>3. QED
      BY <2>1, <2>2 DEF Begins
  <1>10. ASSUME NEW u \in User, NEW to \in User \cup {None},
                NEW action \in {"orphan_user", "transfer_user"},
                DeleteUser(p, u, action, to)
         PROVE  Begins(p)
    <2> DEFINE l == [Idle EXCEPT !.op = action, !.user = u, !.other = to]
    <2>1. l \in Local /\ HasArguments(l)
      BY IdleOK DEF Local, AllOps
    <2>2. Begin(p, l)
      BY <1>10 DEF DeleteUser
    <2> HIDE DEF l
    <2>3. QED
      BY <2>1, <2>2 DEF Begins
  <1>11. QED
    BY <1>1, <1>2, <1>3, <1>4, <1>5, <1>6, <1>7, <1>8, <1>9, <1>10 DEF Start

LEMMA StartOK ==
  ASSUME IInv, NEW p \in Proc, Start(p)
  PROVE  IInv'
  BY StartBegins, BeginOK DEF Begins

-----------------------------------------------------------------------------
(* The steps of a handler.                                                 *)

(* The next statement of a handler tells what its operation can be.        *)
LEMMA AtOK ==
  ASSUME ProcOK, NEW p \in Proc, NEW s, At(p, s)
  PROVE  /\ proc[p] \in Local /\ LocalOK(proc[p])
         /\ s \in StepsOf(proc[p].op)
         /\ proc[p].op \in AllOps
  <1>1. LocalOK(proc[p]) /\ proc[p] \in Local
    BY DEF ProcOK
  <1>2. s \in StepsOf(proc[p].op)
    BY <1>1, HeadOK DEF At
  <1>3. proc[p].op \in AllOps
    BY <1>1, <1>2 DEF Local, StepsOf, AllOps
  <1>4. QED
    BY <1>1, <1>2, <1>3

LEMMA CheckOK ==
  ASSUME IInv, NEW p \in Proc, NEW s, At(p, s), s # "count", NEW c,
         AdvanceIf(p, c), UNCHANGED <<live, ever, users, nodes, exists>>
  PROVE  IInv'
  <1>1. ProcOK'
    BY AdvanceIfOK DEF IInv
  <1>2. Tables'
    BY ShrinkOK DEF IInv, Tables
  <1>3. QED
    BY <1>1, <1>2 DEF IInv

LEMMA InsertRowOK ==
  ASSUME IInv, NEW p \in Proc, InsertRow(p)
  PROVE  IInv'
  <1> DEFINE v == proc[p].vm
             u == proc[p].user
  <1>1. v \in VM /\ u \in User
    <2>1. "insert" \in StepsOf(proc[p].op) /\ LocalOK(proc[p])
      BY AtOK DEF InsertRow, IInv
    <2>2. proc[p].op \in {"add", "adopt", "deploy", "clone"}
      BY <2>1 DEF StepsOf
    <2>3. QED
      BY <2>1, <2>2 DEF LocalOK, HasArguments, VmOps, UserOps
  <1>2. ProcOK'
    BY FinishOK DEF InsertRow, IInv
  <1>3. CASE /\ Insertable(v, u, proc[p].op, live) /\ Bounded(v, u)
             /\ live' = live \cup {<<v, u>>}
             /\ ever' = [ever EXCEPT ![<<v, u>>] = @ + 1]
    <2>1. Tables /\ live \in SUBSET live /\ UNCHANGED <<users, nodes, exists>>
      BY DEF InsertRow, IInv
    <2> HIDE DEF v, u
    <2>2. QED
      BY <1>1, <1>2, <1>3, <2>1, InsertOK DEF IInv
  <1>4. CASE UNCHANGED <<live, ever>>
    BY <1>2, <1>4, ShrinkOK DEF InsertRow, IInv, Tables
  <1>5. QED
    BY <1>3, <1>4 DEF InsertRow

LEMMA MoveRowOK ==
  ASSUME IInv, NEW p \in Proc, MoveRow(p)
  PROVE  IInv'
  <1> DEFINE v == proc[p].vm
             to == proc[p].user
             kept == live \ {<<v, proc[p].other>>}
  <1>1. v \in VM /\ to \in User
    <2>1. "move" \in StepsOf(proc[p].op) /\ LocalOK(proc[p])
      BY AtOK DEF MoveRow, IInv
    <2>2. proc[p].op = "transfer"
      BY <2>1 DEF StepsOf
    <2>3. QED
      BY <2>1, <2>2 DEF LocalOK, HasArguments, VmOps, UserOps
  <1>2. ProcOK'
    BY FinishOK DEF MoveRow, IInv
  <1>3. CASE /\ Insertable(v, to, "transfer", kept) /\ Bounded(v, to)
             /\ live' = kept \cup {<<v, to>>}
             /\ ever' = [ever EXCEPT ![<<v, to>>] = @ + 1]
    <2>1. Tables /\ kept \in SUBSET live /\ UNCHANGED <<users, nodes, exists>>
      BY DEF MoveRow, IInv
    <2> HIDE DEF v, to, kept
    <2>2. QED
      BY <1>1, <1>2, <1>3, <2>1, InsertOK DEF IInv
  <1>4. CASE UNCHANGED <<live, ever>>
    BY <1>2, <1>4, ShrinkOK DEF MoveRow, IInv, Tables
  <1>5. QED
    BY <1>3, <1>4 DEF MoveRow

LEMMA HandOverOK ==
  ASSUME IInv, NEW p \in Proc, HandOverEntry(p)
  PROVE  IInv'
  <1> DEFINE u == proc[p].user
             to == proc[p].other
  <1>1. LocalOK(proc[p]) /\ proc[p].op = "transfer_user"
    <2>1. "hand_over" \in StepsOf(proc[p].op) /\ LocalOK(proc[p])
      BY AtOK DEF HandOverEntry, IInv
    <2>2. QED
      BY <2>1 DEF StepsOf
  <1>2. to \in User
    <2>1. proc[p].steps # <<>> /\ Head(proc[p].steps) = "hand_over"
      BY DEF HandOverEntry, At
    <2>2. Head(<<"count", "entries", "hand_over", "drop_user">>) = "count"
      OBVIOUS
    <2>3. Head(<<"drop_user">>) = "drop_user"
      OBVIOUS
    <2>4. to # None
      BY <1>1, <2>1, <2>2, <2>3 DEF LocalOK, NoTarget
    <2>5. QED
      BY <1>1, <2>4 DEF LocalOK, Local
  <1>3. CASE \E e \in proc[p].todo :
                LET v == e[1]
                    kept == IF ever[<<v, u>>] = e[2] THEN live \ {<<v, u>>} ELSE live
                IN /\ proc' = [proc EXCEPT ![p].todo = @ \ {e}]
                   /\ \/ /\ Insertable(v, to, "transfer_user", kept)
                         /\ Bounded(v, to)
                         /\ live' = kept \cup {<<v, to>>}
                         /\ ever' = [ever EXCEPT ![<<v, to>>] = @ + 1]
                      \/ /\ ~Insertable(v, to, "transfer_user", kept)
                         /\ live' = kept
                         /\ UNCHANGED ever
    <2>1. PICK e \in proc[p].todo :
                LET v == e[1]
                    kept == IF ever[<<v, u>>] = e[2] THEN live \ {<<v, u>>} ELSE live
                IN /\ proc' = [proc EXCEPT ![p].todo = @ \ {e}]
                   /\ \/ /\ Insertable(v, to, "transfer_user", kept)
                         /\ Bounded(v, to)
                         /\ live' = kept \cup {<<v, to>>}
                         /\ ever' = [ever EXCEPT ![<<v, to>>] = @ + 1]
                      \/ /\ ~Insertable(v, to, "transfer_user", kept)
                         /\ live' = kept
                         /\ UNCHANGED ever
      BY <1>3
    <2> DEFINE v == e[1]
               kept == IF ever[<<v, u>>] = e[2] THEN live \ {<<v, u>>} ELSE live
    <2>2. v \in VM
      BY <1>1 DEF LocalOK, Local
    <2>3. kept \in SUBSET live
      OBVIOUS
    <2>4. ProcOK'
      BY <2>1, TodoShrinkOK DEF IInv
    <2>5. Tables /\ UNCHANGED <<users, nodes, exists>>
      BY DEF IInv, HandOverEntry
    <2>6. CASE /\ Insertable(v, to, "transfer_user", kept) /\ Bounded(v, to)
               /\ live' = kept \cup {<<v, to>>}
               /\ ever' = [ever EXCEPT ![<<v, to>>] = @ + 1]
      <3> HIDE DEF v, to, kept
      <3>1. QED
        BY <1>2, <2>2, <2>3, <2>4, <2>5, <2>6, InsertOK DEF IInv
    <2>7. CASE live' = kept /\ UNCHANGED ever
      BY <2>3, <2>4, <2>5, <2>7, ShrinkOK DEF IInv, Tables
    <2>8. QED
      BY <2>1, <2>6, <2>7
  <1>4. CASE Advance(p) /\ UNCHANGED <<live, ever>>
    <2>1. ProcOK'
      BY <1>4, AdvanceOK DEF HandOverEntry, IInv
    <2>2. Tables'
      BY <1>4, ShrinkOK DEF HandOverEntry, IInv, Tables
    <2>3. QED
      BY <2>1, <2>2 DEF IInv
  <1>5. QED
    BY <1>3, <1>4 DEF HandOverEntry

LEMMA StepOK ==
  ASSUME IInv, NEW p \in Proc, Step(p)
  PROVE  IInv'
  <1>1. CASE CheckLimit(p)
    BY <1>1, CheckOK DEF CheckLimit
  <1>2. CASE CheckUser(p)
    BY <1>2, CheckOK DEF CheckUser
  <1>3. CASE CheckOwner(p)
    BY <1>3, CheckOK DEF CheckOwner
  <1>4. CASE CheckLast(p)
    BY <1>4, CheckOK DEF CheckLast
  <1>5. CASE CheckVacant(p)
    BY <1>5, CheckOK DEF CheckVacant
  <1>6. CASE ResolveNode(p)
    BY <1>6, CheckOK DEF ResolveNode
  <1>7. CASE CheckLastNode(p)
    BY <1>7, CheckOK DEF CheckLastNode
  <1>8. CASE InsertRow(p)
    BY <1>8, InsertRowOK
  <1>9. CASE MoveRow(p)
    BY <1>9, MoveRowOK
  <1>10. CASE HandOverEntry(p)
    BY <1>10, HandOverOK
  <1>11. CASE SoftDeleteRow(p)
    <2>1. ProcOK'
      BY <1>11, FinishOK DEF SoftDeleteRow, IInv
    <2>2. Tables'
      BY <1>11, ShrinkOK DEF SoftDeleteRow, IInv, Tables, SoftDelete
    <2>3. QED
      BY <2>1, <2>2 DEF IInv
  <1>12. CASE RemoveTemplateOwner(p)
    <2>1. ProcOK'
      BY <1>12, FinishOK DEF RemoveTemplateOwner, IInv
    <2>2. Tables'
      BY <1>12, ShrinkOK DEF RemoveTemplateOwner, IInv, Tables
    <2>3. QED
      BY <2>1, <2>2 DEF IInv
  <1>13. CASE RunJob(p)
    <2>1. ProcOK'
      BY <1>13, FinishOK, AdvanceOK DEF RunJob, IInv
    <2>2. proc[p].vm \in VM
      <3>1. "run" \in StepsOf(proc[p].op) /\ LocalOK(proc[p])
        BY <1>13, AtOK DEF RunJob, IInv
      <3>2. proc[p].op \in {"deploy", "clone"}
        BY <3>1 DEF StepsOf
      <3>3. QED
        BY <3>1, <3>2 DEF LocalOK, HasArguments, VmOps
    <2>3. Tables'
      BY <1>13, <2>2, ShrinkOK DEF RunJob, IInv, Tables
    <2>4. QED
      BY <2>1, <2>3 DEF IInv
  <1>14. CASE OrphanEntries(p)
    <2>1. ProcOK'
      BY <1>14, AdvanceOK DEF OrphanEntries, IInv
    <2>2. Tables'
      BY <1>14, ShrinkOK DEF OrphanEntries, IInv, Tables, SoftDelete
    <2>3. QED
      BY <2>1, <2>2 DEF IInv
  <1>15. CASE TakeSnapshot(p)
    <2> DEFINE t == {v \in exists : NodeOf[v] = proc[p].node}
               x == [proc[p] EXCEPT !.snap = t]
               y == [x EXCEPT !.steps = Tail(x.steps)]
    <2>1. t \in SUBSET VM
      BY DEF IInv, Tables
    <2>2. LocalOK(x)
      <3> HIDE DEF t
      <3>1. QED BY <2>1, SnapOK DEF IInv, ProcOK
    <2>3. x.steps = proc[p].steps
      BY DEF IInv, ProcOK, Local
    <2>4. LocalOK(y)
      <3>1. x.steps # <<>> /\ Head(x.steps) = "snapshot"
        BY <1>15, <2>3 DEF TakeSnapshot, At
      <3> HIDE DEF x
      <3>2. QED BY <2>2, <3>1, TailOK
    <2>5. proc' = [proc EXCEPT ![p] = y]
      BY <1>15, <2>3 DEF TakeSnapshot, IInv, ProcOK, Local
    <2>6. ProcOK'
      <3> HIDE DEF y
      <3>1. QED BY <2>4, <2>5, ProcUpdate DEF IInv
    <2>7. Tables'
      BY <1>15, ShrinkOK DEF TakeSnapshot, IInv, Tables
    <2>8. QED
      BY <2>6, <2>7 DEF IInv
  <1>16. CASE SelectOwned(p)
    <2> DEFINE t == {<<v, 0>> : v \in {w \in VM : /\ NodeOf[w] = proc[p].node
                                                 /\ OwnersOf(w) # {}
                                                 /\ w \notin proc[p].snap}}
    <2>1. t \in SUBSET (VM \X Nat)
      OBVIOUS
    <2>2. /\ At(p, "owned") /\ live' \subseteq live
          /\ UNCHANGED <<ever, users, nodes, exists>>
          /\ proc' = [proc EXCEPT ![p].todo = t, ![p].steps = Tail(@)]
      BY <1>16 DEF SelectOwned, SoftDelete
    <2> HIDE DEF t
    <2>3. ProcOK'
      BY <2>1, <2>2, TodoAdvanceOK DEF IInv
    <2>4. Tables'
      BY <2>2, ShrinkOK DEF IInv, Tables
    <2>5. QED
      BY <2>3, <2>4 DEF IInv
  <1>17. CASE ForgetNode(p)
    <2> DEFINE t == {<<v, 0>> : v \in {w \in {v \in VM : NodeOf[v] = proc[p].node} :
                                          OwnersOf(w) # {}}}
    <2>1. t \in SUBSET (VM \X Nat)
      OBVIOUS
    <2>2. /\ At(p, "forget") /\ live' \subseteq live
          /\ UNCHANGED <<ever, users, nodes, exists>>
          /\ proc' = [proc EXCEPT ![p].todo = t, ![p].steps = Tail(@)]
      BY <1>17 DEF ForgetNode, SoftDelete
    <2> HIDE DEF t
    <2>3. ProcOK'
      BY <2>1, <2>2, TodoAdvanceOK DEF IInv
    <2>4. Tables'
      BY <2>2, ShrinkOK DEF IInv, Tables
    <2>5. QED
      BY <2>3, <2>4 DEF IInv
  <1>18. CASE DropVanished(p)
    <2>1. ProcOK'
      BY <1>18, FinishOK, TodoShrinkOK DEF DropVanished, IInv
    <2>2. live' \subseteq live /\ UNCHANGED <<ever, users, nodes, exists>>
      BY <1>18 DEF DropVanished, SoftDelete
    <2>3. Tables'
      BY <2>2, ShrinkOK DEF IInv, Tables
    <2>4. QED
      BY <2>1, <2>3 DEF IInv
  <1>19. CASE CountOwnerships(p)
    <2>1. proc[p].op \in {"orphan_user", "transfer_user"} /\ LocalOK(proc[p])
      <3>1. "count" \in StepsOf(proc[p].op) /\ LocalOK(proc[p])
        BY <1>19, AtOK DEF CountOwnerships, IInv
      <3>2. QED
        BY <3>1 DEF StepsOf
    <2>2. ASSUME Goto(p, <<"drop_user">>) PROVE ProcOK'
      BY <2>1, <2>2, DropUserOK DEF IInv
    <2>3. ASSUME Advance(p), ~(proc[p].op = "transfer_user" /\ proc[p].other = None)
          PROVE  ProcOK'
      <3> DEFINE x == [proc[p] EXCEPT !.steps = Tail(proc[p].steps)]
      <3>1. LocalOK(x)
        BY <1>19, <2>1, <2>3, TailOK DEF CountOwnerships, At
      <3>2. proc' = [proc EXCEPT ![p] = x]
        BY <2>3 DEF Advance, Goto
      <3> HIDE DEF x
      <3>3. QED
        BY <3>1, <3>2, ProcUpdate DEF IInv
    <2>4. ProcOK'
      BY <1>19, <2>2, <2>3 DEF CountOwnerships
    <2>5. Tables'
      BY <1>19, ShrinkOK DEF CountOwnerships, IInv, Tables
    <2>6. QED
      BY <2>4, <2>5 DEF IInv
  <1>20. CASE SelectEntries(p)
    <2> DEFINE u == proc[p].user
               found == {<<v, ever[<<v, u>>]>> : v \in {w \in VM : <<w, u>> \in live}}
    <2>1. proc[p].op \in {"orphan_user", "transfer_user"} /\ LocalOK(proc[p])
      <3>1. "entries" \in StepsOf(proc[p].op) /\ LocalOK(proc[p])
        BY <1>20, AtOK DEF SelectEntries, IInv
      <3>2. QED
        BY <3>1 DEF StepsOf
    <2>2. found \in SUBSET (VM \X Nat)
      <3>1. ASSUME NEW v \in VM, <<v, u>> \in live PROVE ever[<<v, u>>] \in Nat
        <4>1. ever \in [Row -> 0..MaxRows] /\ <<v, u>> \in Row
          BY <3>1 DEF IInv, Tables
        <4>2. QED
          BY <4>1, OwnersAssumption
      <3>2. ASSUME NEW e \in found PROVE e \in VM \X Nat
        <4>1. PICK v \in {w \in VM : <<w, u>> \in live} : e = <<v, ever[<<v, u>>]>>
          BY <3>2
        <4>2. QED
          BY <3>1, <4>1
      <3>3. QED
        BY <3>2
    <2>3. /\ At(p, "entries") /\ UNCHANGED <<live, ever, users, nodes, exists>>
          /\ \/ Goto(p, <<"drop_user">>)
             \/ proc' = [proc EXCEPT ![p].todo = found, ![p].steps = Tail(@)]
      BY <1>20 DEF SelectEntries
    <2> HIDE DEF found
    <2>4. ProcOK'
      BY <2>1, <2>2, <2>3, DropUserOK, TodoAdvanceOK DEF IInv
    <2>5. Tables'
      BY <2>3, ShrinkOK DEF IInv, Tables
    <2>6. QED
      BY <2>4, <2>5 DEF IInv
  <1>21. CASE DropUser(p)
    <2> DEFINE u == proc[p].user
    <2>1. ProcOK'
      BY <1>21, FinishOK DEF DropUser, IInv
    <2>2. UNCHANGED <<live, ever, nodes, exists>>
      BY <1>21 DEF DropUser
    <2>3. CASE UNCHANGED users
      BY <2>1, <2>2, <2>3, ShrinkOK DEF IInv, Tables
    <2>4. CASE ~UserReferenced(u) /\ users' = [users EXCEPT ![u] = "gone"]
      <3>1. users' \in [User -> {"active", "inactive", "gone"}]
        BY <2>4 DEF IInv, Tables
      <3>2. ASSUME NEW r \in live PROVE r[2] # u /\ r[2] \in User
        <4>1. r \in Row /\ ever[r] > 0
          BY DEF IInv, Tables, LiveCounted
        <4>2. r = <<r[1], r[2]>> /\ r[1] \in VM /\ r[2] \in User
          BY <4>1 DEF Row
        <4>3. QED
          BY <2>4, <4>1, <4>2 DEF UserReferenced
      <3>3. ForeignKeys'
        BY <2>2, <2>4, <3>2 DEF IInv, Tables, ForeignKeys
      <3>4. Tables'
        BY <2>2, <3>1, <3>3 DEF IInv, Tables, LiveCounted
      <3>5. QED
        BY <2>1, <3>4 DEF IInv
    <2>5. QED
      BY <1>21, <2>3, <2>4 DEF DropUser
  <1>22. CASE DropNode(p)
    <2> DEFINE n == proc[p].node
    <2>1. ProcOK'
      BY <1>22, FinishOK DEF DropNode, IInv
    <2>2. UNCHANGED <<live, ever, users, exists>>
      BY <1>22 DEF DropNode
    <2>3. CASE UNCHANGED nodes
      BY <2>1, <2>2, <2>3, ShrinkOK DEF IInv, Tables
    <2>4. CASE ~NodeReferenced(n) /\ nodes' = nodes \ {n}
      <3>1. ASSUME NEW r \in live PROVE NodeOf[r[1]] # n
        <4>1. r \in Row /\ ever[r] > 0
          BY DEF IInv, Tables, LiveCounted
        <4>2. r = <<r[1], r[2]>> /\ r[1] \in VM /\ r[2] \in User
          BY <4>1 DEF Row
        <4>3. QED
          BY <2>4, <4>1, <4>2 DEF NodeReferenced
      <3>2. ForeignKeys'
        BY <2>2, <2>4, <3>1 DEF IInv, Tables, ForeignKeys
      <3>3. Tables'
        BY <2>2, <2>4, <3>2 DEF IInv, Tables, LiveCounted
      <3>4. QED
        BY <2>1, <3>3 DEF IInv
    <2>5. QED
      BY <1>22, <2>3, <2>4 DEF DropNode
  <1>23. QED
    BY <1>1, <1>2, <1>3, <1>4, <1>5, <1>6, <1>7, <1>8, <1>9, <1>10, <1>11,
       <1>12, <1>13, <1>14, <1>15, <1>16, <1>17, <1>18, <1>19, <1>20,
       <1>21, <1>22 DEF Step

-----------------------------------------------------------------------------
(* The theorems.                                                           *)

LEMMA InitOK == Init => IInv
  <1>1. SUFFICES ASSUME Init PROVE IInv
    OBVIOUS
  <1>2. ProcOK
    BY <1>1, IdleOK DEF Init, ProcOK
  <1>3. Tables
    BY <1>1, OwnersAssumption DEF Init, Tables, LiveCounted, ForeignKeys
  <1>4. QED
    BY <1>2, <1>3 DEF IInv

LEMMA NextOK == IInv /\ [Next]_vars => IInv'
  <1>1. SUFFICES ASSUME IInv, [Next]_vars PROVE IInv'
    OBVIOUS
  <1>2. ASSUME NEW p \in Proc, Start(p) PROVE IInv'
    BY <1>1, <1>2, StartOK
  <1>3. ASSUME NEW p \in Proc, Step(p) PROVE IInv'
    BY <1>1, <1>3, StepOK
  <1>4. ASSUME UNCHANGED proc PROVE ProcOK'
    BY <1>1, <1>4 DEF IInv, ProcOK, LocalOK, HasArguments, NoTarget
  <1>5. ASSUME NEW v \in VM, VmAppears(v) \/ VmVanishes(v) PROVE IInv'
    <2>1. ProcOK'
      BY <1>4, <1>5 DEF VmAppears, VmVanishes
    <2>2. Tables'
      BY <1>1, <1>5, ShrinkOK DEF VmAppears, VmVanishes, IInv, Tables
    <2>3. QED
      BY <2>1, <2>2 DEF IInv
  <1>6. ASSUME NEW u \in User, SetActive(u) PROVE IInv'
    <2>1. ProcOK'
      BY <1>4, <1>6 DEF SetActive
    <2>2. users' \in [User -> {"active", "inactive", "gone"}]
      BY <1>1, <1>6 DEF SetActive, IInv, Tables
    <2>3. \A w \in User : users[w] # "gone" => users'[w] # "gone"
      BY <1>1, <1>6 DEF SetActive, IInv, Tables
    <2>4. Tables'
      BY <1>1, <1>6, <2>2, <2>3
         DEF SetActive, IInv, Tables, LiveCounted, ForeignKeys, Row
    <2>5. QED
      BY <2>1, <2>4 DEF IInv
  <1>7. CASE UNCHANGED vars
    BY <1>1, <1>4, <1>7, ShrinkOK DEF vars, IInv, Tables
  <1>8. QED
    BY <1>1, <1>2, <1>3, <1>5, <1>6, <1>7 DEF Next

(* The inductive invariant: besides the types and the foreign keys it says *)
(* that a handler has the arguments of its operation and only statements   *)
(* of it left, that a hand-over without a target never starts its loop,    *)
(* and that an active row was counted when it was inserted.                *)
THEOREM LedgerInvariant == Spec => []IInv
  BY InitOK, NextOK, PTL DEF Spec

(* What a step does to the history of the reconciliations: nothing, unless *)
(* a VM comes into being, an answer is read or a reconciliation ends.      *)
LEMMA BornMoves ==
  ASSUME IInv, [Next]_vars
  PROVE  \/ UNCHANGED born /\ exists' \subseteq exists
         \/ \E v \in VM : Appeared(v) /\ exists' = exists \cup {v}
         \/ \E p \in Proc : /\ born' = [born EXCEPT ![p] = {}] /\ exists' = exists
                            /\ TakeSnapshot(p) \/ proc'[p] = Idle
  <1>1. CASE UNCHANGED vars
    BY <1>1 DEF vars
  <1>2. ASSUME NEW p \in Proc, Start(p)
        PROVE  UNCHANGED born /\ exists' = exists
    BY <1>2, StartBegins DEF Begins, Begin
  <1>3. ASSUME NEW p \in Proc, CheckLimit(p) \/ CheckUser(p) \/ CheckOwner(p)
                 \/ CheckLast(p) \/ CheckVacant(p) \/ InsertRow(p) \/ SoftDeleteRow(p)
                 \/ MoveRow(p) \/ ResolveNode(p) \/ RemoveTemplateOwner(p)
                 \/ SelectOwned(p) \/ CountOwnerships(p) \/ SelectEntries(p)
                 \/ OrphanEntries(p) \/ HandOverEntry(p) \/ DropUser(p)
                 \/ ForgetNode(p) \/ CheckLastNode(p) \/ DropNode(p)
        PROVE  UNCHANGED born /\ exists' = exists
    BY <1>3 DEF CheckLimit, CheckUser, CheckOwner, CheckLast, CheckVacant, InsertRow,
       SoftDeleteRow, MoveRow, ResolveNode, RemoveTemplateOwner, SelectOwned,
       CountOwnerships, SelectEntries, OrphanEntries, HandOverEntry, DropUser,
       ForgetNode, CheckLastNode, DropNode
  <1>4. ASSUME NEW p \in Proc, RunJob(p)
        PROVE  \/ UNCHANGED born /\ exists' = exists
               \/ \E v \in VM : Appeared(v) /\ exists' = exists \cup {v}
    <2>1. proc[p].vm \in VM
      <3>1. LocalOK(proc[p]) /\ "run" \in StepsOf(proc[p].op) /\ proc[p].op \in AllOps
        BY <1>4, AtOK DEF IInv, RunJob
      <3>2. proc[p].op \in VmOps
        BY <3>1 DEF StepsOf, AllOps, VmOps
      <3>3. QED
        BY <3>1, <3>2 DEF LocalOK, HasArguments
    <2>2. QED
      BY <1>4, <2>1 DEF RunJob
  <1>5. ASSUME NEW p \in Proc, TakeSnapshot(p)
        PROVE  born' = [born EXCEPT ![p] = {}] /\ exists' = exists
    BY <1>5 DEF TakeSnapshot
  <1>6. ASSUME NEW p \in Proc, DropVanished(p)
        PROVE  /\ exists' = exists
               /\ UNCHANGED born \/ (born' = [born EXCEPT ![p] = {}] /\ proc'[p] = Idle)
    BY <1>6 DEF DropVanished, Finish, IInv, ProcOK
  <1>7. ASSUME NEW v \in VM, VmAppears(v) PROVE Appeared(v) /\ exists' = exists \cup {v}
    BY <1>7 DEF VmAppears
  <1>8. ASSUME NEW v \in VM, VmVanishes(v) PROVE UNCHANGED born /\ exists' \subseteq exists
    BY <1>8 DEF VmVanishes
  <1>9. ASSUME NEW u \in User, SetActive(u) PROVE UNCHANGED born /\ exists' = exists
    BY <1>9 DEF SetActive
  <1>10. QED
    BY <1>1, <1>2, <1>3, <1>4, <1>5, <1>6, <1>7, <1>8, <1>9 DEF Next, Step

(* The tables and the handlers' locals keep their types, for any number of *)
(* handlers of add_owner, remove_owner, transfer_owner, adopt, the hooks   *)
(* and the clean-ups in flight.                                            *)
THEOREM TypeCorrect == Spec => []TypeOK
  <1> DEFINE BornOK == born \in [Proc -> SUBSET VM]
  <1>1. IInv /\ BornOK => TypeOK
    BY DEF IInv, ProcOK, Tables, TypeOK
  <1>2. Init => BornOK
    BY DEF Init
  <1>3. IInv /\ BornOK /\ [Next]_vars => BornOK'
    BY BornMoves DEF Appeared
  <1> HIDE DEF BornOK
  <1>4. QED
    BY <1>1, <1>2, <1>3, LedgerInvariant, PTL DEF Spec

(* An active owner row never points to a deleted user or portal node,      *)
(* whatever deletions run between the checks of a handler and its INSERT.  *)
THEOREM KeysHold == Spec => []ForeignKeys
  <1>1. IInv => ForeignKeys
    BY DEF IInv, Tables
  <1>2. QED
    BY <1>1, LedgerInvariant, PTL

-----------------------------------------------------------------------------
(* The position of a handler in its script.                                *)

(* What is left of the script of each operation at any time.               *)
Rest(op) ==
    CASE op = "add" ->
           {<<"limit", "user", "insert">>, <<"user", "insert">>, <<"insert">>,
            <<>>}
      [] op = "remove" ->
           {<<"owner", "last", "soft_delete">>, <<"last", "soft_delete">>,
            <<"soft_delete">>, <<>>}
      [] op = "transfer" ->
           {<<"limit", "owner", "user", "move">>, <<"owner", "user", "move">>,
            <<"user", "move">>, <<"move">>, <<>>}
      [] op = "adopt" ->
           {<<"vacant", "limit", "insert">>, <<"limit", "insert">>,
            <<"insert">>, <<>>}
      [] op = "deploy" ->
           {<<"run", "resolve", "user", "limit", "insert">>,
            <<"resolve", "user", "limit", "insert">>,
            <<"user", "limit", "insert">>, <<"limit", "insert">>,
            <<"insert">>, <<>>}
      [] op = "clone" ->
           {<<"run", "resolve", "limit", "user", "insert">>,
            <<"resolve", "limit", "user", "insert">>,
            <<"limit", "user", "insert">>, <<"user", "insert">>,
            <<"insert">>, <<>>}
      [] op = "template" ->
           {<<"resolve", "untemplate">>, <<"untemplate">>, <<>>}
      [] op = "refresh" ->
           {<<"snapshot", "owned", "drop">>, <<"owned", "drop">>, <<"drop">>,
            <<>>}
      [] op = "orphan_user" ->
           {<<"count", "entries", "orphan", "drop_user">>,
            <<"entries", "orphan", "drop_user">>, <<"orphan", "drop_user">>,
            <<"drop_user">>, <<>>}
      [] op = "transfer_user" ->
           {<<"count", "entries", "hand_over", "drop_user">>,
            <<"entries", "hand_over", "drop_user">>,
            <<"hand_over", "drop_user">>, <<"drop_user">>, <<>>}
      [] op = "delete_node" ->
           {<<"forget", "last_node", "drop_node">>,
            <<"last_node", "drop_node">>, <<"drop_node">>, <<>>}
      [] OTHER -> {<<>>}

(* The owner limit has been checked and the row is still to be written.    *)
LimitPassed == {<<"user", "insert">>, <<"insert">>, <<"owner", "user", "move">>,
                <<"user", "move">>, <<"move">>}

(* The sender of a transfer has been looked up.                            *)
SenderFound == {<<"user", "move">>, <<"move">>}

(* The check for the last owner has been passed.                           *)
Removing == {<<"soft_delete">>}

(* What a step forward in a script leads to.                               *)
Forward(op, s) ==
    /\ Tail(s) \in Rest(op)
    /\ Tail(s) \in LimitPassed => s \in LimitPassed \/ Head(s) = "limit"
    /\ Head(s) \in {"insert", "move"} => s \in LimitPassed
    /\ Tail(s) \in SenderFound =>
          s \in SenderFound \/ (op = "transfer" /\ Head(s) = "owner")
    /\ Head(s) = "move" => s \in SenderFound
    /\ Tail(s) \in Removing => Head(s) = "last"
    /\ Head(s) = "soft_delete" => s \in Removing
    /\ Head(s) = "snapshot" => Tail(s) # <<>> /\ Head(Tail(s)) = "owned"

LEMMA ForwardOK ==
  ASSUME NEW op \in AllOps, NEW s \in Rest(op), s # <<>>
  PROVE  Forward(op, s)
  <1> USE DEF Forward, LimitPassed, SenderFound, Removing
  <1>1. CASE op = "add"
    <2>1. CASE s = <<"limit", "user", "insert">>
      BY <1>1, <2>1 DEF Rest
    <2>2. CASE s = <<"user", "insert">>
      BY <1>1, <2>2 DEF Rest
    <2>3. CASE s = <<"insert">>
      BY <1>1, <2>3 DEF Rest
    <2>4. QED
      BY <1>1, <2>1, <2>2, <2>3 DEF Rest
  <1>2. CASE op = "remove"
    <2>1. CASE s = <<"owner", "last", "soft_delete">>
      BY <1>2, <2>1 DEF Rest
    <2>2. CASE s = <<"last", "soft_delete">>
      BY <1>2, <2>2 DEF Rest
    <2>3. CASE s = <<"soft_delete">>
      BY <1>2, <2>3 DEF Rest
    <2>4. QED
      BY <1>2, <2>1, <2>2, <2>3 DEF Rest
  <1>3. CASE op = "transfer"
    <2>1. CASE s = <<"limit", "owner", "user", "move">>
      BY <1>3, <2>1 DEF Rest
    <2>2. CASE s = <<"owner", "user", "move">>
      BY <1>3, <2>2 DEF Rest
    <2>3. CASE s = <<"user", "move">>
      BY <1>3, <2>3 DEF Rest
    <2>4. CASE s = <<"move">>
      BY <1>3, <2>4 DEF Rest
    <2>5. QED
      BY <1>3, <2>1, <2>2, <2>3, <2>4 DEF Rest
  <1>4. CASE op = "adopt"
    <2>1. CASE s = <<"vacant", "limit", "insert">>
      BY <1>4, <2>1 DEF Rest
    <2>2. CASE s = <<"limit", "insert">>
      BY <1>4, <2>2 DEF Rest
    <2>3. CASE s = <<"insert">>
      BY <1>4, <2>3 DEF Rest
    <2>4. QED
      BY <1>4, <2>1, <2>2, <2>3 DEF Rest
  <1>5. CASE op = "deploy"
    <2>1. CASE s = <<"run", "resolve", "user", "limit", "insert">>
      BY <1>5, <2>1 DEF Rest
    <2>2. CASE s = <<"resolve", "user", "limit", "insert">>
      BY <1>5, <2>2 DEF Rest
    <2>3. CASE s = <<"user", "limit", "insert">>
      BY <1>5, <2>3 DEF Rest
    <2>4. CASE s = <<"limit", "insert">>
      BY <1>5, <2>4 DEF Rest
    <2>5. CASE s = <<"insert">>
      BY <1>5, <2>5 DEF Rest
    <2>6. QED
      BY <1>5, <2>1, <2>2, <2>3, <2>4, <2>5 DEF Rest
  <1>6. CASE op = "clone"
    <2>1. CASE s = <<"run", "resolve", "limit", "user", "insert">>
      BY <1>6, <2>1 DEF Rest
    <2>2. CASE s = <<"resolve", "limit", "user", "insert">>
      BY <1>6, <2>2 DEF Rest
    <2>3. CASE s = <<"limit", "user", "insert">>
      BY <1>6, <2>3 DEF Rest
    <2>4. CASE s = <<"user", "insert">>
      BY <1>6, <2>4 DEF Rest
    <2>5. CASE s = <<"insert">>
      BY <1>6, <2>5 DEF Rest
    <2>6. QED
      BY <1>6, <2>1, <2>2, <2>3, <2>4, <2>5 DEF Rest
  <1>7. CASE op = "template"
    <2>1. CASE s = <<"resolve", "untemplate">>
      BY <1>7, <2>1 DEF Rest
    <2>2. CASE s = <<"untemplate">>
      BY <1>7, <2>2 DEF Rest
    <2>3. QED
      BY <1>7, <2>1, <2>2 DEF Rest
  <1>8. CASE op = "refresh"
    <2>1. CASE s = <<"snapshot", "owned", "drop">>
      BY <1>8, <2>1 DEF Rest
    <2>2. CASE s = <<"owned", "drop">>
      BY <1>8, <2>2 DEF Rest
    <2>3. CASE s = <<"drop">>
      BY <1>8, <2>3 DEF Rest
    <2>4. QED
      BY <1>8, <2>1, <2>2, <2>3 DEF Rest
  <1>9. CASE op = "orphan_user"
    <2>1. CASE s = <<"count", "entries", "orphan", "drop_user">>
      BY <1>9, <2>1 DEF Rest
    <2>2. CASE s = <<"entries", "orphan", "drop_user">>
      BY <1>9, <2>2 DEF Rest
    <2>3. CASE s = <<"orphan", "drop_user">>
      BY <1>9, <2>3 DEF Rest
    <2>4. CASE s = <<"drop_user">>
      BY <1>9, <2>4 DEF Rest
    <2>5. QED
      BY <1>9, <2>1, <2>2, <2>3, <2>4 DEF Rest
  <1>10. CASE op = "transfer_user"
    <2>1. CASE s = <<"count", "entries", "hand_over", "drop_user">>
      BY <1>10, <2>1 DEF Rest
    <2>2. CASE s = <<"entries", "hand_over", "drop_user">>
      BY <1>10, <2>2 DEF Rest
    <2>3. CASE s = <<"hand_over", "drop_user">>
      BY <1>10, <2>3 DEF Rest
    <2>4. CASE s = <<"drop_user">>
      BY <1>10, <2>4 DEF Rest
    <2>5. QED
      BY <1>10, <2>1, <2>2, <2>3, <2>4 DEF Rest
  <1>11. CASE op = "delete_node"
    <2>1. CASE s = <<"forget", "last_node", "drop_node">>
      BY <1>11, <2>1 DEF Rest
    <2>2. CASE s = <<"last_node", "drop_node">>
      BY <1>11, <2>2 DEF Rest
    <2>3. CASE s = <<"drop_node">>
      BY <1>11, <2>3 DEF Rest
    <2>4. QED
      BY <1>11, <2>1, <2>2, <2>3 DEF Rest
  <1>12. QED
    BY <1>1, <1>2, <1>3, <1>4, <1>5, <1>6, <1>7, <1>8, <1>9, <1>10, <1>11 DEF AllOps

(* A script at its start.                                                  *)
LEMMA ScriptStarts ==
  ASSUME NEW op \in AllOps
  PROVE  /\ Script(op) \in Rest(op)
         /\ Script(op) \notin LimitPassed \cup SenderFound \cup Removing
         /\ Script(op) # <<>> /\ Head(Script(op)) # "drop"
  <1> USE DEF Script, Rest, LimitPassed, SenderFound, Removing
  <1>1. CASE op = "add" BY <1>1
  <1>2. CASE op = "remove" BY <1>2
  <1>3. CASE op = "transfer" BY <1>3
  <1>4. CASE op = "adopt" BY <1>4
  <1>5. CASE op = "deploy" BY <1>5
  <1>6. CASE op = "clone" BY <1>6
  <1>7. CASE op = "template" BY <1>7
  <1>8. CASE op = "refresh" BY <1>8
  <1>9. CASE op = "orphan_user" BY <1>9
  <1>10. CASE op = "transfer_user" BY <1>10
  <1>11. CASE op = "delete_node" BY <1>11
  <1>12. QED
    BY <1>1, <1>2, <1>3, <1>4, <1>5, <1>6, <1>7, <1>8, <1>9, <1>10, <1>11
       DEF AllOps

(* The deletion of the user is in no guarded position, and neither is the  *)
(* end of a script.                                                        *)
LEMMA Unguarded ==
  /\ <<"drop_user">> \notin LimitPassed \cup SenderFound \cup Removing
  /\ <<>> \notin LimitPassed \cup SenderFound \cup Removing
  /\ <<"drop_user">> # <<>> /\ Head(<<"drop_user">>) = "drop_user"
  BY DEF LimitPassed, SenderFound, Removing

(* The next statement of a handler decides which step it takes.            *)
LEMMA ByHead ==
  ASSUME NEW p \in Proc, Step(p)
  PROVE  \/ At(p, "limit") /\ CheckLimit(p)
         \/ At(p, "user") /\ CheckUser(p)
         \/ At(p, "owner") /\ CheckOwner(p)
         \/ At(p, "last") /\ CheckLast(p)
         \/ At(p, "vacant") /\ CheckVacant(p)
         \/ At(p, "insert") /\ InsertRow(p)
         \/ At(p, "soft_delete") /\ SoftDeleteRow(p)
         \/ At(p, "move") /\ MoveRow(p)
         \/ At(p, "run") /\ RunJob(p)
         \/ At(p, "resolve") /\ ResolveNode(p)
         \/ At(p, "untemplate") /\ RemoveTemplateOwner(p)
         \/ At(p, "snapshot") /\ TakeSnapshot(p)
         \/ At(p, "owned") /\ SelectOwned(p)
         \/ At(p, "drop") /\ DropVanished(p)
         \/ At(p, "count") /\ CountOwnerships(p)
         \/ At(p, "entries") /\ SelectEntries(p)
         \/ At(p, "orphan") /\ OrphanEntries(p)
         \/ At(p, "hand_over") /\ HandOverEntry(p)
         \/ At(p, "drop_user") /\ DropUser(p)
         \/ At(p, "forget") /\ ForgetNode(p)
         \/ At(p, "last_node") /\ CheckLastNode(p)
         \/ At(p, "drop_node") /\ DropNode(p)
  <1>1. CheckLimit(p) => At(p, "limit") BY DEF CheckLimit
  <1>2. CheckUser(p) => At(p, "user") BY DEF CheckUser
  <1>3. CheckOwner(p) => At(p, "owner") BY DEF CheckOwner
  <1>4. CheckLast(p) => At(p, "last") BY DEF CheckLast
  <1>5. CheckVacant(p) => At(p, "vacant") BY DEF CheckVacant
  <1>6. InsertRow(p) => At(p, "insert") BY DEF InsertRow
  <1>7. SoftDeleteRow(p) => At(p, "soft_delete") BY DEF SoftDeleteRow
  <1>8. MoveRow(p) => At(p, "move") BY DEF MoveRow
  <1>9. RunJob(p) => At(p, "run") BY DEF RunJob
  <1>10. ResolveNode(p) => At(p, "resolve") BY DEF ResolveNode
  <1>11. RemoveTemplateOwner(p) => At(p, "untemplate") BY DEF RemoveTemplateOwner
  <1>12. TakeSnapshot(p) => At(p, "snapshot") BY DEF TakeSnapshot
  <1>13. SelectOwned(p) => At(p, "owned") BY DEF SelectOwned
  <1>14. DropVanished(p) => At(p, "drop") BY DEF DropVanished
  <1>15. CountOwnerships(p) => At(p, "count") BY DEF CountOwnerships
  <1>16. SelectEntries(p) => At(p, "entries") BY DEF SelectEntries
  <1>17. OrphanEntries(p) => At(p, "orphan") BY DEF OrphanEntries
  <1>18. HandOverEntry(p) => At(p, "hand_over") BY DEF HandOverEntry
  <1>19. DropUser(p) => At(p, "drop_user") BY DEF DropUser
  <1>20. ForgetNode(p) => At(p, "forget") BY DEF ForgetNode
  <1>21. CheckLastNode(p) => At(p, "last_node") BY DEF CheckLastNode
  <1>22. DropNode(p) => At(p, "drop_node") BY DEF DropNode
  <1>23. QED
    BY <1>1, <1>2, <1>3, <1>4, <1>5, <1>6, <1>7, <1>8, <1>9, <1>10, <1>11,
       <1>12, <1>13, <1>14, <1>15, <1>16, <1>17, <1>18, <1>19, <1>20, <1>21, <1>22
       DEF Step

-----------------------------------------------------------------------------
(* What a step does to the script of its handler.                          *)

(* The arguments of a handler stay.                                        *)
SameArguments(l, m) ==
    /\ m.op = l.op /\ m.vm = l.vm /\ m.user = l.user /\ m.other = l.other
    /\ m.orphan = l.orphan /\ m.node = l.node

(* A handler ends, goes on, stays in its loop, or skips to the deletion of *)
(* its user.                                                               *)
Moves(l, m) ==
    \/ m = Idle
    \/ /\ SameArguments(l, m)
       /\ \/ m.steps = Tail(l.steps)
          \/ m.steps = l.steps
          \/ /\ m.steps = <<"drop_user">>
             /\ l.op \in {"orphan_user", "transfer_user"}

(* Only the handler that steps is changed.                                 *)
Alone(p) == \A q \in Proc : q # p => proc'[q] = proc[q]

LEMMA FinishMoves ==
  ASSUME ProcOK, NEW p \in Proc, Finish(p)
  PROVE  Alone(p) /\ proc'[p] = Idle
  BY DEF ProcOK, Finish, Alone

LEMMA GotoMoves ==
  ASSUME ProcOK, NEW p \in Proc, NEW s, Goto(p, s)
  PROVE  /\ Alone(p) /\ SameArguments(proc[p], proc'[p]) /\ proc'[p].steps = s
         /\ proc'[p].todo = proc[p].todo /\ proc'[p].snap = proc[p].snap
  BY DEF ProcOK, Goto, Alone, SameArguments, Local

LEMMA TodoMoves ==
  ASSUME ProcOK, NEW p \in Proc, NEW t,
         proc' = [proc EXCEPT ![p].todo = t, ![p].steps = Tail(@)]
  PROVE  /\ Alone(p) /\ SameArguments(proc[p], proc'[p])
         /\ proc'[p].steps = Tail(proc[p].steps)
         /\ proc'[p].todo = t /\ proc'[p].snap = proc[p].snap
  BY DEF ProcOK, Alone, SameArguments, Local

LEMMA SnapMoves ==
  ASSUME ProcOK, NEW p \in Proc, NEW t,
         proc' = [proc EXCEPT ![p].snap = t, ![p].steps = Tail(@)]
  PROVE  /\ Alone(p) /\ SameArguments(proc[p], proc'[p])
         /\ proc'[p].steps = Tail(proc[p].steps) /\ proc'[p].snap = t
  BY DEF ProcOK, Alone, SameArguments, Local

LEMMA LoopMoves ==
  ASSUME ProcOK, NEW p \in Proc, NEW e,
         proc' = [proc EXCEPT ![p].todo = @ \ {e}]
  PROVE  /\ Alone(p) /\ SameArguments(proc[p], proc'[p])
         /\ proc'[p].steps = proc[p].steps
         /\ proc'[p].todo = proc[p].todo \ {e} /\ proc'[p].snap = proc[p].snap
  BY DEF ProcOK, Alone, SameArguments, Local

LEMMA AdvanceIfMoves ==
  ASSUME ProcOK, NEW p \in Proc, NEW c, AdvanceIf(p, c)
  PROVE  /\ Alone(p) /\ Moves(proc[p], proc'[p])
         /\ proc'[p] = Idle \/ (c /\ proc'[p].steps = Tail(proc[p].steps))
  <1>1. CASE c
    <2>1. Goto(p, Tail(proc[p].steps))
      BY <1>1 DEF AdvanceIf, Advance
    <2>2. QED
      BY <1>1, <2>1, GotoMoves DEF Moves
  <1>2. CASE ~c
    BY <1>2, FinishMoves DEF AdvanceIf, Moves
  <1>3. QED
    BY <1>1, <1>2

LEMMA StepMoves ==
  ASSUME ProcOK, NEW p \in Proc, Step(p)
  PROVE  Alone(p) /\ Moves(proc[p], proc'[p]) /\ proc[p].steps # <<>>
  <1>1. proc[p].steps # <<>>
    BY ByHead DEF At
  <1>2. CASE CheckLimit(p) \/ CheckUser(p) \/ CheckOwner(p) \/ CheckLast(p)
             \/ CheckVacant(p) \/ ResolveNode(p) \/ CheckLastNode(p)
    BY <1>1, <1>2, AdvanceIfMoves
       DEF CheckLimit, CheckUser, CheckOwner, CheckLast, CheckVacant,
           ResolveNode, CheckLastNode
  <1>3. CASE InsertRow(p) \/ SoftDeleteRow(p) \/ MoveRow(p)
             \/ RemoveTemplateOwner(p) \/ DropUser(p) \/ DropNode(p)
    BY <1>1, <1>3, FinishMoves
       DEF InsertRow, SoftDeleteRow, MoveRow, RemoveTemplateOwner, DropUser,
           DropNode, Moves
  <1>4. CASE RunJob(p) \/ OrphanEntries(p)
    BY <1>1, <1>4, FinishMoves, GotoMoves
       DEF RunJob, OrphanEntries, Advance, Moves
  <1>5. CASE TakeSnapshot(p)
    BY <1>1, <1>5, SnapMoves DEF TakeSnapshot, Moves
  <1>6. CASE SelectOwned(p) \/ ForgetNode(p)
    BY <1>1, <1>6, TodoMoves DEF SelectOwned, ForgetNode, Moves
  <1>7. CASE DropVanished(p)
    BY <1>1, <1>7, LoopMoves, FinishMoves DEF DropVanished, Moves
  <1>8. CASE CountOwnerships(p)
    <2>1. proc[p].op \in {"orphan_user", "transfer_user"}
      BY <1>8, AtOK DEF CountOwnerships, StepsOf, AllOps
    <2>2. QED
      BY <1>1, <1>8, <2>1, GotoMoves DEF CountOwnerships, Advance, Moves
  <1>9. CASE SelectEntries(p)
    <2>1. proc[p].op \in {"orphan_user", "transfer_user"}
      BY <1>9, AtOK DEF SelectEntries, StepsOf, AllOps
    <2>2. QED
      BY <1>1, <1>9, <2>1, GotoMoves, TodoMoves DEF SelectEntries, Moves
  <1>10. CASE HandOverEntry(p)
    BY <1>1, <1>10, LoopMoves, GotoMoves DEF HandOverEntry, Advance, Moves
  <1>11. QED
    BY <1>2, <1>3, <1>4, <1>5, <1>6, <1>7, <1>8, <1>9, <1>10 DEF Step

(* A handler that starts is given its script and touches no table.         *)
LEMMA BeginMoves ==
  ASSUME ProcOK, NEW p \in Proc, Begins(p)
  PROVE  /\ Alone(p) /\ proc[p] = Idle
         /\ proc'[p].op \in Ops /\ proc'[p].steps = Script(proc'[p].op)
         /\ UNCHANGED <<live, ever, users, nodes, exists>>
  <1>1. PICK l \in Local : Begin(p, l)
    BY DEF Begins
  <1>2. QED
    BY <1>1 DEF Begin, ProcOK, Alone, Local

(* A reconciliation in its loop has only VMs of its node left that its     *)
(* snapshot does not show.                                                 *)
Reconciles(l) ==
    l.steps # <<>> /\ Head(l.steps) = "drop" =>
        \A e \in l.todo : e[1] \notin l.snap /\ NodeOf[e[1]] = l.node

PlaceOK(l) ==
    /\ l.op \in Ops \cup {"none"}
    /\ l.steps \in Rest(l.op)
    /\ Reconciles(l)

Placed == \A p \in Proc : PlaceOK(proc[p])

LEMMA IdlePlace == PlaceOK(Idle) /\ Idle.steps = <<>> /\ Idle.op = "none"
  BY DEF PlaceOK, Idle, Rest, Reconciles

LEMMA StepPlace ==
  ASSUME IInv, Placed, NEW p \in Proc, Step(p)
  PROVE  PlaceOK(proc'[p])
  <1> DEFINE l == proc[p]
             m == proc'[p]
  <1>1. ProcOK /\ PlaceOK(l)
    BY DEF IInv, Placed
  <1>2. Moves(l, m) /\ l.steps # <<>>
    BY <1>1, StepMoves
  <1>3. l.op \in AllOps
    BY <1>1, <1>2, OwnersAssumption DEF PlaceOK, Rest, AllOps
  <1>4. Forward(l.op, l.steps)
    BY <1>1, <1>2, <1>3, ForwardOK DEF PlaceOK
  <1>5. SUFFICES ASSUME SameArguments(l, m) PROVE PlaceOK(m)
    BY <1>2, IdlePlace DEF Moves
  <1>6. m.op \in Ops \cup {"none"}
    BY <1>1, <1>5 DEF PlaceOK, SameArguments
  <1>7. m.steps \in Rest(m.op)
    <2>1. CASE m = Idle
      BY <2>1, IdlePlace DEF PlaceOK
    <2>2. CASE m.steps = Tail(l.steps)
      BY <1>4, <1>5, <2>2 DEF Forward, SameArguments
    <2>3. CASE m.steps = l.steps
      BY <1>1, <1>5, <2>3 DEF PlaceOK, SameArguments
    <2>4. CASE m.steps = <<"drop_user">> /\ l.op \in {"orphan_user", "transfer_user"}
      BY <1>5, <2>4 DEF Rest, SameArguments
    <2>5. QED
      BY <1>2, <2>1, <2>2, <2>3, <2>4 DEF Moves
  <1>8. Reconciles(m)
    <2>1. SUFFICES ASSUME m.steps # <<>>, Head(m.steps) = "drop"
                   PROVE  \A e \in m.todo : e[1] \notin m.snap /\ NodeOf[e[1]] = m.node
      BY DEF Reconciles
    <2>2. m.op = "refresh"
      <3>1. LocalOK(m)
        BY StepOK DEF IInv, ProcOK
      <3>2. "drop" \in StepsOf(m.op) /\ m.op \in AllOps \cup {"none"}
        BY <2>1, <3>1, HeadOK DEF LocalOK, Local
      <3>3. QED
        BY <3>2 DEF StepsOf, AllOps
    <2>3. l.op = "refresh"
      BY <1>5, <2>2 DEF SameArguments
    <2>4. Head(l.steps) \in {"snapshot", "owned", "drop"}
      BY <1>1, <1>2, <2>3, HeadOK DEF ProcOK, StepsOf
    <2>5. CASE Head(l.steps) = "snapshot"
      <3>1. TakeSnapshot(p)
        BY <1>2, <2>5, ByHead DEF At
      <3>2. m.steps = Tail(l.steps)
        BY <1>1, <3>1, SnapMoves DEF TakeSnapshot
      <3>3. QED
        BY <1>4, <2>1, <2>5, <3>2 DEF Forward
    <2>6. CASE Head(l.steps) = "owned"
      <3> DEFINE t == {<<v, 0>> : v \in {w \in VM : /\ NodeOf[w] = l.node
                                                    /\ OwnersOf(w) # {}
                                                    /\ w \notin l.snap}}
      <3>1. SelectOwned(p)
        BY <1>2, <2>6, ByHead DEF At
      <3>2. \A e \in t : e[1] \notin l.snap /\ NodeOf[e[1]] = l.node
        OBVIOUS
      <3>3. proc' = [proc EXCEPT ![p].todo = t, ![p].steps = Tail(@)]
        BY <3>1 DEF SelectOwned
      <3> HIDE DEF t
      <3>4. m.todo = t /\ m.snap = l.snap
        BY <1>1, <3>3, TodoMoves
      <3>5. QED
        BY <1>5, <3>2, <3>4 DEF SameArguments
    <2>7. CASE Head(l.steps) = "drop"
      <3>1. DropVanished(p)
        BY <1>2, <2>7, ByHead DEF At
      <3>2. m # Idle
        BY <2>1, IdlePlace
      <3>3. PICK e \in l.todo : proc' = [proc EXCEPT ![p].todo = @ \ {e}]
        BY <1>1, <3>1, <3>2, FinishMoves DEF DropVanished
      <3>4. m.todo \subseteq l.todo /\ m.snap = l.snap
        BY <1>1, <3>3, LoopMoves
      <3>5. QED
        BY <1>1, <1>2, <1>5, <2>7, <3>4 DEF PlaceOK, Reconciles, SameArguments
    <2>8. QED
      BY <2>4, <2>5, <2>6, <2>7
  <1>9. QED
    BY <1>6, <1>7, <1>8 DEF PlaceOK

LEMMA BeginPlace ==
  ASSUME IInv, NEW p \in Proc, Start(p)
  PROVE  PlaceOK(proc'[p])
  <1>1. proc'[p].op \in Ops /\ proc'[p].steps = Script(proc'[p].op)
    BY StartBegins, BeginMoves DEF IInv
  <1>2. QED
    BY <1>1, ScriptStarts, OwnersAssumption DEF PlaceOK, Reconciles

(* Only handlers change what handlers have left to do, each its own.       *)
LEMMA NextMoves ==
  ASSUME IInv, [Next]_vars
  PROVE  \/ UNCHANGED <<live, proc>>
         \/ \E p \in Proc : (Start(p) \/ Step(p)) /\ Alone(p)
  <1>1. CASE UNCHANGED vars
    BY <1>1 DEF vars
  <1>2. ASSUME NEW p \in Proc, Start(p) \/ Step(p) PROVE Alone(p)
    BY <1>2, StepMoves, StartBegins, BeginMoves DEF IInv
  <1>3. CASE \E v \in VM : VmAppears(v) \/ VmVanishes(v)
    BY <1>3 DEF VmAppears, VmVanishes
  <1>4. CASE \E u \in User : SetActive(u)
    BY <1>4 DEF SetActive
  <1>5. QED
    BY <1>1, <1>2, <1>3, <1>4 DEF Next

LEMMA PlacedKept == IInv /\ Placed /\ [Next]_vars => Placed'
  <1>1. SUFFICES ASSUME IInv, Placed, [Next]_vars PROVE Placed'
    OBVIOUS
  <1>2. CASE UNCHANGED <<live, proc>>
    BY <1>1, <1>2 DEF Placed, PlaceOK, Reconciles
  <1>3. ASSUME NEW p \in Proc, Start(p) \/ Step(p), Alone(p) PROVE Placed'
    <2>1. PlaceOK(proc'[p])
      BY <1>1, <1>3, StepPlace, BeginPlace
    <2>2. \A q \in Proc : PlaceOK(proc'[q])
      BY <1>1, <1>3, <2>1 DEF Placed, Alone
    <2>3. QED
      BY <2>2 DEF Placed, PlaceOK, Reconciles
  <1>4. QED
    BY <1>1, <1>2, <1>3, NextMoves

LEMMA PlacedAlways == Spec => []Placed
  <1>1. Init => Placed
    BY IdlePlace DEF Init, Placed
  <1>2. QED
    BY <1>1, PlacedKept, LedgerInvariant, PTL DEF Spec

(* A reconciliation that has its answer remembers every VM of its node     *)
(* that exists and is missing in it.                                       *)
Answered(l) ==
    l.op = "refresh" /\ l.steps # <<>> /\ Head(l.steps) # "snapshot"

Noted ==
    \A p \in Proc : Answered(proc[p]) =>
        \A v \in exists : NodeOf[v] = proc[p].node /\ v \notin proc[p].snap => v \in born[p]

(* A step of the reconciliation itself.                                    *)
LEMMA StepNotes ==
  ASSUME IInv, Placed, Noted, NEW p \in Proc, Step(p), Answered(proc'[p]),
         NEW v \in exists', NodeOf[v] = proc'[p].node, v \notin proc'[p].snap
  PROVE  v \in born'[p]
  <1> DEFINE l == proc[p]
             m == proc'[p]
  <1>1. ProcOK /\ PlaceOK(l)
    BY DEF IInv, Placed
  <1>2. Moves(l, m) /\ l.steps # <<>>
    BY <1>1, StepMoves
  <1>3. m # Idle
    BY IdlePlace DEF Answered
  <1>4. SameArguments(l, m) /\ l.op = "refresh"
    BY <1>2, <1>3 DEF Moves, SameArguments, Answered
  <1>5. Head(l.steps) \in {"snapshot", "owned", "drop"}
    BY <1>1, <1>2, <1>4, HeadOK DEF ProcOK, StepsOf
  <1>6. CASE Head(l.steps) = "snapshot"
    <2>1. TakeSnapshot(p)
      BY <1>2, <1>6, ByHead DEF At
    <2>2. m.snap = {w \in exists : NodeOf[w] = l.node} /\ exists' = exists
      BY <1>1, <2>1, SnapMoves DEF TakeSnapshot
    <2>3. QED
      BY <1>4, <2>2 DEF SameArguments
  <1>7. CASE Head(l.steps) \in {"owned", "drop"}
    <2>1. SelectOwned(p) \/ DropVanished(p)
      BY <1>2, <1>7, ByHead DEF At
    <2>2. m.snap = l.snap /\ exists' = exists /\ born' = born
      <3>1. CASE SelectOwned(p)
        BY <1>1, <3>1, TodoMoves DEF SelectOwned
      <3>2. CASE DropVanished(p)
        BY <1>1, <1>3, <3>2, LoopMoves, FinishMoves DEF DropVanished
      <3>3. QED
        BY <2>1, <3>1, <3>2
    <2>3. Answered(l)
      BY <1>2, <1>4, <1>7 DEF Answered
    <2>4. v \in born[p]
      BY <1>4, <2>2, <2>3 DEF Noted, SameArguments
    <2>5. QED
      BY <2>2, <2>4
  <1>8. QED
    BY <1>5, <1>6, <1>7

LEMMA NotedKept == IInv /\ Placed /\ Noted /\ [Next]_vars => Noted'
  <1>1. SUFFICES ASSUME IInv, Placed, Noted, [Next]_vars, NEW p \in Proc,
                        Answered(proc'[p]), NEW v \in exists',
                        NodeOf[v] = proc'[p].node, v \notin proc'[p].snap
                 PROVE  v \in born'[p]
    BY DEF Noted, Answered
  <1>2. CASE proc'[p] = proc[p]
    <2>1. v \in exists => v \in born[p]
      BY <1>1, <1>2 DEF Noted
    <2>2. HasAnswer(p) /\ v \notin proc[p].snap
      BY <1>1, <1>2 DEF Answered, HasAnswer, At
    <2>3. CASE UNCHANGED born /\ exists' \subseteq exists
      BY <1>1, <2>1, <2>3
    <2>4. ASSUME NEW w \in VM, Appeared(w), exists' = exists \cup {w} PROVE v \in born'[p]
      BY <1>1, <2>1, <2>2, <2>4 DEF Appeared
    <2>5. ASSUME NEW q \in Proc, born' = [born EXCEPT ![q] = {}], exists' = exists,
                 TakeSnapshot(q) \/ proc'[q] = Idle
          PROVE  v \in born'[p]
      <3>1. q # p
        BY <1>1, <2>2, <2>5, IdlePlace DEF TakeSnapshot, HasAnswer, Answered
      <3>2. QED
        BY <1>1, <2>1, <2>5, <3>1
    <2>6. QED
      BY <1>1, <2>3, <2>4, <2>5, BornMoves
  <1>3. CASE proc'[p] # proc[p]
    <2>1. Start(p) \/ Step(p)
      BY <1>1, <1>3, NextMoves DEF Alone
    <2>2. ~Start(p)
      <3>1. SUFFICES ASSUME Start(p) PROVE FALSE
        OBVIOUS
      <3>2. proc'[p].steps = Script("refresh")
        BY <1>1, <3>1, StartBegins, BeginMoves DEF IInv, Answered
      <3>3. QED
        BY <1>1, <3>2 DEF Script, Answered
    <2>3. QED
      BY <1>1, <2>1, <2>2, StepNotes
  <1>4. QED
    BY <1>2, <1>3

LEMMA NotedAlways == Spec => []Noted
  <1>1. Init => Noted
    BY IdlePlace DEF Init, Noted, Answered
  <1>2. QED
    BY <1>1, NotedKept, LedgerInvariant, PlacedAlways, PTL DEF Spec

(* reconcile_for_node takes owners from a VM that Proxmox has only if the  *)
(* VM is one of its node and came into being after the answer was read,    *)
(* for any number of refreshes, deployments and deletions in between.      *)
THEOREM ReconcileCorrect == Spec => ReconcileSparesExisting
  <1> DEFINE A == \A p \in Proc, v \in VM :
                    (At(p, "drop") /\ Stepped(p) /\ OwnersOf(v)' # OwnersOf(v)
                        /\ v \in exists)
                       => v \in born[p] /\ NodeOf[v] = proc[p].node
  <1>1. IInv /\ Placed /\ Noted /\ [Next]_vars => A
    <2>1. SUFFICES ASSUME IInv, Placed, Noted, [Next]_vars, NEW p \in Proc, NEW v \in VM,
                          At(p, "drop"), Stepped(p), OwnersOf(v)' # OwnersOf(v),
                          v \in exists
                   PROVE  v \in born[p] /\ NodeOf[v] = proc[p].node
      OBVIOUS
    <2>2. Start(p) \/ Step(p)
      BY <2>1, NextMoves DEF Alone, Stepped
    <2>3. proc[p].steps # <<>> /\ Head(proc[p].steps) = "drop"
      BY <2>1 DEF At
    <2>4. ~Start(p)
      BY <2>1, <2>3, StartBegins, BeginMoves, IdlePlace DEF IInv
    <2>5. DropVanished(p)
      BY <2>2, <2>3, <2>4, ByHead DEF At
    <2>6. live' # live
      BY <2>1 DEF OwnersOf
    <2>7. PICK e \in proc[p].todo : live' = live \ ({e[1]} \X User)
      BY <2>5, <2>6 DEF DropVanished, SoftDelete
    <2>8. e[1] = v
      BY <2>1, <2>7 DEF OwnersOf
    <2>9. v \notin proc[p].snap /\ NodeOf[v] = proc[p].node
      BY <2>1, <2>3, <2>7, <2>8 DEF Placed, PlaceOK, Reconciles
    <2>10. proc[p].op = "refresh"
      BY <2>1, AtOK DEF IInv, StepsOf, AllOps
    <2>11. QED
      BY <2>1, <2>3, <2>9, <2>10 DEF Noted, Answered
  <1>2. IInv /\ Placed /\ Noted /\ [Next]_vars => [A]_vars
    BY <1>1
  <1>3. QED
    BY <1>2, LedgerInvariant, PlacedAlways, NotedAlways, PTL
       DEF Spec, ReconcileSparesExisting

-----------------------------------------------------------------------------
(* What a step does to the active rows.                                    *)

(* The statements that only read the ledger.                               *)
Reading == {"limit", "user", "owner", "last", "vacant", "run", "resolve",
            "untemplate", "snapshot", "owned", "count", "entries",
            "drop_user", "last_node", "drop_node"}

(* The handler ends after writing the row of its VM and its user.          *)
Gains(p) ==
    /\ proc'[p] = Idle
    /\ \E kept \in SUBSET live : live' = kept \cup {<<proc[p].vm, proc[p].user>>}

LEMMA Writes ==
  ASSUME IInv, NEW p \in Proc, Step(p)
  PROVE  LET h == Head(proc[p].steps) IN
         /\ h \in Reading => live' = live
         /\ h \in {"insert", "move"} => live' = live \/ Gains(p)
         /\ h = "soft_delete" => live' = live \ {<<proc[p].vm, proc[p].user>>}
         /\ h \in {"drop", "orphan", "forget"} => live' \subseteq live
         /\ h \in Reading \cup {"insert", "move", "soft_delete", "drop",
                                "orphan", "forget", "hand_over"}
  <1> DEFINE h == Head(proc[p].steps)
  <1>1. ProcOK
    BY DEF IInv
  <1>2. h \in Reading => live' = live
    BY ByHead DEF At, Reading, CheckLimit, CheckUser, CheckOwner, CheckLast,
       CheckVacant, RunJob, ResolveNode, RemoveTemplateOwner, TakeSnapshot,
       SelectOwned, CountOwnerships, SelectEntries, DropUser, CheckLastNode,
       DropNode
  <1>3. h = "insert" => live' = live \/ Gains(p)
    <2>1. SUFFICES ASSUME InsertRow(p) PROVE live' = live \/ Gains(p)
      BY ByHead DEF At
    <2>2. proc'[p] = Idle
      BY <1>1, <2>1, FinishMoves DEF InsertRow
    <2>3. QED
      BY <2>1, <2>2 DEF InsertRow, Gains
  <1>4. h = "move" => live' = live \/ Gains(p)
    <2>1. SUFFICES ASSUME MoveRow(p) PROVE live' = live \/ Gains(p)
      BY ByHead DEF At
    <2>2. proc'[p] = Idle
      BY <1>1, <2>1, FinishMoves DEF MoveRow
    <2>3. QED
      BY <2>1, <2>2 DEF MoveRow, Gains
  <1>5. h = "soft_delete" => live' = live \ {<<proc[p].vm, proc[p].user>>}
    BY ByHead DEF At, SoftDeleteRow, SoftDelete
  <1>6. h \in {"drop", "orphan", "forget"} => live' \subseteq live
    BY ByHead DEF At, DropVanished, OrphanEntries, ForgetNode, SoftDelete
  <1>7. h \in Reading \cup {"insert", "move", "soft_delete", "drop",
                            "orphan", "forget", "hand_over"}
    BY ByHead DEF At, Reading
  <1>8. QED
    BY <1>2, <1>3, <1>4, <1>5, <1>6, <1>7

-----------------------------------------------------------------------------
(* The owner limit.                                                        *)

(* The VMs of a user, and the handlers about to write one more.            *)
Held(u) == {v \in VM : <<v, u>> \in live}
Passed(u) == {p \in Proc : proc[p].user = u /\ proc[p].steps \in LimitPassed}

(* A handler between the check and the INSERT counts as an ownership; the  *)
(* last one to pass the check met a user below the limit and at most every *)
(* handler is past it.                                                     *)
Reserved ==
    \A u \in User :
        /\ IsFiniteSet(Held(u))
        /\ CountOf(u) + Cardinality(Passed(u))
              <= MaxOwnerships + Cardinality(Proc) - 1

LEMMA CountIs == \A u : CountOf(u) = Cardinality(Held(u))
  BY DEF CountOf, Held

LEMMA Smaller ==
  ASSUME NEW S, NEW T, IsFiniteSet(T), S \subseteq T
  PROVE  /\ IsFiniteSet(S) /\ Cardinality(S) <= Cardinality(T)
         /\ Cardinality(S) \in Nat /\ Cardinality(T) \in Nat
  BY FS_Subset, FS_CardinalityType

LEMMA OneMore ==
  ASSUME NEW S, IsFiniteSet(S), NEW x
  PROVE  /\ IsFiniteSet(S \cup {x})
         /\ Cardinality(S \cup {x}) <= Cardinality(S) + 1
         /\ Cardinality(S) \in Nat /\ Cardinality(S \cup {x}) \in Nat
  <1>1. /\ IsFiniteSet(S \cup {x})
        /\ \/ Cardinality(S \cup {x}) = Cardinality(S)
           \/ Cardinality(S \cup {x}) = Cardinality(S) + 1
    BY FS_AddElement
  <1>2. Cardinality(S) \in Nat /\ Cardinality(S \cup {x}) \in Nat
    BY <1>1, FS_CardinalityType
  <1>3. QED
    BY <1>1, <1>2

(* Nobody gains a row and nobody passes the check.                         *)
LEMMA ReservedShrinks ==
  ASSUME IsFiniteSet(Proc), NEW u \in User, Reserved,
         Held(u)' \subseteq Held(u), Passed(u)' \subseteq Passed(u)
  PROVE  /\ IsFiniteSet(Held(u)')
         /\ Cardinality(Held(u)') + Cardinality(Passed(u)')
              <= MaxOwnerships + Cardinality(Proc) - 1
  <1>1. IsFiniteSet(Held(u)) /\ IsFiniteSet(Passed(u))
    BY FS_Subset DEF Reserved, Passed
  <1>2. /\ IsFiniteSet(Held(u)') /\ Cardinality(Held(u)') <= Cardinality(Held(u))
        /\ Cardinality(Held(u)') \in Nat /\ Cardinality(Held(u)) \in Nat
    BY <1>1, Smaller
  <1>3. /\ Cardinality(Passed(u)') <= Cardinality(Passed(u))
        /\ Cardinality(Passed(u)') \in Nat /\ Cardinality(Passed(u)) \in Nat
    BY <1>1, Smaller
  <1>4. Cardinality(Held(u)) + Cardinality(Passed(u))
          <= MaxOwnerships + Cardinality(Proc) - 1
    BY CountIs DEF Reserved
  <1>5. Cardinality(Proc) \in Nat
    BY FS_CardinalityType
  <1>6. QED
    BY <1>2, <1>3, <1>4, <1>5, OwnersAssumption

(* A handler that is past the check writes its row and ends.               *)
LEMMA ReservedTurns ==
  ASSUME IsFiniteSet(Proc), NEW u \in User, Reserved,
         NEW v, Held(u)' \subseteq Held(u) \cup {v},
         NEW p \in Passed(u), Passed(u)' \subseteq Passed(u) \ {p}
  PROVE  /\ IsFiniteSet(Held(u)')
         /\ Cardinality(Held(u)') + Cardinality(Passed(u)')
              <= MaxOwnerships + Cardinality(Proc) - 1
  <1>1. IsFiniteSet(Held(u)) /\ IsFiniteSet(Passed(u))
    BY FS_Subset DEF Reserved, Passed
  <1>2. /\ IsFiniteSet(Held(u) \cup {v})
        /\ Cardinality(Held(u) \cup {v}) <= Cardinality(Held(u)) + 1
        /\ Cardinality(Held(u)) \in Nat /\ Cardinality(Held(u) \cup {v}) \in Nat
    BY <1>1, OneMore
  <1>3. /\ IsFiniteSet(Held(u)')
        /\ Cardinality(Held(u)') <= Cardinality(Held(u) \cup {v})
        /\ Cardinality(Held(u)') \in Nat
    BY <1>2, Smaller
  <1>4. /\ IsFiniteSet(Passed(u) \ {p})
        /\ Cardinality(Passed(u) \ {p}) = Cardinality(Passed(u)) - 1
        /\ Cardinality(Passed(u)) \in Nat
    BY <1>1, FS_RemoveElement, FS_CardinalityType
  <1>5. /\ Cardinality(Passed(u)') <= Cardinality(Passed(u) \ {p})
        /\ Cardinality(Passed(u)') \in Nat
    BY <1>4, Smaller
  <1>6. Cardinality(Held(u)) + Cardinality(Passed(u))
          <= MaxOwnerships + Cardinality(Proc) - 1
    BY CountIs DEF Reserved
  <1>7. Cardinality(Proc) \in Nat
    BY FS_CardinalityType
  <1>8. QED
    BY <1>2, <1>3, <1>4, <1>5, <1>6, <1>7, OwnersAssumption

(* A user below the limit passes the check: at most every handler is past  *)
(* it now.                                                                 *)
LEMMA ReservedPasses ==
  ASSUME IsFiniteSet(Proc), NEW u \in User, Reserved,
         Held(u)' = Held(u), CountOf(u) < MaxOwnerships
  PROVE  /\ IsFiniteSet(Held(u)')
         /\ Cardinality(Held(u)') + Cardinality(Passed(u)')
              <= MaxOwnerships + Cardinality(Proc) - 1
  <1>1. IsFiniteSet(Held(u)) /\ Cardinality(Held(u)) \in Nat
    BY FS_CardinalityType DEF Reserved
  <1>2. Passed(u)' \subseteq Proc
    BY DEF Passed
  <1>3. /\ Cardinality(Passed(u)') <= Cardinality(Proc)
        /\ Cardinality(Passed(u)') \in Nat /\ Cardinality(Proc) \in Nat
    BY <1>2, Smaller
  <1>4. Cardinality(Held(u)) < MaxOwnerships
    BY CountIs
  <1>5. QED
    BY <1>1, <1>3, <1>4, OwnersAssumption

LEMMA StepReserves ==
  ASSUME IsFiniteSet(Proc), "transfer_user" \notin Ops,
         IInv, Placed, Reserved, NEW p \in Proc, Step(p), NEW u \in User
  PROVE  /\ IsFiniteSet(Held(u)')
         /\ Cardinality(Held(u)') + Cardinality(Passed(u)')
              <= MaxOwnerships + Cardinality(Proc) - 1
  <1> DEFINE l == proc[p]
             m == proc'[p]
  <1>1. ProcOK /\ PlaceOK(l)
    BY DEF IInv, Placed
  <1>2. Alone(p) /\ Moves(l, m) /\ l.steps # <<>>
    BY <1>1, StepMoves
  <1>3. l.op \in AllOps /\ l.op # "transfer_user"
    BY <1>1, <1>2, OwnersAssumption DEF PlaceOK, Rest, AllOps
  <1>4. Forward(l.op, l.steps)
    BY <1>1, <1>2, <1>3, ForwardOK DEF PlaceOK
  <1>5. Idle.steps \notin LimitPassed
    BY IdlePlace, Unguarded
  <1>6. \A q \in Proc \ {p} : q \in Passed(u)' => q \in Passed(u)
    BY <1>2 DEF Passed, Alone
  <1>7. CASE Head(l.steps) \in {"insert", "move"} /\ live' # live
    <2>1. m = Idle
      BY <1>7, Writes DEF Gains
    <2>2. PICK kept \in SUBSET live : live' = kept \cup {<<l.vm, l.user>>}
      BY <1>7, Writes DEF Gains
    <2>3. p \notin Passed(u)'
      BY <1>5, <2>1 DEF Passed
    <2>4. CASE u = l.user
      <3>1. p \in Passed(u)
        BY <1>4, <1>7, <2>4 DEF Passed, Forward
      <3>2. Passed(u)' \subseteq Passed(u) \ {p}
        BY <1>6, <2>3 DEF Passed
      <3>3. Held(u)' \subseteq Held(u) \cup {l.vm}
        BY <2>2 DEF Held
      <3>4. QED
        BY <3>1, <3>2, <3>3, ReservedTurns
    <2>5. CASE u # l.user
      <3>1. Held(u)' \subseteq Held(u)
        BY <2>2, <2>5 DEF Held
      <3>2. Passed(u)' \subseteq Passed(u)
        BY <1>6, <2>3 DEF Passed
      <3>3. QED
        BY <3>1, <3>2, ReservedShrinks
    <2>6. QED
      BY <2>4, <2>5
  <1>8. CASE ~(Head(l.steps) \in {"insert", "move"} /\ live' # live)
    <2>1. Head(l.steps) # "hand_over"
      BY <1>1, <1>2, <1>3, HeadOK DEF ProcOK, StepsOf, AllOps
    <2>2. live' \subseteq live
      BY <1>8, <2>1, Writes
    <2>3. Held(u)' \subseteq Held(u)
      BY <2>2 DEF Held
    <2>4. CASE Head(l.steps) = "limit" /\ m # Idle /\ u = l.user
      <3>1. CheckLimit(p)
        BY <1>2, <2>4, ByHead DEF At
      <3>2. CountOf(l.user) < MaxOwnerships
        BY <1>1, <2>4, <3>1, FinishMoves DEF CheckLimit, AdvanceIf
      <3>3. Held(u)' = Held(u)
        BY <3>1 DEF CheckLimit, Held
      <3>4. QED
        BY <2>4, <3>2, <3>3, ReservedPasses
    <2>5. CASE ~(Head(l.steps) = "limit" /\ m # Idle /\ u = l.user)
      <3>1. p \in Passed(u)' => p \in Passed(u)
        <4>1. SUFFICES ASSUME m.user = u, m.steps \in LimitPassed
                       PROVE  l.user = u /\ l.steps \in LimitPassed
          BY DEF Passed
        <4>2. SameArguments(l, m) /\ m # Idle
          BY <1>2, <1>5, <4>1 DEF Moves
        <4>3. l.user = u
          BY <4>1, <4>2 DEF SameArguments
        <4>4. m.steps = Tail(l.steps) \/ m.steps = l.steps
          BY <1>2, <4>1, <4>2, Unguarded DEF Moves
        <4>5. QED
          BY <1>4, <2>5, <4>1, <4>2, <4>3, <4>4 DEF Forward
      <3>2. Passed(u)' \subseteq Passed(u)
        BY <1>6, <3>1 DEF Passed
      <3>3. QED
        BY <2>3, <3>2, ReservedShrinks
    <2>6. QED
      BY <2>4, <2>5
  <1>9. QED
    BY <1>7, <1>8

LEMMA StartReserves ==
  ASSUME IsFiniteSet(Proc), IInv, Reserved, NEW p \in Proc, Start(p), NEW u \in User
  PROVE  Held(u)' \subseteq Held(u) /\ Passed(u)' \subseteq Passed(u)
  <1>1. /\ Alone(p) /\ proc'[p].op \in Ops /\ proc'[p].steps = Script(proc'[p].op)
        /\ UNCHANGED live
    BY StartBegins, BeginMoves DEF IInv
  <1>2. proc'[p].steps \notin LimitPassed
    BY <1>1, ScriptStarts, OwnersAssumption
  <1>3. QED
    BY <1>1, <1>2 DEF Held, Passed, Alone

LEMMA ReservedKept ==
  ASSUME IsFiniteSet(Proc), "transfer_user" \notin Ops
  PROVE  IInv /\ Placed /\ Reserved /\ [Next]_vars => Reserved'
  <1>1. SUFFICES ASSUME IInv, Placed, Reserved, [Next]_vars, NEW u \in User
                 PROVE  /\ IsFiniteSet(Held(u)')
                        /\ Cardinality(Held(u)') + Cardinality(Passed(u)')
                             <= MaxOwnerships + Cardinality(Proc) - 1
    BY CountIs DEF Reserved, CountOf, Held
  <1>2. CASE UNCHANGED <<live, proc>>
    <2>1. Held(u)' \subseteq Held(u) /\ Passed(u)' \subseteq Passed(u)
      BY <1>2 DEF Held, Passed
    <2>2. QED
      BY <1>1, <2>1, ReservedShrinks
  <1>3. ASSUME NEW p \in Proc, Start(p)
        PROVE  Held(u)' \subseteq Held(u) /\ Passed(u)' \subseteq Passed(u)
    BY <1>1, <1>3, StartReserves
  <1>4. ASSUME NEW p \in Proc, Step(p)
        PROVE  /\ IsFiniteSet(Held(u)')
               /\ Cardinality(Held(u)') + Cardinality(Passed(u)')
                    <= MaxOwnerships + Cardinality(Proc) - 1
    BY <1>1, <1>4, StepReserves
  <1>5. QED
    BY <1>1, <1>2, <1>3, <1>4, NextMoves, ReservedShrinks

LEMMA ReservedStarts ==
  ASSUME IsFiniteSet(Proc), Init
  PROVE  Reserved
  <1>1. SUFFICES ASSUME NEW u \in User
                 PROVE  /\ IsFiniteSet(Held(u))
                        /\ Cardinality(Held(u)) + Cardinality(Passed(u))
                             <= MaxOwnerships + Cardinality(Proc) - 1
    BY CountIs DEF Reserved
  <1>2. Held(u) = {} /\ Passed(u) = {}
    BY IdlePlace, Unguarded DEF Init, Held, Passed
  <1>3. IsFiniteSet({}) /\ Cardinality({}) = 0 /\ Cardinality(Proc) \in Nat
    BY FS_EmptySet, FS_CardinalityType
  <1>4. QED
    BY <1>2, <1>3, OwnersAssumption

(* count_active_ownerships is read in one session and the row inserted in  *)
(* another, and still no user gets more than n - 1 ownerships beyond the   *)
(* limit when n handlers are in flight.                                    *)
THEOREM OvershootBounded ==
  ASSUME IsFiniteSet(Proc), "transfer_user" \notin Ops
  PROVE  Spec => []LimitOvershoot
  <1>1. Reserved => LimitOvershoot
    <2>1. SUFFICES ASSUME Reserved, NEW u \in User
                   PROVE  CountOf(u) <= MaxOwnerships + Cardinality(Proc) - 1
      BY DEF LimitOvershoot
    <2>2. Passed(u) \subseteq Proc
      BY DEF Passed
    <2>3. Cardinality(Passed(u)) \in Nat /\ Cardinality(Proc) \in Nat
      BY <2>2, Smaller
    <2>4. CountOf(u) \in Nat
      BY <2>1, CountIs, FS_CardinalityType DEF Reserved
    <2>5. CountOf(u) + Cardinality(Passed(u))
            <= MaxOwnerships + Cardinality(Proc) - 1
      BY <2>1 DEF Reserved
    <2>6. QED
      BY <2>3, <2>4, <2>5, OwnersAssumption
  <1>2. Init => Reserved
    BY ReservedStarts
  <1>3. IInv /\ Placed /\ Reserved /\ [Next]_vars => Reserved'
    BY ReservedKept
  <1>4. QED
    BY <1>1, <1>2, <1>3, LedgerInvariant, PlacedAlways, PTL DEF Spec

(* While at most one handler runs at a time, the owner limit of the Core   *)
(* edition holds.                                                          *)
THEOREM LimitCorrect ==
  ASSUME NEW h, Proc = {h}, "transfer_user" \notin Ops
  PROVE  Spec => []LimitRespected
  <1>1. IsFiniteSet(Proc) /\ Cardinality(Proc) = 1
    BY FS_Singleton
  <1>2. LimitOvershoot => LimitRespected
    BY <1>1, OwnersAssumption DEF LimitOvershoot, LimitRespected
  <1>3. Spec => []LimitOvershoot
    BY <1>1, OvershootBounded
  <1>4. QED
    BY <1>2, <1>3, PTL

-----------------------------------------------------------------------------
(* One handler at a time: what its checks found is still so when it writes.*)

(* A transfer still has its sender, and a removal that does not mean to    *)
(* leave the VM without an owner still finds another one.                  *)
Current(l) ==
    /\ l.steps \in SenderFound => <<l.vm, l.other>> \in live
    /\ l.steps \in Removing =>
          Cardinality(OwnersOf(l.vm)) # 1 \/ l.orphan = TRUE

StillSo == \A p \in Proc : Current(proc[p])

LEMMA StillSoKept ==
  ASSUME NEW h, Proc = {h}
  PROVE  IInv /\ Placed /\ StillSo /\ [Next]_vars => StillSo'
  <1> DEFINE l == proc[h]
             m == proc'[h]
             Later(v) == {u \in User : <<v, u>> \in live'}
             Goal == /\ m.steps \in SenderFound => <<m.vm, m.other>> \in live'
                     /\ m.steps \in Removing =>
                          \/ Cardinality(Later(m.vm)) # 1
                          \/ m.orphan = TRUE
  <1>1. SUFFICES ASSUME IInv, Placed, StillSo, [Next]_vars PROVE Goal
    BY DEF StillSo, Current, OwnersOf
  <1>2. h \in Proc /\ ProcOK /\ PlaceOK(l) /\ Current(l)
    BY <1>1 DEF IInv, Placed, StillSo
  <1>3. Idle.steps \notin SenderFound \cup Removing
    BY IdlePlace, Unguarded
  <1>4. CASE UNCHANGED <<live, proc>>
    BY <1>2, <1>4 DEF Current, OwnersOf
  <1>5. CASE Start(h)
    <2>1. m.op \in Ops /\ m.steps = Script(m.op)
      BY <1>2, <1>5, StartBegins, BeginMoves
    <2>2. QED
      BY <2>1, ScriptStarts, OwnersAssumption
  <1>6. CASE Step(h)
    <2>1. Moves(l, m) /\ l.steps # <<>>
      BY <1>2, <1>6, StepMoves
    <2>2. l.op \in AllOps
      BY <1>2, <2>1, OwnersAssumption DEF PlaceOK, Rest, AllOps
    <2>3. Forward(l.op, l.steps)
      BY <1>2, <2>1, <2>2, ForwardOK DEF PlaceOK
    <2>4. SUFFICES ASSUME m # Idle, SameArguments(l, m),
                          m.steps = Tail(l.steps) \/ m.steps = l.steps
                   PROVE  Goal
      BY <1>3, <2>1, Unguarded DEF Moves
    <2>5. ASSUME m.steps \in SenderFound PROVE <<m.vm, m.other>> \in live'
      <3>1. CASE l.steps \in SenderFound
        <4>1. Head(l.steps) \in {"user", "move"}
          BY <3>1 DEF SenderFound
        <4>2. Head(l.steps) # "move"
          <5>1. SUFFICES ASSUME MoveRow(h) PROVE FALSE
            BY <1>2, <1>6, <2>1, ByHead DEF At
          <5>2. QED
            BY <1>2, <2>4, <5>1, FinishMoves DEF MoveRow
        <4>3. live' = live
          BY <1>1, <1>2, <1>6, <4>1, <4>2, Writes DEF Reading
        <4>4. QED
          BY <1>2, <2>4, <3>1, <4>3 DEF Current, SameArguments
      <3>2. CASE l.op = "transfer" /\ Head(l.steps) = "owner"
        <4>1. CheckOwner(h)
          BY <1>2, <1>6, <2>1, <3>2, ByHead DEF At
        <4>2. <<l.vm, l.other>> \in live
          BY <1>2, <2>4, <3>2, <4>1, FinishMoves DEF CheckOwner, AdvanceIf
        <4>3. QED
          BY <2>4, <4>1, <4>2 DEF CheckOwner, SameArguments
      <3>3. QED
        BY <2>3, <2>4, <2>5, <3>1, <3>2 DEF Forward
    <2>6. ASSUME m.steps \in Removing
          PROVE  Cardinality(Later(m.vm)) # 1 \/ m.orphan = TRUE
      <3>1. Head(l.steps) # "soft_delete"
        <4>1. SUFFICES ASSUME SoftDeleteRow(h) PROVE FALSE
          BY <1>2, <1>6, <2>1, ByHead DEF At
        <4>2. QED
          BY <1>2, <2>4, <4>1, FinishMoves DEF SoftDeleteRow
      <3>2. Head(l.steps) = "last"
        <4>1. l.steps \in Removing => Head(l.steps) = "soft_delete"
          BY DEF Removing
        <4>2. QED
          BY <2>3, <2>4, <2>6, <3>1, <4>1 DEF Forward
      <3>3. CheckLast(h)
        BY <1>2, <1>6, <2>1, <3>2, ByHead DEF At
      <3>4. Cardinality(OwnersOf(l.vm)) # 1 \/ l.orphan
        BY <1>2, <2>4, <3>3, FinishMoves DEF CheckLast, AdvanceIf
      <3>5. l.orphan \in BOOLEAN
        BY <1>2 DEF ProcOK, Local
      <3>6. Later(l.vm) = OwnersOf(l.vm)
        BY <1>2, <3>3 DEF CheckLast, OwnersOf
      <3>7. QED
        BY <2>4, <3>4, <3>5, <3>6 DEF SameArguments
    <2>7. QED
      BY <2>5, <2>6
  <1>7. QED
    BY <1>1, <1>4, <1>5, <1>6, NextMoves

LEMMA StillSoAlways ==
  ASSUME NEW h, Proc = {h}
  PROVE  Spec => []StillSo
  <1>1. Init => StillSo
    BY IdlePlace, Unguarded DEF Init, StillSo, Current
  <1>2. IInv /\ Placed /\ StillSo /\ [Next]_vars => StillSo'
    BY StillSoKept
  <1>3. QED
    BY <1>1, <1>2, LedgerInvariant, PlacedAlways, PTL DEF Spec

(* What writes the ledger is a step of the one handler, at a statement that*)
(* writes.                                                                 *)
LEMMA Writer ==
  ASSUME NEW h, Proc = {h}, IInv, [Next]_vars, live' # live
  PROVE  /\ h \in Proc /\ Step(h) /\ proc[h].steps # <<>>
         /\ Head(proc[h].steps) \in {"insert", "move", "soft_delete", "drop",
                                     "orphan", "forget", "hand_over"}
  <1>1. ~UNCHANGED <<live, proc>>
    OBVIOUS
  <1>2. Start(h) \/ Step(h)
    BY <1>1, NextMoves
  <1>3. ~Start(h)
    BY StartBegins, BeginMoves DEF IInv
  <1>4. Step(h) /\ h \in Proc
    BY <1>2, <1>3
  <1>5. proc[h].steps # <<>>
    BY <1>4, StepMoves DEF IInv
  <1>6. QED
    BY <1>4, <1>5, Writes

LEMMA TailDiffers ==
  ASSUME NEW S, NEW s \in Seq(S), s # <<>>
  PROVE  Tail(s) # s
  <1>1. SUFFICES ASSUME Tail(s) = s PROVE FALSE
    OBVIOUS
  <1>2. Len(Tail(s)) = Len(s) - 1 /\ Len(s) \in Nat
    OBVIOUS
  <1>3. Len(s) = Len(s) - 1
    BY <1>1, <1>2
  <1>4. QED
    BY <1>2, <1>3

(* The writing statements leave a trace in their handler.                  *)
LEMMA WriterSteps ==
  ASSUME IInv, NEW p \in Proc, Step(p), live' # live, proc[p].steps # <<>>,
         Head(proc[p].steps) \in {"soft_delete", "drop", "orphan", "forget",
                                  "hand_over"}
  PROVE  Stepped(p)
  <1>1. ProcOK /\ proc[p].steps \in Seq(StepName)
    BY DEF IInv, ProcOK, Local
  <1>2. Tail(proc[p].steps) # proc[p].steps
    BY <1>1, TailDiffers
  <1>3. CASE SoftDeleteRow(p)
    BY <1>1, <1>3, FinishMoves, IdlePlace DEF SoftDeleteRow, Stepped
  <1>4. CASE OrphanEntries(p)
    BY <1>1, <1>2, <1>4, GotoMoves DEF OrphanEntries, Advance, Stepped
  <1>5. CASE ForgetNode(p)
    BY <1>1, <1>2, <1>5, TodoMoves DEF ForgetNode, Stepped
  <1>6. CASE DropVanished(p)
    <2>1. PICK e \in proc[p].todo : proc' = [proc EXCEPT ![p].todo = @ \ {e}]
      BY <1>6 DEF DropVanished
    <2>2. QED
      BY <1>1, <2>1, LoopMoves DEF Stepped
  <1>7. CASE HandOverEntry(p)
    <2>1. PICK e \in proc[p].todo : proc' = [proc EXCEPT ![p].todo = @ \ {e}]
      BY <1>7 DEF HandOverEntry
    <2>2. QED
      BY <1>1, <2>1, LoopMoves DEF Stepped
  <1>8. QED
    BY <1>3, <1>4, <1>5, <1>6, <1>7, ByHead DEF At

(* While at most one handler runs at a time, remove_owner keeps its word:  *)
(* a VM loses its last owner only through a removal with orphan=True, a    *)
(* reconciliation or the deletion of the user or the node.                 *)
THEOREM OrphanCorrect ==
  ASSUME NEW h, Proc = {h}
  PROVE  Spec => NoSilentOrphan
  <1> DEFINE A == \A v \in VM :
                    (OwnersOf(v) # {} /\ OwnersOf(v)' = {}) =>
                       \E p \in Proc :
                          /\ Stepped(p)
                          /\ \/ proc[p].op = "remove" /\ proc[p].orphan
                             \/ proc[p].op \in {"refresh", "orphan_user",
                                                "transfer_user", "delete_node"}
             l == proc[h]
  <1>1. IInv /\ Placed /\ StillSo /\ [Next]_vars => A
    <2>1. SUFFICES ASSUME IInv, Placed, StillSo, [Next]_vars, NEW v \in VM,
                          OwnersOf(v) # {}, OwnersOf(v)' = {}
                   PROVE  /\ Stepped(h)
                          /\ \/ l.op = "remove" /\ l.orphan
                             \/ l.op \in {"refresh", "orphan_user",
                                          "transfer_user", "delete_node"}
      OBVIOUS
    <2>2. live' # live
      BY <2>1 DEF OwnersOf
    <2>3. /\ h \in Proc /\ Step(h) /\ l.steps # <<>>
          /\ Head(l.steps) \in {"insert", "move", "soft_delete", "drop",
                                "orphan", "forget", "hand_over"}
      BY <2>1, <2>2, Writer
    <2>4. /\ ProcOK /\ LocalOK(l) /\ PlaceOK(l) /\ Current(l)
          /\ Head(l.steps) \in StepsOf(l.op) /\ l.op \in AllOps
      BY <2>1, <2>3, AtOK DEF IInv, ProcOK, Placed, StillSo, At
    <2>5. Head(l.steps) # "insert"
      <3>1. SUFFICES ASSUME InsertRow(h) PROVE FALSE
        BY <2>3, ByHead DEF At
      <3>2. live \subseteq live'
        BY <3>1 DEF InsertRow
      <3>3. QED
        BY <2>1, <3>2 DEF OwnersOf
    <2>6. Head(l.steps) # "move"
      <3>1. SUFFICES ASSUME MoveRow(h), "move" \in StepsOf(l.op) PROVE FALSE
        BY <2>3, <2>4, ByHead DEF At
      <3>2. live' = (live \ {<<l.vm, l.other>>}) \cup {<<l.vm, l.user>>}
        BY <2>2, <3>1 DEF MoveRow
      <3>3. l.op = "transfer"
        BY <2>4, <3>1 DEF StepsOf, AllOps
      <3>4. l.user \in User
        BY <2>4, <3>3 DEF LocalOK, HasArguments, UserOps
      <3>5. CASE v = l.vm
        BY <2>1, <3>2, <3>4, <3>5 DEF OwnersOf
      <3>6. CASE v # l.vm
        BY <2>1, <3>2, <3>6 DEF OwnersOf
      <3>7. QED
        BY <3>5, <3>6
    <2>7. Stepped(h)
      BY <2>1, <2>2, <2>3, <2>5, <2>6, WriterSteps
    <2>8. CASE Head(l.steps) = "soft_delete"
      <3>1. l.op = "remove"
        BY <2>4, <2>8 DEF StepsOf, AllOps
      <3>2. l.steps \in Removing
        BY <2>3, <2>4, <2>8, ForwardOK DEF PlaceOK, Forward
      <3>3. live' = live \ {<<l.vm, l.user>>}
        BY <2>1, <2>3, <2>8, Writes
      <3>4. v = l.vm /\ OwnersOf(v) = {l.user}
        BY <2>1, <3>3 DEF OwnersOf
      <3>5. Cardinality(OwnersOf(l.vm)) = 1
        BY <3>4, FS_Singleton
      <3>6. l.orphan
        BY <2>4, <3>2, <3>5 DEF Current
      <3>7. QED
        BY <2>7, <3>1, <3>6
    <2>9. CASE Head(l.steps) # "soft_delete"
      BY <2>3, <2>4, <2>5, <2>6, <2>7, <2>9 DEF StepsOf, AllOps
    <2>10. QED
      BY <2>8, <2>9
  <1>2. IInv /\ Placed /\ StillSo /\ [Next]_vars => [A]_vars
    BY <1>1
  <1>3. Spec => []StillSo
    BY StillSoAlways
  <1>4. QED
    BY <1>2, <1>3, LedgerInvariant, PlacedAlways, PTL DEF Spec, NoSilentOrphan

(* While at most one handler runs at a time, transfer_owner neither makes  *)
(* nor loses an ownership: the sender it looked up still owns the VM when  *)
(* the UPDATE and the INSERT commit, and is replaced by a receiver who did *)
(* not own it.                                                             *)
THEOREM TransferCorrect ==
  ASSUME NEW h, Proc = {h}
  PROVE  Spec => TransferConserves
  <1> DEFINE A == \A p \in Proc, v \in VM :
                    (/\ At(p, "move") /\ Stepped(p) /\ live' # live
                     /\ v = proc[p].vm) =>
                       /\ proc[p].other \in OwnersOf(v) /\ proc[p].user \notin OwnersOf(v)
                       /\ OwnersOf(v)' = (OwnersOf(v) \ {proc[p].other})
                                          \cup {proc[p].user}
             l == proc[h]
  <1>1. IInv /\ Placed /\ StillSo /\ [Next]_vars => A
    <2>1. SUFFICES ASSUME IInv, Placed, StillSo, [Next]_vars, NEW v \in VM,
                          At(h, "move"), live' # live, v = l.vm
                   PROVE  /\ l.other \in OwnersOf(v) /\ l.user \notin OwnersOf(v)
                          /\ OwnersOf(v)' = (OwnersOf(v) \ {l.other}) \cup {l.user}
      OBVIOUS
    <2>2. h \in Proc /\ Step(h) /\ l.steps # <<>> /\ Head(l.steps) = "move"
      BY <2>1, Writer DEF At
    <2>3. /\ LocalOK(l) /\ PlaceOK(l) /\ Current(l)
          /\ "move" \in StepsOf(l.op) /\ l.op \in AllOps
      BY <2>1, <2>2, AtOK DEF IInv, ProcOK, Placed, StillSo
    <2>4. l.user \in User
      <3>1. l.op = "transfer"
        BY <2>3 DEF StepsOf, AllOps
      <3>2. QED
        BY <2>3, <3>1 DEF LocalOK, HasArguments, UserOps
    <2>5. <<l.vm, l.other>> \in live
      BY <2>2, <2>3, ForwardOK DEF PlaceOK, Forward, Current
    <2>6. l.other \in User
      BY <2>1, <2>5 DEF IInv, Tables, Row
    <2>7. MoveRow(h)
      BY <2>2, ByHead DEF At
    <2>8. /\ <<l.vm, l.user>> \notin live \ {<<l.vm, l.other>>}
          /\ live' = (live \ {<<l.vm, l.other>>}) \cup {<<l.vm, l.user>>}
      BY <2>1, <2>7 DEF MoveRow, Insertable
    <2>9. l.user # l.other
      BY <2>1, <2>5, <2>8
    <2>10. QED
      BY <2>1, <2>4, <2>5, <2>6, <2>8, <2>9 DEF OwnersOf
  <1>2. IInv /\ Placed /\ StillSo /\ [Next]_vars => [A]_vars
    BY <1>1
  <1>3. Spec => []StillSo
    BY StillSoAlways
  <1>4. QED
    BY <1>2, <1>3, LedgerInvariant, PlacedAlways, PTL DEF Spec, TransferConserves
=============================================================================
