------------------------------- MODULE Owners -------------------------------
(***************************************************************************)
(* The ownership ledger of backend/features/owners (table vm_owners) and    *)
(* everything that writes it: the owner routes, the hook of a finished      *)
(* deployment, the clone and template jobs, the reconciliation after a      *)
(* cluster refresh, and the deletion of users and of portal nodes.          *)
(*                                                                          *)
(* Every handler is a coroutine that reads and writes in database sessions  *)
(* of its own, so another handler may run between any two of its            *)
(* statements; only an UPDATE and INSERT that share a commit are one step.  *)
(* A handler is a script: the statements it still has to execute.           *)
(*                                                                          *)
(* Rows are never deleted, only marked deleted_at.  ever[v,u] is the number *)
(* of rows (v,u) has ever had (so the newest one's identity), and a row of  *)
(* any kind keeps its foreign keys to node and user (ondelete RESTRICT).    *)
(***************************************************************************)
EXTENDS Integers, FiniteSets, Sequences

CONSTANTS
    User, Admin,       \* portal users, and those with role admin
    Node, VM, NodeOf,  \* portal nodes, (resource_type, vmid), and its node_id
    Proc,              \* handlers that may be in flight together
    Ops,               \* the operations this instance exercises
    MaxOwnerships,     \* plus_behavior.get_max_ownerships()
    MaxRows,           \* bound on the rows one (VM, user) pair ever gets
    None

AllOps == {"add", "remove", "transfer", "adopt", "deploy", "clone", "template",
           "refresh", "orphan_user", "transfer_user", "delete_node"}

ASSUME OwnersAssumption ==
    /\ Admin \subseteq User
    /\ NodeOf \in [VM -> Node]
    /\ Ops \subseteq AllOps
    /\ MaxOwnerships \in Nat \ {0}
    /\ MaxRows \in Nat
    /\ None \notin User /\ None \notin VM /\ None \notin Node

VARIABLES
    live,    \* rows of vm_owners with deleted_at IS NULL, as (VM, user) pairs
    ever,    \* [VM \X User -> rows ever inserted for the pair]
    users,   \* [User -> "active", "inactive" or "gone"]
    nodes,   \* the rows of table nodes
    exists,  \* the VMs Proxmox has
    proc,    \* [Proc -> the handler's remaining script and its locals]
    born     \* history: [Proc -> the VMs missing in the answer that handler
             \* reconciles with that have come into being since it was read]

vars == <<live, ever, users, nodes, exists, proc, born>>

Row == VM \X User

(* The statements of each operation, in the order of the code.              *)
Script(op) ==
    CASE op = "add"           -> <<"limit", "user", "insert">>
      [] op = "remove"        -> <<"owner", "last", "soft_delete">>
      [] op = "transfer"      -> <<"limit", "owner", "user", "move">>
      [] op = "adopt"         -> <<"vacant", "limit", "insert">>
      [] op = "deploy"        -> <<"run", "resolve", "user", "limit", "insert">>
      [] op = "clone"         -> <<"run", "resolve", "limit", "user", "insert">>
      [] op = "template"      -> <<"resolve", "untemplate">>
      [] op = "refresh"       -> <<"snapshot", "owned", "drop">>
      [] op = "orphan_user"   -> <<"count", "entries", "orphan", "drop_user">>
      [] op = "transfer_user" -> <<"count", "entries", "hand_over", "drop_user">>
      [] op = "delete_node"   -> <<"forget", "last_node", "drop_node">>
      [] OTHER                -> <<>>

StepName == {"limit", "user", "insert", "owner", "last", "soft_delete", "move",
             "vacant", "run", "resolve", "untemplate", "snapshot", "owned",
             "drop", "count", "entries", "orphan", "hand_over", "drop_user",
             "forget", "last_node", "drop_node"}

(* The locals of a handler: the VM, the user it is about (who gains or      *)
(* loses the row), the user who loses it in a transfer (or gains it when a  *)
(* user is deleted), the orphan flag, the node, the snapshot it compares    *)
(* with, and what its loop still has to do.                                 *)
Local == [op     : AllOps \cup {"none"},
          steps  : Seq(StepName),
          vm     : VM \cup {None},
          user   : User \cup {None},
          other  : User \cup {None},
          orphan : BOOLEAN,
          node   : Node \cup {None},
          snap   : SUBSET VM,
          todo   : SUBSET (VM \X Nat)]

Idle == [op |-> "none", steps |-> <<>>, vm |-> None, user |-> None,
         other |-> None, orphan |-> FALSE, node |-> None, snap |-> {},
         todo |-> {}]

OwnersOf(v) == {u \in User : <<v, u>> \in live}
CountOf(u) == Cardinality({v \in VM : <<v, u>> \in live})

Init ==
    /\ live = {}
    /\ ever = [r \in Row |-> 0]
    /\ users = [u \in User |-> "active"]
    /\ nodes = Node
    /\ exists \in SUBSET VM
    /\ proc = [p \in Proc |-> Idle]
    /\ born = [p \in Proc |-> {}]

-----------------------------------------------------------------------------
(* The control of a handler.                                                *)

At(p, s) == proc[p].steps # <<>> /\ Head(proc[p].steps) = s
Goto(p, steps) == proc' = [proc EXCEPT ![p].steps = steps]
Advance(p) == Goto(p, Tail(proc[p].steps))
Finish(p) == proc' = [proc EXCEPT ![p] = Idle]
AdvanceIf(p, cond) == IF cond THEN Advance(p) ELSE Finish(p)

Begin(p, l) ==
    /\ proc[p] = Idle
    /\ l.op \in Ops
    /\ proc' = [proc EXCEPT ![p] = [l EXCEPT !.steps = Script(l.op)]]
    /\ UNCHANGED <<live, ever, users, nodes, exists, born>>

(* Soft delete of a set of rows.                                            *)
SoftDelete(rows) == live' = live \ rows

(* An INSERT succeeds unless the partial unique index, a foreign key or the *)
(* CHECK on the source column refuses it (IntegrityError).                  *)
AllowedSource == {"add", "adopt", "deploy", "transfer", "transfer_user"}
Insertable(v, u, op, present) ==
    /\ <<v, u>> \notin present
    /\ users[u] # "gone"
    /\ NodeOf[v] \in nodes
    /\ op \in AllowedSource

(* The bound on rows: a pair that has had MaxRows rows gets no further one. *)
Bounded(v, u) == ever[<<v, u>>] < MaxRows

-----------------------------------------------------------------------------
(* The routes.  A route first authenticates its actor (an active user) and  *)
(* asks whether it is an admin or an owner of the VM.                       *)

MayManage(actor, v) ==
    /\ users[actor] = "active"
    /\ actor \in Admin \/ <<v, actor>> \in live

AddCoOwner(p, actor, v, u) ==
    /\ MayManage(actor, v)
    /\ Begin(p, [Idle EXCEPT !.op = "add", !.vm = v, !.user = u])

RemoveOwner(p, actor, v, u, orphan) ==
    /\ MayManage(actor, v)
    /\ Begin(p, [Idle EXCEPT !.op = "remove", !.vm = v, !.user = u,
                             !.orphan = orphan])

(* The route always transfers from the actor, an admin's request too.       *)
TransferOwner(p, actor, v, to) ==
    /\ MayManage(actor, v)
    /\ Begin(p, [Idle EXCEPT !.op = "transfer", !.vm = v, !.user = to,
                             !.other = actor])

AdoptResource(p, actor, v) ==
    /\ users[actor] = "active" /\ actor \in Admin
    /\ Begin(p, [Idle EXCEPT !.op = "adopt", !.vm = v, !.user = actor])

(* start_job with an auto-owner: refused when the owner limit is reached.   *)
StartDeploy(p, actor, v) ==
    /\ users[actor] = "active"
    /\ CountOf(actor) < MaxOwnerships
    /\ Begin(p, [Idle EXCEPT !.op = "deploy", !.vm = v, !.user = actor])

StartClone(p, actor, v) ==
    /\ users[actor] = "active"
    /\ Begin(p, [Idle EXCEPT !.op = "clone", !.vm = v, !.user = actor])

(* A conversion to a template that Proxmox has carried out.                 *)
StartTemplate(p, v) ==
    /\ v \in exists
    /\ Begin(p, [Idle EXCEPT !.op = "template", !.vm = v])

(* A successful fetch of the "vms" endpoint of a node: the answer is read   *)
(* now and reconciled later, by the fire-and-forget callback.               *)
StartRefresh(p, n) ==
    /\ n \in nodes
    /\ Begin(p, [Idle EXCEPT !.op = "refresh", !.node = n])

(* delete_local_user with ownership_action orphan or transfer.  Admins and  *)
(* the actor itself are left to the module of the user administration.      *)
DeleteUser(p, u, action, to) ==
    /\ u \notin Admin /\ users[u] # "gone"
    /\ action = "orphan_user" => to = None
    /\ Begin(p, [Idle EXCEPT !.op = action, !.user = u, !.other = to])

RemoveNode(p, n) ==
    /\ n \in nodes
    /\ Begin(p, [Idle EXCEPT !.op = "delete_node", !.node = n])

-----------------------------------------------------------------------------
(* The steps: one per statement (or per statements of one commit).          *)

(* Mutant: one ownership too many is let through.                           *)
CheckLimitOffByOne(p) ==
    /\ At(p, "limit")
    /\ AdvanceIf(p, CountOf(proc[p].user) <= MaxOwnerships)
    /\ UNCHANGED <<live, ever, users, nodes, exists, born>>

(* count_active_ownerships(user) >= max_ownerships -> LimitExceededError    *)
CheckLimit(p) ==
    /\ At(p, "limit")
    /\ AdvanceIf(p, CountOf(proc[p].user) < MaxOwnerships)
    /\ UNCHANGED <<live, ever, users, nodes, exists, born>>

(* The user who is to own the VM exists and is active.                      *)
CheckUser(p) ==
    /\ At(p, "user")
    /\ AdvanceIf(p, users[proc[p].user] = "active")
    /\ UNCHANGED <<live, ever, users, nodes, exists, born>>

(* The row to be removed or transferred is there.                           *)
CheckOwner(p) ==
    LET l == proc[p]
        from == IF l.op = "transfer" THEN l.other ELSE l.user
    IN /\ At(p, "owner")
       /\ AdvanceIf(p, <<l.vm, from>> \in live)
       /\ UNCHANGED <<live, ever, users, nodes, exists, born>>

(* Mutant: the owner of the row is counted out, as if the check ran after   *)
(* the soft delete.                                                         *)
CheckLastAfterwards(p) ==
    /\ At(p, "last")
    /\ AdvanceIf(p, \/ Cardinality(OwnersOf(proc[p].vm) \ {proc[p].user}) # 1
                    \/ proc[p].orphan)
    /\ UNCHANGED <<live, ever, users, nodes, exists, born>>

(* count_active_owners == 1 and not orphan -> LastOwnerError                *)
CheckLast(p) ==
    /\ At(p, "last")
    /\ AdvanceIf(p, Cardinality(OwnersOf(proc[p].vm)) # 1 \/ proc[p].orphan)
    /\ UNCHANGED <<live, ever, users, nodes, exists, born>>

(* adopt refuses a VM that has an active owner.                             *)
CheckVacant(p) ==
    /\ At(p, "vacant")
    /\ AdvanceIf(p, OwnersOf(proc[p].vm) = {})
    /\ UNCHANGED <<live, ever, users, nodes, exists, born>>

(* INSERT of the new owner row; an IntegrityError ends the handler without  *)
(* an effect (409, 500 or ignored, depending on the caller).                *)
InsertRow(p) ==
    LET v == proc[p].vm  u == proc[p].user IN
    /\ At(p, "insert")
    /\ \/ /\ Insertable(v, u, proc[p].op, live)
          /\ Bounded(v, u)
          /\ live' = live \cup {<<v, u>>}
          /\ ever' = [ever EXCEPT ![<<v, u>>] = @ + 1]
       \/ /\ ~Insertable(v, u, proc[p].op, live)
          /\ UNCHANGED <<live, ever>>
    /\ Finish(p)
    /\ UNCHANGED <<users, nodes, exists, born>>

(* The UPDATE of remove_owner: matches nothing when the row is gone already.*)
SoftDeleteRow(p) ==
    /\ At(p, "soft_delete")
    /\ SoftDelete({<<proc[p].vm, proc[p].user>>})
    /\ Finish(p)
    /\ UNCHANGED <<ever, users, nodes, exists, born>>

(* Mutant: a refused INSERT does not take the soft delete back.             *)
MoveRowPartly(p) ==
    LET v == proc[p].vm  to == proc[p].user
        kept == live \ {<<v, proc[p].other>>}
    IN /\ At(p, "move")
       /\ \/ /\ Insertable(v, to, "transfer", kept)
             /\ Bounded(v, to)
             /\ live' = kept \cup {<<v, to>>}
             /\ ever' = [ever EXCEPT ![<<v, to>>] = @ + 1]
          \/ /\ ~Insertable(v, to, "transfer", kept)
             /\ live' = kept
             /\ UNCHANGED ever
       /\ Finish(p)
       /\ UNCHANGED <<users, nodes, exists, born>>

(* transfer_owner: the UPDATE of the old row and the INSERT of the new one  *)
(* commit together, and a refused INSERT takes the UPDATE back.  Nothing    *)
(* looks at how many rows the UPDATE matched.                               *)
MoveRow(p) ==
    LET v == proc[p].vm  to == proc[p].user
        kept == live \ {<<v, proc[p].other>>}
    IN /\ At(p, "move")
       /\ \/ /\ Insertable(v, to, "transfer", kept)
             /\ Bounded(v, to)
             /\ live' = kept \cup {<<v, to>>}
             /\ ever' = [ever EXCEPT ![<<v, to>>] = @ + 1]
          \/ /\ ~Insertable(v, to, "transfer", kept)
             /\ UNCHANGED <<live, ever>>
       /\ Finish(p)
       /\ UNCHANGED <<users, nodes, exists, born>>

(* The history variable: a VM comes into being while reconciliations hold   *)
(* an answer that does not show it.                                         *)
HasAnswer(p) == proc[p].op = "refresh" /\ ~At(p, "snapshot")
Appeared(v) ==
    born' = [p \in Proc |-> IF HasAnswer(p) /\ v \notin proc[p].snap
                            THEN born[p] \cup {v} ELSE born[p]]

(* The job creates the VM in Proxmox, or fails (at once when the vmid is    *)
(* taken).                                                                  *)
RunJob(p) ==
    /\ At(p, "run")
    /\ \/ /\ proc[p].vm \notin exists
          /\ exists' = exists \cup {proc[p].vm}
          /\ Appeared(proc[p].vm)
          /\ Advance(p)
       \/ /\ Finish(p)
          /\ UNCHANGED <<exists, born>>
    /\ UNCHANGED <<live, ever, users, nodes>>

(* _resolve_node_id / _portal_node_id: no portal node, no owner entry.      *)
ResolveNode(p) ==
    /\ At(p, "resolve")
    /\ AdvanceIf(p, NodeOf[proc[p].vm] \in nodes)
    /\ UNCHANGED <<live, ever, users, nodes, exists, born>>

(* _remove_template_owner: the reason 'converted_to_template' violates the  *)
(* CHECK on deleted_reason, so an UPDATE that matches a row is refused and  *)
(* the exception swallowed.                                                 *)
RemoveTemplateOwner(p) ==
    /\ At(p, "untemplate")
    /\ Finish(p)
    /\ UNCHANGED <<live, ever, users, nodes, exists, born>>

-----------------------------------------------------------------------------
(* _alert_vms_callback and reconcile_for_node                               *)

TakeSnapshot(p) ==
    /\ At(p, "snapshot")
    /\ proc' = [proc EXCEPT
         ![p].snap = {v \in exists : NodeOf[v] = proc[p].node},
         ![p].steps = Tail(@)]
    /\ born' = [born EXCEPT ![p] = {}]
    /\ UNCHANGED <<live, ever, users, nodes, exists>>

(* Mutant: the owned VMs of every node are compared with this node's answer.*)
SelectOwnedEverywhere(p) ==
    /\ At(p, "owned")
    /\ proc' = [proc EXCEPT
         ![p].todo = {<<v, 0>> : v \in {w \in VM : OwnersOf(w) # {}
                                                   /\ w \notin proc[p].snap}},
         ![p].steps = Tail(@)]
    /\ UNCHANGED <<live, ever, users, nodes, exists, born>>

(* Mutant: the query selects the column node_id where it means vmid.        *)
SelectOwnedNodes(p) ==
    /\ At(p, "owned")
    /\ proc' = [proc EXCEPT
         ![p].todo = {<<NodeOf[v], 0>> : v \in {w \in VM : /\ NodeOf[w] = proc[p].node
                                                          /\ OwnersOf(w) # {}
                                                          /\ w \notin proc[p].snap}},
         ![p].steps = Tail(@)]
    /\ UNCHANGED <<live, ever, users, nodes, exists, born>>

SelectOwned(p) ==
    /\ At(p, "owned")
    /\ proc' = [proc EXCEPT
         ![p].todo = {<<v, 0>> : v \in {w \in VM : /\ NodeOf[w] = proc[p].node
                                                   /\ OwnersOf(w) # {}
                                                   /\ w \notin proc[p].snap}},
         ![p].steps = Tail(@)]
    /\ UNCHANGED <<live, ever, users, nodes, exists, born>>

(* on_resource_deleted for one of the VMs that are missing in the snapshot. *)
DropVanished(p) ==
    /\ At(p, "drop")
    /\ \/ \E e \in proc[p].todo :
            /\ SoftDelete({e[1]} \X User)
            /\ proc' = [proc EXCEPT ![p].todo = @ \ {e}]
            /\ UNCHANGED born
       \/ /\ proc[p].todo = {}
          /\ Finish(p)
          /\ born' = [born EXCEPT ![p] = {}]
          /\ UNCHANGED live
    /\ UNCHANGED <<ever, users, nodes, exists>>

-----------------------------------------------------------------------------
(* delete_local_user and on_user_delete                                     *)

(* No active ownerships: the clean-up is skipped.  A transfer without a     *)
(* target raises ValueError, which delete_local_user swallows: skipped too. *)
CountOwnerships(p) ==
    LET l == proc[p] IN
    /\ At(p, "count")
    /\ IF CountOf(l.user) = 0 \/ (l.op = "transfer_user" /\ l.other = None)
       THEN Goto(p, <<"drop_user">>)
       ELSE Advance(p)
    /\ UNCHANGED <<live, ever, users, nodes, exists, born>>

(* The entries of the user, by row id; none left: on_user_delete returns.   *)
SelectEntries(p) ==
    LET u == proc[p].user
        found == {<<v, ever[<<v, u>>]>> : v \in {w \in VM : <<w, u>> \in live}}
    IN /\ At(p, "entries")
       /\ IF found = {} THEN Goto(p, <<"drop_user">>)
          ELSE proc' = [proc EXCEPT ![p].todo = found, ![p].steps = Tail(@)]
       /\ UNCHANGED <<live, ever, users, nodes, exists, born>>

(* action=orphan: one UPDATE for whatever the user owns now.                *)
OrphanEntries(p) ==
    /\ At(p, "orphan")
    /\ SoftDelete(VM \X {proc[p].user})
    /\ Advance(p)
    /\ UNCHANGED <<ever, users, nodes, exists, born>>

(* action=transfer: per entry, the old row (by id) is soft-deleted and a    *)
(* row for the target inserted, in one commit; a refused INSERT is ignored  *)
(* and the soft delete stays.  The owner limit is not consulted.            *)
HandOverEntry(p) ==
    LET u == proc[p].user  to == proc[p].other IN
    /\ At(p, "hand_over")
    /\ \/ \E e \in proc[p].todo :
            LET v == e[1]
                kept == IF ever[<<v, u>>] = e[2] THEN live \ {<<v, u>>} ELSE live
            IN /\ proc' = [proc EXCEPT ![p].todo = @ \ {e}]
               /\ \/ /\ Insertable(v, to, "transfer_user", kept)
                     /\ Bounded(v, to)
                     /\ live' = kept \cup {<<v, to>>}
                     /\ ever' = [ever EXCEPT ![<<v, to>>] = @ + 1]
                  \/ /\ ~Insertable(v, to, "transfer_user", kept)
                     /\ live' = kept
                     /\ UNCHANGED ever
       \/ /\ proc[p].todo = {}
          /\ Advance(p)
          /\ UNCHANGED <<live, ever>>
    /\ UNCHANGED <<users, nodes, exists, born>>

(* Mutant: the schema lets the row go although active owner rows point to it.*)
DropUserUnrestricted(p) ==
    LET u == proc[p].user IN
    /\ At(p, "drop_user")
    /\ users' = [users EXCEPT ![u] = "gone"]
    /\ Finish(p)
    /\ UNCHANGED <<live, ever, nodes, exists, born>>

(* A row of vm_owners, soft-deleted or not, refers to the user.             *)
UserReferenced(u) == \E v \in VM : ever[<<v, u>>] > 0

(* DELETE FROM local_users: refused by the foreign key (ondelete RESTRICT)  *)
(* while any owner row refers to the user.                                  *)
DropUser(p) ==
    LET u == proc[p].user IN
    /\ At(p, "drop_user")
    /\ users' = IF UserReferenced(u) THEN users ELSE [users EXCEPT ![u] = "gone"]
    /\ Finish(p)
    /\ UNCHANGED <<live, ever, nodes, exists, born>>

-----------------------------------------------------------------------------
(* remove_node, on_node_delete and delete_node                              *)

(* on_node_delete: the entries of the node are read and soft-deleted.       *)
ForgetNode(p) ==
    LET hosted == {v \in VM : NodeOf[v] = proc[p].node} IN
    /\ At(p, "forget")
    /\ SoftDelete(hosted \X User)
    /\ proc' = [proc EXCEPT
         ![p].todo = {<<v, 0>> : v \in {w \in hosted : OwnersOf(w) # {}}},
         ![p].steps = Tail(@)]
    /\ UNCHANGED <<ever, users, nodes, exists, born>>

(* delete_node refuses when one node is left.                               *)
CheckLastNode(p) ==
    /\ At(p, "last_node")
    /\ AdvanceIf(p, Cardinality(nodes) > 1)
    /\ UNCHANGED <<live, ever, users, nodes, exists, born>>

NodeReferenced(n) == \E v \in VM, u \in User : NodeOf[v] = n /\ ever[<<v, u>>] > 0

DropNode(p) ==
    LET n == proc[p].node IN
    /\ At(p, "drop_node")
    /\ nodes' = IF NodeReferenced(n) THEN nodes ELSE nodes \ {n}
    /\ Finish(p)
    /\ UNCHANGED <<live, ever, users, exists, born>>

-----------------------------------------------------------------------------
(* The environment: VMs come and go in Proxmox, admins switch users off and *)
(* on again.                                                                *)

VmAppears(v) ==
    /\ v \notin exists
    /\ exists' = exists \cup {v}
    /\ Appeared(v)
    /\ UNCHANGED <<live, ever, users, nodes, proc>>

VmVanishes(v) ==
    /\ v \in exists
    /\ exists' = exists \ {v}
    /\ UNCHANGED <<live, ever, users, nodes, proc, born>>

SetActive(u) ==
    /\ u \notin Admin /\ users[u] # "gone"
    /\ users' = [users EXCEPT ![u] = IF @ = "active" THEN "inactive" ELSE "active"]
    /\ UNCHANGED <<live, ever, nodes, exists, proc, born>>

Start(p) ==
    \/ \E actor \in User, v \in VM :
         \/ \E u \in User : AddCoOwner(p, actor, v, u)
         \/ \E u \in User, orphan \in BOOLEAN :
              RemoveOwner(p, actor, v, u, orphan)
         \/ \E to \in User : TransferOwner(p, actor, v, to)
         \/ AdoptResource(p, actor, v)
         \/ StartDeploy(p, actor, v)
         \/ StartClone(p, actor, v)
    \/ \E v \in VM : StartTemplate(p, v)
    \/ \E n \in Node : StartRefresh(p, n) \/ RemoveNode(p, n)
    \/ \E u \in User, to \in User \cup {None},
          action \in {"orphan_user", "transfer_user"} : DeleteUser(p, u, action, to)

Step(p) ==
    \/ CheckLimit(p) \/ CheckUser(p) \/ CheckOwner(p) \/ CheckLast(p)
    \/ CheckVacant(p) \/ InsertRow(p) \/ SoftDeleteRow(p) \/ MoveRow(p)
    \/ RunJob(p) \/ ResolveNode(p) \/ RemoveTemplateOwner(p)
    \/ TakeSnapshot(p) \/ SelectOwned(p) \/ DropVanished(p)
    \/ CountOwnerships(p) \/ SelectEntries(p) \/ OrphanEntries(p)
    \/ HandOverEntry(p) \/ DropUser(p)
    \/ ForgetNode(p) \/ CheckLastNode(p) \/ DropNode(p)

Next ==
    \/ \E p \in Proc : Start(p) \/ Step(p)
    \/ \E v \in VM : VmAppears(v) \/ VmVanishes(v)
    \/ \E u \in User : SetActive(u)

Spec == Init /\ [][Next]_vars
-----------------------------------------------------------------------------
(* Properties.                                                              *)

(* The types of the tables and of the handlers' locals; no pair has more    *)
(* rows than the bound allows.                                              *)
TypeOK ==
    /\ live \subseteq Row
    /\ ever \in [Row -> 0..MaxRows]
    /\ users \in [User -> {"active", "inactive", "gone"}]
    /\ nodes \subseteq Node
    /\ exists \subseteq VM
    /\ proc \in [Proc -> Local]
    /\ born \in [Proc -> SUBSET VM]

(* Referential integrity of the ledger: an active owner row always points   *)
(* to a user and a node that are there, whatever deletions of users and     *)
(* nodes run between the checks and the INSERT of another handler.          *)
ForeignKeys ==
    \A r \in live : users[r[2]] # "gone" /\ NodeOf[r[1]] \in nodes

(* The owner limit is checked in one session and the row inserted in        *)
(* another, but the damage is bounded: with n handlers in flight a user     *)
(* never has more than n - 1 ownerships beyond the limit.  (The transfer    *)
(* that goes with deleting a user ignores the limit; it is not among Ops    *)
(* where this is claimed.)                                                  *)
LimitOvershoot ==
    \A u \in User : CountOf(u) <= MaxOwnerships + Cardinality(Proc) - 1

(* A handler took this step.                                                *)
Stepped(p) == proc'[p] # proc[p]

(* "Schutz vor Massenloeschungen": the only VM a reconciliation takes       *)
(* owners from although Proxmox has it is one of its own node that came     *)
(* into being after the answer was read, such as a VM that is deployed, and *)
(* given its owner, before the callback queries the ledger.  Every other    *)
(* VM that exists keeps its owners, whatever jobs, deletions and other      *)
(* refreshes do between the answer, the query and the UPDATEs.              *)
ReconcileSparesExisting ==
    [][\A p \in Proc, v \in VM :
         (At(p, "drop") /\ Stepped(p) /\ OwnersOf(v)' # OwnersOf(v) /\ v \in exists)
            => v \in born[p] /\ NodeOf[v] = proc[p].node]_vars

(* The owner limit of the Core edition ("up to 10", README.md) is never     *)
(* exceeded.                                                                *)
LimitRespected ==
    \A u \in User : CountOf(u) <= MaxOwnerships

(* "Wenn user_id der letzte Owner ist, muss orphan=True uebergeben werden"  *)
(* (remove_owner): a VM loses its last owner only through a removal that    *)
(* says so, a reconciliation or the deletion of the user or node.           *)
NoSilentOrphan ==
    [][\A v \in VM :
         (OwnersOf(v) # {} /\ OwnersOf(v)' = {}) =>
            \E p \in Proc :
               /\ Stepped(p)
               /\ \/ proc[p].op = "remove" /\ proc[p].orphan
                  \/ proc[p].op \in {"refresh", "orphan_user",
                                     "transfer_user", "delete_node"}]_vars

(* transfer_owner, "atomic DELETE + INSERT": if the step that writes has an *)
(* effect, the VM's owners are the ones before with the sender replaced by  *)
(* the receiver, who was none of them; a transfer never creates or destroys *)
(* an ownership.                                                            *)
TransferConserves ==
    [][\A p \in Proc, v \in VM :
         (/\ At(p, "move") /\ Stepped(p) /\ live' # live
          /\ v = proc[p].vm) =>
            /\ proc[p].other \in OwnersOf(v) /\ proc[p].user \notin OwnersOf(v)
            /\ OwnersOf(v)' = (OwnersOf(v) \ {proc[p].other})
                               \cup {proc[p].user}]_vars

=============================================================================
