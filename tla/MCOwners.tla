------------------------------ MODULE MCOwners ------------------------------
(* Instances of Owners for TLC: which nodes host the VMs, and which         *)
(* operations an instance exercises.                                        *)
EXTENDS Owners, TLC

OneNode == [v \in VM |-> CHOOSE n \in Node : TRUE]
TwoNodes == CHOOSE f \in [VM -> Node] : \A n \in Node : \E v \in VM : f[v] = n

LimitedOps == AllOps \ {"transfer_user"}
ConcurrentOps == {"deploy", "refresh", "delete_node",
                  "transfer_user"}
LimitOps == {"adopt", "add", "deploy", "transfer"}

ProcSymmetry == Permutations(Proc)
\* Sound where all VMs are on one node.
ProcVmSymmetry == Permutations(Proc) \cup Permutations(VM)
=============================================================================
