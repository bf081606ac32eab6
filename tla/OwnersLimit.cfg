SPECIFICATION Spec
CONSTANTS
    User = {a, u}
    Admin = {a}
    Node = {n1}
    VM = {v1, v2, v3}
    NodeOf <- OneNode
    Proc = {p1, p2}
    Ops <- LimitOps
    MaxOwnerships = 1
    MaxRows = 1
    None = None
SYMMETRY ProcVmSymmetry
INVARIANTS LimitOvershoot
