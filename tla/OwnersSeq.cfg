SPECIFICATION Spec
CONSTANTS
    User = {a, u}
    Admin = {a}
    Node = {n1}
    VM = {v1, v2, v3}
    NodeOf <- OneNode
    Proc = {p1}
    Ops <- LimitedOps
    MaxOwnerships = 2
    MaxRows = 1
    None = None
INVARIANTS LimitRespected
PROPERTIES NoSilentOrphan TransferConserves
SYMMETRY ProcVmSymmetry
