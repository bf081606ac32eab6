SPECIFICATION Spec
CONSTANTS
    User = {a, u}
    Admin = {a}
    Node = {n1, n2}
    VM = {v1, v2}
    NodeOf <- TwoNodes
    Proc = {p1, p2}
    Ops <- ConcurrentOps
    MaxOwnerships = 1
    MaxRows = 1
    None = None
SYMMETRY ProcSymmetry
INVARIANTS TypeOK ForeignKeys
PROPERTIES ReconcileSparesExisting
