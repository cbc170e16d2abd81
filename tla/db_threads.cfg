SPECIFICATION Spec
CONSTANTS
    Callers = {c1, c2}
    Names = {n1}
    Paths = {p1}
    Descs = {d1}
    Apps = {a1}
    Empty = Empty
    Ops = {"set_model", "activate_model", "delete_model"}
    FaultKinds = {"write"}
    GintMax = 3
    MaxVersion = 2
    MaxRowid = 4
    MaxFaults = 1
    MaxCrashes = 1
SYMMETRY Symmetry
INVARIANTS TypeOK AtMostOneActive OneRowPerVersion TransactionsExclusive
