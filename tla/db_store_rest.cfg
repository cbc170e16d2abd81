SPECIFICATION Spec
CONSTANTS
    Callers = {c1}
    Names = {n1}
    Paths = {p1, p2}
    Descs = {d1}
    Apps = {a1}
    Empty = Empty
    Ops = {"set_pipeline", "get_pipeline", "delete_pipeline", "set_resource", "get_resource", "delete_resource"}
    FaultKinds = {"open", "begin", "rollback"}
    GintMax = 3
    MaxVersion = 3
    MaxRowid = 4
    MaxFaults = 1
    MaxCrashes = 1

PROPERTY ImplementsStore
