SPECIFICATION Spec
CONSTANTS
    Callers = {c1}
    Names = {n1}
    Paths = {p1}
    Descs = {d1}
    Apps = {a1}
    Empty = Empty
    Ops = {"set_model", "update_description", "activate_model", "get_model", "get_activated", "delete_model"}
    FaultKinds = {"open", "begin", "rollback"}
    GintMax = 3
    MaxVersion = 3
    MaxRowid = 4
    MaxFaults = 1
    MaxCrashes = 1
PROPERTY ImplementsStore
