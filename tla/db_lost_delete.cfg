SPECIFICATION Spec
CONSTANTS
    Callers = {c1}
    Names = {n1}
    Paths = {p1}
    Descs = {d1}
    Apps = {a1}
    Empty = Empty
    Ops = {"set_pipeline", "delete_pipeline"}
    FaultKinds = {"write", "end"}
    GintMax = 3
    MaxVersion = 2
    MaxRowid = 4
    MaxFaults = 1
    MaxCrashes = 1
PROPERTY AcknowledgedDeletesAreDurable
