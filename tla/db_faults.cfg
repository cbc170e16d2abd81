SPECIFICATION Spec
CONSTANTS
    Callers = {c1}
    Names = {n1}
    Paths = {p1}
    Descs = {d1}
    Apps = {a1}
    Empty = Empty
    Ops = {"set_pipeline", "set_model", "update_description", "activate_model", "delete_model", "set_resource"}
    FaultKinds = {"open", "begin", "write", "rollback", "end"}
    GintMax = 3
    MaxVersion = 2
    MaxRowid = 2
    MaxFaults = 1
    MaxCrashes = 1
PROPERTIES TablesChangeAtomically AcknowledgedSetsAreDurable ActiveModelPersists
