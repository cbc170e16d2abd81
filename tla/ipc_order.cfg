SPECIFICATION Spec
CONSTANTS
    Clients = {c1, c2}
    Names = {n1}
    Ops = {"set", "get", "delete", "launch", "use", "destroy"}
    NoCall = NoCall
    MaxCalls = 4
    MaxDeaths = 1
    MaxFaults = 1
SYMMETRY Symmetry
INVARIANTS TypeOK ProgramOrder IdsAreNotReused
PROPERTIES ReadsAreNotStale
CHECK_DEADLOCK FALSE
