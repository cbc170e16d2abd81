SPECIFICATION Spec
CONSTANTS
    Threads = {t1, t2}
    Nodes = {n1, n2}
    NoNode = NoNode
    NoThread = NoThread
    Modes <- OwnIds
    MaxClock = 2
    MaxCalls = 3
    Names = {p}
    Descs = {d1, d2}
    Empty = Empty
    FaultKinds = {"open", "begin"}
    MaxFaults = 1
    NoDesc = NoDesc
    MaxSets = 2
SYMMETRY Symmetry
INVARIANTS TypeOK BothOrNeither
PROPERTIES LaunchSeesOwnSet RefusedSetsAreUnseen
CHECK_DEADLOCK FALSE
