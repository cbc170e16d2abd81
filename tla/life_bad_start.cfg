SPECIFICATION Spec
CONSTANTS
    Modules = {"pipeline"}
    Handlers = 1
    MayFail = {"args", "path", "db"}
    MaxTerms = 0
    MaxCalls = 0
    MaxStarts = 1
INVARIANTS FinalizeFindsTable
CHECK_DEADLOCK FALSE
