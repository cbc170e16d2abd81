SPECIFICATION FairSpec
CONSTANTS
    Modules = {"pipeline", "model", "resource"}
    Handlers = 2
    MayFail = {"args", "path", "db", "bus", "instance", "connect", "export", "name"}
    MaxTerms = 2
    MaxCalls = 3
    MaxStarts = 2
INVARIANTS TypeOK ProbedAllOrNothing NameAfterModules ExitsClean
PROPERTIES ServedByServices TermEndsLoop EveryCallReturns ImplementsBusService
CHECK_DEADLOCK FALSE
