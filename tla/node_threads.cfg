SPECIFICATION Spec
CONSTANTS
    Threads = {t1, t2}
    Nodes = {n1, n2}
    NoNode = NoNode
    NoThread = NoThread
    Modes <- BothModes
    MaxClock = 2
    MaxCalls = 6
INVARIANTS TypeOK NoUseAfterFree LaunchedStaysUp NothingLeaks
PROPERTIES StateChangesByOwnId CallsReturn
CHECK_DEADLOCK FALSE
