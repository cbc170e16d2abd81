SPECIFICATION Spec
CONSTANTS
    Clients = {c1}
    Names = {n1}
    Ops = {"set"}
    NoCall = NoCall
    MaxCalls = 2
    MaxDeaths = 0
    MaxFaults = 0
PROPERTIES SuccessMeansDone
CHECK_DEADLOCK FALSE
