SPECIFICATION Spec
CONSTANTS
    Packages = {"full", "odd", "tpk"}
    Rpks = {"full", "odd"}
    Config <- OneOfEach
    AppInfos = {"", "bare"}
    MaxVersion = 2
    MaxFaults = 1
    MaxJobs = 3
INVARIANTS TypeOK InstalledIsComplete PathsAreResolved
PROPERTIES AppVersionsSurvive RemovedIsGone RecoveryUndoesInstall
CHECK_DEADLOCK FALSE
