\* Planning and normal runs with reads, writes and checks, with every correction
\* the runtime records before it asks the model again, and compactions between
\* rounds of tool calls; one caller, and the timer.
SPECIFICATION Spec
CONSTANTS
    r1 = r1
    Runs = {r1}
    NoRun = NoRun
    MaxToolErrors = 3
    d1 = d1
    Deciders = {d1}
    PlanningModes = {TRUE, FALSE}
    PermissionModes = {"ask"}
    Offers = {"read", "write", "check"}
    Texts = {"chinese", "empty", "foreign"}
    ProcessVerdicts = {"authorized", "ask"}
    CompactsAfter = {"tool_calls"}
    MayMissParent = TRUE
    MayMisprepare = TRUE
    AbortSources = {"timeout"}
    StoreFailures = {}
    MaxBatch = 2
    MaxModelRequests = 5
    MaxToolCalls = 3
    MaxRestatements = 1
    MaxReads = 2
    MaxRecoveryRequests = 2
    MaxRecoveryCalls = 8
    MaxCrashes = 0
INVARIANT TypeOK
INVARIANT HistoryReplayable
INVARIANT ReadersAgree
INVARIANT PlanGate
CHECK_DEADLOCK FALSE
