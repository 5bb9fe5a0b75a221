\* Two callers decide the same plan.
SPECIFICATION Spec
CONSTANTS
    r1 = r1
    Runs = {r1}
    NoRun = NoRun
    MaxToolErrors = 3
    d1 = d1
    d2 = d2
    Deciders = {d1, d2}
    PlanningModes = {TRUE}
    PermissionModes = {"ask"}
    Offers = {"read"}
    Texts = {"chinese"}
    ProcessVerdicts = {"ask"}
    CompactsAfter = {}
    MayMissParent = FALSE
    MayMisprepare = FALSE
    AbortSources = {"timeout"}
    StoreFailures = {}
    MaxBatch = 1
    MaxModelRequests = 2
    MaxToolCalls = 3
    MaxRestatements = 1
    MaxReads = 3
    MaxRecoveryRequests = 4
    MaxRecoveryCalls = 8
    MaxCrashes = 0
PROPERTY PlanDecidedOnce
CHECK_DEADLOCK FALSE
