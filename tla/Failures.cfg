\* Two runs one after the other, which plan first or do not, both failures of
\* the store, one crash; nobody need answer.
SPECIFICATION FairSpec
CONSTANTS
    r1 = r1
    r2 = r2
    Runs = {r1, r2}
    NoRun = NoRun
    MaxToolErrors = 3
    d1 = d1
    Deciders = {d1}
    PlanningModes = {TRUE, FALSE}
    PermissionModes = {"ask"}
    Offers = {"service"}
    Texts = {"chinese"}
    ProcessVerdicts = {"ask"}
    CompactsAfter = {"none", "tool_calls"}
    MayMissParent = FALSE
    MayMisprepare = FALSE
    AbortSources = {"user", "timeout"}
    StoreFailures = {"absent", "committed"}
    MaxBatch = 1
    MaxModelRequests = 2
    MaxToolCalls = 3
    MaxRestatements = 1
    MaxReads = 3
    MaxRecoveryRequests = 4
    MaxRecoveryCalls = 8
    MaxCrashes = 1
INVARIANT WaitAnswerable
INVARIANT Ownership
PROPERTY LifecycleSpec
PROPERTY RunsEnd
CHECK_DEADLOCK FALSE
