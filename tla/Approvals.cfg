\* Tools that need consent, two callers of the approval endpoint, all sources
\* of an abort, both permission modes, batches of two calls.
SPECIFICATION Spec
CONSTANTS
    r1 = r1
    Runs = {r1}
    NoRun = NoRun
    MaxToolErrors = 3
    d1 = d1
    d2 = d2
    Deciders = {d1, d2}
    PlanningModes = {FALSE}
    PermissionModes = {"ask", "full"}
    Offers = {"read", "service", "malformed"}
    Texts = {"chinese"}
    ProcessVerdicts = {"denied", "ask"}
    CompactsAfter = {}
    MayMissParent = FALSE
    MayMisprepare = FALSE
    AbortSources = {"user", "external", "timeout", "sink"}
    StoreFailures = {}
    MaxBatch = 2
    MaxModelRequests = 2
    MaxToolCalls = 4
    MaxRestatements = 1
    MaxReads = 3
    MaxRecoveryRequests = 4
    MaxRecoveryCalls = 8
    MaxCrashes = 0
SYMMETRY Symmetry
INVARIANT ExecutionAuthorized
INVARIANT CallInBatch
PROPERTY AbortHonoured
CHECK_DEADLOCK FALSE
