\* An old session, which may be deleted, and one that is created; one run.
SPECIFICATION Spec
CONSTANTS
    a = a
    b = b
    l1 = l1
    NoSession = NoSession
    Sessions = {a, b}
    Old = {a}
    Deletable = {a}
    WorkspaceChoice = FALSE
    Lists = {l1}
    PageSize = 2
    Faults = {"page", "stream", "start", "cancel", "create", "delete"}
    MaxRuns = 1
    MaxMiddle = 0
INVARIANT LedgerSound
PROPERTY VisibleGrows
CHECK_DEADLOCK FALSE
