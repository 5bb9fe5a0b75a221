\* Nothing is deleted; one run, which may write more than it starts and ends.
SPECIFICATION FairSpec
CONSTANTS
    a = a
    b = b
    l1 = l1
    NoSession = NoSession
    Sessions = {a, b}
    Old = {a}
    Deletable = {}
    WorkspaceChoice = TRUE
    Lists = {l1}
    PageSize = 2
    Faults = {"page", "cancel", "list", "start", "stream", "workspace"}
    MaxRuns = 1
    MaxMiddle = 3
PROPERTY PagesSettle
CHECK_DEADLOCK FALSE
