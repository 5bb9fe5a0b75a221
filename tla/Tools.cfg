SPECIFICATION ToolsSpec
CONSTANTS
    r1 = r1
    Runs = {r1}
    Run = r1
    MaxWrites = 1
    MaxEdits = 1
    Kinds = {"plain", "probe", "service"}
    Forks = TRUE
    Entries = 2
    Limit = 2
    MaxFiles = 1
    MaxCalls = 2
INVARIANT NothingLeft
INVARIANT LooksWhole
PROPERTY EditsSurvive
PROPERTY ServiceLeftAlone
PROPERTY AbortSettles
CHECK_DEADLOCK FALSE
