SPECIFICATION ToolsSpec
CONSTANTS
    r1 = r1
    Runs = {r1}
    Run = r1
    MaxWrites = 0
    MaxEdits = 0
    Kinds = {"service"}
    Forks = TRUE
    Entries = 2
    Limit = 2
    MaxFiles = 1
    MaxCalls = 1
PROPERTY ServiceStops
CHECK_DEADLOCK FALSE
