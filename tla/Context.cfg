SPECIFICATION Spec
CONSTANTS
    OutputRoom = 5
    OutputCap = 3
    Marker = 1
    Retain = 1
    Trigger = 8
    Budget = 10
    Target = 2
    FallbackFloor = 1
    Fixed = 2
    OutputSizes = {1, 4}
    Batches <- MCBatches
    PlanRuns = {2}
    MaxRuns = 2
    MaxRequests = 4
INVARIANT WirePaired
INVARIANT RefusedTextStaysOut
INVARIANT MemoryComplete
INVARIANT OutputsShared
CHECK_DEADLOCK FALSE
