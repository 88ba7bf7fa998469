SPECIFICATION Spec
CONSTANTS
    HelloCount = 1
    PageCount = 2
    Returning = {TRUE, FALSE}
    Failing = {"redis", "kafka"}
    MaxMsgs = 3
    MaxBatch = 2
    MaxPerMs = 3
    MaxRequests = 2
INVARIANTS
    LoadedWithoutHole
    EndIsTheEnd
    PagesFromStoredIds
    MissesOnlyTheGap
CHECK_DEADLOCK FALSE
