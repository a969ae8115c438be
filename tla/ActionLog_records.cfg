SPECIFICATION Spec

CONSTANTS
    Requests = {open1, open2, close1}
    Kind <- RequestKinds
    Shapes <- RouteShapes
    open1 = open1
    open2 = open2
    close1 = close1
    decode1 = decode1
    Nobody = Nobody
    SlotsTie = TRUE
    MaxFailures = 1
    MaxReverts = 0
    MaxDrops = 0
    MaxRestarts = 0
    MaxCancels = 0
    MaxBackfills = 1
    BackfillLimit = 2
    PageCap = 1
    HistoryLimit = 1
    MaxReads = 1

INVARIANTS
    BackfillRepairs
    HistoryTellsTheLog
