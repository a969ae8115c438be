SPECIFICATION FairSpec

CONSTANTS
    Requests = {open1, open2, decode1}
    Kind <- RequestKinds
    Shapes <- RouteShapes
    open1 = open1
    open2 = open2
    close1 = close1
    decode1 = decode1
    Nobody = Nobody
    SlotsTie = FALSE
    MaxFailures = 1
    MaxReverts = 1
    MaxDrops = 1
    MaxRestarts = 1
    MaxCancels = 1
    MaxBackfills = 0
    BackfillLimit = 2
    PageCap = 1
    HistoryLimit = 1
    MaxReads = 0

INVARIANTS
    TypeOK
    OkInSendOrder
    RevertedOnlyOnRequest

PROPERTIES
    ImplementsContract
    EveryRequestAnswered
