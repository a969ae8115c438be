SPECIFICATION FairSpec

CONSTANTS
    TxKinds <- StreamKinds
    MaxTxs = 3
    SlotsTie = TRUE
    MaxCuts = 1
    MaxCrashes = 1
    MaxFailures = 1
    MaxBackfills = 0
    BackfillLimit = 2
    PageCap = 1
    MaxReads = 1
    HistoryLimit = 0

INVARIANTS
    TypeOK
    HealthSlotCoversSignature
    OnlyGapsAndFailuresMiss

PROPERTIES
    Reconnects
