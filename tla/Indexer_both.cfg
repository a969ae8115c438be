SPECIFICATION Spec

CONSTANTS
    TxKinds <- RecordKinds
    MaxTxs = 4
    SlotsTie = FALSE
    MaxCuts = 0
    MaxCrashes = 0
    MaxFailures = 0
    MaxBackfills = 1
    BackfillLimit = 2
    PageCap = 1
    MaxReads = 0
    HistoryLimit = 0

INVARIANTS
    BackfillCoversBoth
