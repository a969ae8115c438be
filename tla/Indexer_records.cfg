SPECIFICATION Spec

CONSTANTS
    TxKinds <- RecordKinds
    MaxTxs = 3
    SlotsTie = TRUE
    MaxCuts = 0
    MaxCrashes = 0
    MaxFailures = 1
    MaxBackfills = 1
    BackfillLimit = 2
    PageCap = 1
    MaxReads = 0
    HistoryLimit = 1

INVARIANTS
    BackfillCoversWallet
    PagesMissNothing
