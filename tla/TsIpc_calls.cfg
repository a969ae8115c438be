SPECIFICATION FairSpec
CONSTANTS
    Callers = {c1, c2}
    Free = free
    DropTask = drop
    MaxSpawns = 2
    MaxCrashes = 1
    MaxDisconnects = 1
    PipeCap = 1
    Replies = {"ok", "remote", "protocol"}
    StateClones = 1
    StartupDrops = 0
INVARIANTS
    TypeOK NoOrphanProcess NoStrandedWaiter OnlyKnownLeaks
    MergedOnlyAfterDisconnect CrashErrorNeedsTwoDeaths
PROPERTIES
    ImplementsContract
    CallReturns
