SPECIFICATION Spec
CONSTANTS
    Callers = {c1}
    Free = free
    DropTask = drop
    MaxSpawns = 3
    MaxCrashes = 0
    MaxDisconnects = 0
    PipeCap = 1
    Replies = {"ok"}
    StateClones = 2
    StartupDrops = 1
INVARIANTS
    WorkerCrashedMeansCrash
