SPECIFICATION ApiFairSpec
CONSTANTS
    Callers = {c1, c2}
    Free = free
    DropTask = drop
    MaxSpawns = 2
    MaxCrashes = 0
    MaxDisconnects = 0
    PipeCap = 1
    Replies = {"ok"}
    StateClones = 1
    StartupDrops = 0
PROPERTIES
    CallReturns
