SPECIFICATION Spec
CONSTANTS
    Root = 1
    Heaps <- MCHeaps
    MaxCells = 34
    MaxCalls = 5
INVARIANTS
    TypeOK
    TreeSound
    Unshared
    CacheSound
PROPERTIES
    RefreshAgrees
CHECK_DEADLOCK FALSE
