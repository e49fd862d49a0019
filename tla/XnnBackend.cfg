SPECIFICATION Spec
CONSTANTS
    t1 = t1
    t2 = t2
    p1 = p1
    empty = empty
    none = none
    Threads <- MCThreads
    Handles = {1, 2}
    Requests <- MCRequests
    Slots <- MCSlots
    Paths <- MCPaths
    EmptyPath <- empty
    None <- none
    Caches = {1, 2, 3}
    Workspaces = {1, 2, 3}
    MaxCalls = 4
INVARIANTS
    TypeOK
    OneCachePerPath
    SharedAsAsked
    Exclusive
    LocksAlive
PROPERTY CallsReturn
CHECK_DEADLOCK FALSE
