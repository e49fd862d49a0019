SPECIFICATION Spec
CONSTANTS
    Executors = {e1, e2}
    Named <- NamedConstants
    Graphs <- AddedConstant
    MaxRefCount = 100
    MaxCompiles = 3
INVARIANT StaticDataAlive
CHECK_DEADLOCK FALSE
