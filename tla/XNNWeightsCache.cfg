SPECIFICATION Spec
CONSTANTS
    Executors = {e1, e2, e3}
    Named <- NamedConstants
    Graphs <- SharedLayer
    MaxRefCount = 100
    MaxCompiles = 4
SYMMETRY Symmetry
INVARIANTS TypeOK PackedAlive RefCountCovers BalancedWithoutFailure
CHECK_DEADLOCK FALSE
