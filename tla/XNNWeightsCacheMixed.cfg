SPECIFICATION Spec
CONSTANTS
    Executors = {e1, e2, e3}
    Named <- NamedConstants
    Graphs <- AllGraphs
    MaxRefCount = 100
    MaxCompiles = 4
SYMMETRY Symmetry
INVARIANTS EntriesOwnSlots CountsNeverWrap
CHECK_DEADLOCK FALSE
