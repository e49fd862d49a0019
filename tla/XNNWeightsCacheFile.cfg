SPECIFICATION Spec
CONSTANTS
    Processes = {p}
    Handles = {h1}
    Weights <- TwoWeights
    DiskPages = 4
    MaxRefs = 2
INVARIANTS TypeOK IndexSound MemoryIntact
PROPERTIES IndexAfterData SavedWhenFinished
