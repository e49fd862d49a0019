\* A file of three pages, the last one not full; five pages of address space.
SPECIFICATION Spec
CONSTANTS
    None = None
    b1 = b1
    b2 = b2
    b3 = b3
    Buffers <- MCBuffers
    Pages <- MCPages
    Configs <- MCConfigs
    PageSize = 2
    FileSize = 5
SYMMETRY BufferSymmetry
INVARIANTS
    TypeOK
    BuffersMapped
    PagesOwned
