SPECIFICATION Spec
CONSTANTS
    alone = alone
    sharing = sharing
    forward = forward
    encode = encode
    device = device
    none = none
    Modules <- MCModules
    Methods <- MCMethods
    PlannedSizes <- MCPlannedSizes
    Requests <- MCRequests
    DeviceMethods <- MCDeviceMethods
    Sharing <- MCSharing
    CallerSizes <- MCCallerSizes
    None <- none
    AddressSpace = 64
    Base = 49
    Capacity = 10
    Heap = {1, 2, 3, 4, 5, 6, 7, 8, 9, 10}
INVARIANTS
    TypeOK
    SpansBacked
    Apart
    PiecesApart
    NoHeapLeak
PROPERTY
    Stays
CHECK_DEADLOCK FALSE
