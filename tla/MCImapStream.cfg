SPECIFICATION FairSpec
CONSTANTS
    BlockSize = 2
    MaxCapacity = 4
    MaxNeeded = 6
    MaxIoErrors = 1
    MCLength = 6
    Wires <- MCWires
INVARIANTS
    TypeOK
    BufferIsUnread
    RoomBeforeRead
    CapacityBounded
    NeedsOnlyTheNext
    ReadsOnlyForMore
PROPERTIES
    KeepsPromise
    EveryResponseArrives
    ClosureIsReported
    ErrorsPersist
