SPECIFICATION MockFairSpec
CONSTANTS
    BlockSize = 2
    MaxCapacity = 4
    MaxNeeded = 5
    MaxIoErrors = 2
    MCLength = 5
    Wires <- MCWires
PROPERTIES
    MockIsATransport
    TestGetsItsResponses
CHECK_DEADLOCK FALSE
