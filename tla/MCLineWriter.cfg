SPECIFICATION FairSpec
CONSTANTS
    TagWidth = 2
    BodyWidths = {0, 2}
    MaxCommands = 3
INVARIANTS
    TypeOK
    OkMeansSent
    EndedLineIsComplete
PROPERTY
    EncodeReturns
CHECK_DEADLOCK FALSE
