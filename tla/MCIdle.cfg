SPECIFICATION FairSpec
CONSTANTS
    ChannelCap = 2
    MaxNotes = 3
    MaxKeepalives = 1
INVARIANTS
    TypeOK
    NoUpdateLost
    SessionIsClean
PROPERTIES
    CallsReturn
CHECK_DEADLOCK FALSE
