SPECIFICATION Spec
CONSTANTS
    ChannelCap = 1
    MaxNotes = 1
    MaxKeepalives = 0
INVARIANTS
    InterruptIsManual
CHECK_DEADLOCK FALSE
