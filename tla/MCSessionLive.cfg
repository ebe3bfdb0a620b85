SPECIFICATION FairSpec
CONSTANTS
    Commands = {"close", "noop", "append", "list", "store", "get_metadata", "get_quota",
                "id", "status", "select"}
    Mailboxes = {"inbox"}
    TagModulus = 2
    ChannelCap = 1
    NoteClasses = {"exists"}
    MaxRequests = 2
    MaxData = 1
    MaxNotes = 1
    MaxGlitches = 0
    Cancels = TRUE
PROPERTY
    EveryCommandReturns
CHECK_DEADLOCK FALSE
