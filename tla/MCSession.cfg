SPECIFICATION Spec
CONSTANTS
    Commands = {"create", "fetch", "append"}
    Mailboxes = {"inbox"}
    TagModulus = 2
    ChannelCap = 1
    NoteClasses = {"exists"}
    MaxRequests = 3
    MaxData = 2
    MaxNotes = 1
    MaxGlitches = 0
    Cancels = TRUE
INVARIANTS
    TypeOK
    OkIsItsOwn
    CompleteResult
    SuccessLeavesNothing
CHECK_DEADLOCK FALSE
