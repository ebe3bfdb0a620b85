SPECIFICATION Spec
CONSTANTS
    Commands = {"append"}
    Mailboxes = {"inbox"}
    TagModulus = 2
    ChannelCap = 1
    NoteClasses = {"exists"}
    MaxRequests = 1
    MaxData = 1
    MaxNotes = 1
    MaxGlitches = 0
    Cancels = FALSE
PROPERTY
    AppendHandsOutUpdates
CHECK_DEADLOCK FALSE
