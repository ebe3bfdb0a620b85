SPECIFICATION Spec
CONSTANTS
    Commands = {"fetch"}
    Mailboxes = {"inbox"}
    TagModulus = 2
    ChannelCap = 1
    NoteClasses = {}
    MaxRequests = 1
    MaxData = 1
    MaxNotes = 0
    MaxGlitches = 0
    Cancels = FALSE
INVARIANT
    FetchReportsLoss
CHECK_DEADLOCK FALSE
