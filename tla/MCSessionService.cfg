SPECIFICATION Spec
CONSTANTS
    Commands = {"copy", "noop", "append", "list", "fetch", "expunge",
                "capabilities", "search", "get_metadata", "get_quota", "get_quota_root",
                "id", "status", "select"}
    Mailboxes = {"inbox", "drafts"}
    TagModulus = 2
    ChannelCap = 1
    NoteClasses = {"fetch", "exists", "flags", "expunge", "metadata"}
    MaxRequests = 2
    MaxData = 1
    MaxNotes = 1
    MaxGlitches = 1
    Cancels = FALSE
INVARIANTS
    CompleteResult
    SuccessLeavesNothing
PROPERTIES
    KeepsPromise
    UpdatesAreHandedOut
CHECK_DEADLOCK FALSE
