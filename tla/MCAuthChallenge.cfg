SPECIFICATION Spec
CONSTANTS
    MaxAttempts = 1
    MaxChallenges = 1
    MaxNotes = 1
INVARIANTS
    EachChallengeProcessed
CHECK_DEADLOCK FALSE
