SPECIFICATION FairSpec
CONSTANTS
    MaxAttempts = 3
    MaxChallenges = 3
    MaxNotes = 2
INVARIANTS
    TypeOK
    SessionIsGranted
PROPERTIES
    AttemptReturns
CHECK_DEADLOCK FALSE
