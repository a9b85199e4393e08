SPECIFICATION Spec
CONSTANTS
    MaxSend = 3
    MaxTurn = 2
    Malformed = TRUE
INVARIANTS
    DoneNeverRejects
    FollowUpSteers
    AbortedSendSaysSo
CHECK_DEADLOCK FALSE
