SPECIFICATION FairSpec
CONSTANTS
    MaxSend = 3
    MaxTurn = 2
    Malformed = TRUE
INVARIANTS
    SessionInv
    ActiveTurnAgrees
PROPERTIES
    ImplementsContract
    ExitSettlesDone
CHECK_DEADLOCK FALSE
