SPECIFICATION FairSpec
CONSTANTS
    MaxSend = 1
    MaxForeign = 0
    SseDrops = TRUE
INVARIANTS
    TurnEndPerTurn
    OnlySessionEvents
    AbortIsPosted
PROPERTIES
    EndInputServesAll
    EndInputResolvesDone
CHECK_DEADLOCK FALSE
