SPECIFICATION FairSpec
CONSTANTS
    MaxSend = 2
    MaxForeign = 1
    SseDrops = TRUE
INVARIANTS
    SessionInv
PROPERTIES
    TeardownSparesBusy
    ImplementsContract
    DoneResolves
CHECK_DEADLOCK FALSE
