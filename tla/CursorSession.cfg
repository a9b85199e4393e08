SPECIFICATION FairSpec
CONSTANTS
    MaxSend = 3
    MaxLine = 2
    SystemPrompt = TRUE
INVARIANTS
    SessionInv
    EventsFaithful
PROPERTIES
    NothingStartsAfterAbort
    DoneResolves
CHECK_DEADLOCK FALSE
