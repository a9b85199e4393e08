SPECIFICATION FairSpec
CONSTANTS
    Owned = {TRUE, FALSE}
    Resumes = TRUE
    CanClose = TRUE
    MaxOpen = 2
    MaxSend = 1
    MaxNote = 2
INVARIANTS
    ConnectionInv
    UpdatesFaithful
PROPERTIES
    ExitSettles
CHECK_DEADLOCK FALSE
