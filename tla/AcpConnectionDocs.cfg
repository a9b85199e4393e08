SPECIFICATION Spec
CONSTANTS
    Owned = {FALSE}
    Resumes = FALSE
    CanClose = TRUE
    MaxOpen = 1
    MaxSend = 1
    MaxNote = 3
INVARIANTS
    HeldFirst
    DoneTellsExit
CHECK_DEADLOCK FALSE
