SPECIFICATION FairClientSpec
CONSTANTS
    ServerId = {0, 1}
    Junk = {"garbage", "null"}
    MaxRequest = 2
    MaxLine = 3
INVARIANTS
    NotesInv
    AnswersMatch
PROPERTY ExitSettles
CHECK_DEADLOCK FALSE
