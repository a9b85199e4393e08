SPECIFICATION FairSpec
CONSTANTS
    Junk = {"null"}
    MaxRequest = 1
    MaxLine = 1
    Users = {"any"}
INVARIANTS
    AnsweredNeverRejected
    PumpSurvives
    DisposeStopsReading
PROPERTIES
    DisposeNeverHangs
CHECK_DEADLOCK FALSE
