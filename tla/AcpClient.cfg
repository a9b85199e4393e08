SPECIFICATION FairSpec
CONSTANTS
    Junk = {"garbage"}
    MaxRequest = 2
    MaxLine = 2
    Users = {"any", "probe", "session"}
INVARIANTS
    ClientInv
    ProbeTruthful
    WritesConfined
PROPERTIES
    Settles
    ProbeEnds
CHECK_DEADLOCK FALSE
