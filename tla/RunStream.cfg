SPECIFICATION FairStreamSpec
CONSTANTS
    Cli = {"claude", "cursor", "codex", "opencode"}
    Length = 3
    Capacity = 5
    Nulls = FALSE
    Throwing = {"onEvent", "onInit", "onToolUseObserved", "onOutput"}
INVARIANTS
    StreamInv
    RunFaithful
PROPERTIES
    KeepsReading
CHECK_DEADLOCK FALSE
