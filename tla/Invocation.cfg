SPECIFICATION FairSpec
CONSTANTS
    Runtime = {"claude", "cursor", "codex", "opencode", "acp"}
    MaxAttempts = 3
    Files = TRUE
    Log = TRUE
INVARIANTS
    InvocationInv
    Truthful
    OnlyFailuresAreRetried
PROPERTIES
    AbortReaches
    Ends
CHECK_DEADLOCK FALSE
