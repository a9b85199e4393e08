SPECIFICATION Spec
CONSTANTS
    Runtime = {"claude", "cursor", "codex", "opencode", "acp"}
    MaxAttempts = 2
    Files = TRUE
    Log = TRUE
INVARIANTS
    AbortTerminates
    NoFileStays
    TimeoutEnds
    ResultOnce
    DenialEnds
CHECK_DEADLOCK FALSE
