\* Not a run: each of these is violated by what the code does (see README.md).
SPECIFICATION StreamSpec
CONSTANTS
    Cli = {"claude", "cursor", "codex", "opencode"}
    Length = 2
    Capacity = 5
    Nulls = TRUE
    Throwing = {"onEvent", "onInit", "onToolUseObserved", "onOutput"}
INVARIANTS
    LoopStaysAlive
    ThrowAllows
    InitOnce
    LinesAreIgnored
CHECK_DEADLOCK FALSE
