SPECIFICATION Spec
CONSTANTS
    MaxSend = 2
    MaxLine = 1
    SystemPrompt = TRUE
INVARIANTS
    AbortReportsPending
    AbortedHasNoExitCode
CHECK_DEADLOCK FALSE
