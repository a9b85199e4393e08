SPECIFICATION FairSpec
CONSTANTS
    MaxSend = 1
    MaxText = 0
    Room = 1
    McpServers = TRUE
INVARIANTS
    InputClosedByCaller
    TurnEndHeard
    FailedOpenLeavesNoFile
PROPERTIES
    ExitAloneResolvesDone
CHECK_DEADLOCK FALSE
