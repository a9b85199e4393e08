SPECIFICATION FairSpec
CONSTANTS
    MaxSend = 2
    MaxText = 1
    Room = 1
    McpServers = TRUE
INVARIANTS
    SessionInv
PROPERTIES
    ImplementsContract
    ExitResolvesDone
CHECK_DEADLOCK FALSE
