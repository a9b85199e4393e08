SPECIFICATION QueueSpec
CONSTANTS
    Event = {e1, e2}
    Waiting = Waiting
    Finished = Finished
    MaxPush = 4
    MaxNext = 4
INVARIANTS
    QueueInv
PROPERTIES
    ImplementsChannel
CHECK_DEADLOCK FALSE
