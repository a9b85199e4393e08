SPECIFICATION ClientSpec
CONSTANTS
    ServerId = {0, 1}
    Junk = {"garbage", "null"}
    MaxRequest = 2
    MaxLine = 2
INVARIANTS
    OnlyResponsesAnswer
    DrainedBeforeDone
CHECK_DEADLOCK FALSE
