SPECIFICATION FairSpec
CONSTANTS
    Capacity = 2
    MaxLoss = 0
    Commands = {"ThroughputModeCommand"}
    MaxCommands = 1
    Timely = FALSE
PROPERTIES LateAckDispatched
CHECK_DEADLOCK FALSE
