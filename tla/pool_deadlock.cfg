SPECIFICATION TesterSpec
CONSTANTS
    Capacity = 3
    MaxLoss = 0
    Commands = {"ThroughputModeCommand", "EndModeCommand"}
    MaxCommands = 2
    Timely = TRUE
    Interrupts = TRUE
PROPERTIES CollectsEverySecond
CHECK_DEADLOCK FALSE
