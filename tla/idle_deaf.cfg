SPECIFICATION Spec
CONSTANTS
    Capacity = 2
    MaxLoss = 1
    Commands = {"AvailabilityModeCommand", "EndModeCommand"}
    MaxCommands = 2
    Timely = FALSE
INVARIANTS IdleListens
CHECK_DEADLOCK FALSE
