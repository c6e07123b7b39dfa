SPECIFICATION FairSpec
CONSTANTS
    Capacity = 3
    MaxLoss = 1
    Commands = {"AvailabilityModeCommand", "EndModeCommand"}
    MaxCommands = 2
    Timely = FALSE
PROPERTIES  AvailabilityEnds
CHECK_DEADLOCK FALSE
