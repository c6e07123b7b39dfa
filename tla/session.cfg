SPECIFICATION Spec
CONSTANTS
    Capacity = 3
    MaxLoss = 2
    Commands = {"AvailabilityModeCommand", "ThroughputModeCommand", "EndModeCommand", "EndTest"}
    MaxCommands = 3
    Timely = FALSE
INVARIANTS TypeOK RetryPending   OwnTimers
 
CHECK_DEADLOCK FALSE
