SPECIFICATION TesterSpec
CONSTANTS
    Capacity = 3
    MaxLoss = 0
    Commands = {"AvailabilityModeCommand", "ThroughputModeCommand", "EndModeCommand"}
    MaxCommands = 2
    Timely = TRUE
    Interrupts = FALSE
INVARIANTS NothingLeaks EndIsCurrent
PROPERTIES
    DispatchedThenCollected
    Session
    ThroughputCompletes
CHECK_DEADLOCK FALSE
