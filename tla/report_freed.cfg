SPECIFICATION PingerSpec
CONSTANTS
    NbCodes = 4
    Threshold = 1
    Delay = 3
    MaxSent = 4
    MaxLoss = 1
INVARIANTS
    TimerDeletedOnce
CHECK_DEADLOCK FALSE
