SPECIFICATION Spec
CONSTANTS
    NbCodes = 3
    Threshold = 1
    Delay = 2
    MaxSent = 8
    MaxLoss = 2
PROPERTIES
    OnlyEarlierLost
CHECK_DEADLOCK FALSE
