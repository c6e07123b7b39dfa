SPECIFICATION FairSpec
CONSTANTS
    Width = 3
    Flood = 3
    MaxLoss = 2
    MaxStrays = 3
    MaxRequests = 3
INVARIANTS
    TypeOK
    ResultsAligned
    NoPhantomEvent
    TimerInUse
    
    FloodCounted
PROPERTIES
    ResultsCome
CHECK_DEADLOCK FALSE
