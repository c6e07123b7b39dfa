SPECIFICATION PingerSpec
CONSTANTS
    NbCodes = 4
    Threshold = 1
    Delay = 3
    MaxSent = 11
    MaxLoss = 2
INVARIANTS
    TypeOK
    ReportTypeOK
    NothingBookedTwice
    NeverMoreThanSent
    
    VerdictFresh
    NoLateReport

    
CHECK_DEADLOCK FALSE
