SPECIFICATION DrivenSpec
CONSTANTS
    States <- MasterStates
    Start = "Idle"
    ActivityStates <- MasterActivities
    Moves <- MasterMoves
    PeerBytes = {"RemoteAck"}
    Io = io
    Workers = {w1, w2}
    Capacity = 1
    MaxOverlaps = 1
    Script <- TestScript
    Cyclic = TRUE
SYMMETRY Symmetry
INVARIANTS
    DrivenTypeOK
    
    StopsWhatRuns
    RoundComplete
    AttemptNotLost
CHECK_DEADLOCK FALSE
