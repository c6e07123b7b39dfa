SPECIFICATION Spec
CONSTANTS
    States <- BothStates
    Starts <- BothStarts
    TimerStates <- BothTimers
    ActivityStates <- BothActivities
    Moves <- BothMoves
    EntryBytes <- BothEntryBytes
    Handled <- BothHandled
    Replies <- BothReplies
    JoinAt <- BothJoinAt
    Capacity = 3
INVARIANTS
    TypeOK
    OwnReadOnce
    LoopOnce
    LoopAlive
    ExpiryPending
CHECK_DEADLOCK FALSE
