------------------------------ MODULE MCBaseFSM ------------------------------
\* One machine in an open environment, for TLC: the master's or the remote's.
\* No state is of both, so the union of their tables is a table of both, and
\* the first state tells which machine a behaviour is of.
EXTENDS BaseFSM, MasterTable, RemoteTable

Both(master, remote) ==
    [s \in DOMAIN master \cup DOMAIN remote |->
        IF s \in DOMAIN master THEN master[s] ELSE remote[s]]

BothStarts == {"Idle", "RemoteIdle"}
BothStates == MasterStates \cup RemoteStates
BothTimers == MasterTimers \cup RemoteTimers
BothActivities == MasterActivities \cup RemoteActivities
BothMoves == MasterMoves \cup RemoteMoves
BothEntryBytes == Both(MasterEntryBytes, RemoteEntryBytes)
BothHandled == Both(MasterHandled, RemoteHandled)
BothReplies == Both(MasterReplies, RemoteReplies)
BothJoinAt == Both(MasterJoinAt, RemoteJoinAt)

===============================================================================
