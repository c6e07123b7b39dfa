----------------------------- MODULE MasterTable -----------------------------
(***************************************************************************)
(* The master's state machine (MasterFSM.cpp) and the read handlers of its *)
(* two activities (MasterPinger.cpp, MasterThroughput.cpp) as tables.      *)
(***************************************************************************)
EXTENDS Events, Sequences

MasterActivities == {"AvailabilityMode", "ThroughputMode"}

MasterTimers ==
    {"SentAvailableModeCommand", "SentThroughputModeCommand", "WaitAckAfterEndMode"}

MasterStates == {"Idle"} \cup MasterTimers \cup MasterActivities

\* Faulty: a timeout gives up instead of trying again.
MasterMoveGivesUp(from, on, sends, to) ==
    [from |-> from, on |-> on, sends |-> sends, to |-> IF on = "Timeout" THEN "Idle" ELSE to]

MasterMove(from, on, sends, to) == [from |-> from, on |-> on, sends |-> sends, to |-> to]

MasterMoves == {
    MasterMove("Idle", "AvailabilityModeCommand", <<>>, "SentAvailableModeCommand"),
    MasterMove("Idle", "ThroughputModeCommand", <<>>, "SentThroughputModeCommand"),
    MasterMove("Idle", "RemoteAck", <<"MasterAck">>, "Idle"),
    MasterMove("SentAvailableModeCommand", "Timeout", <<>>, "SentAvailableModeCommand"),
    MasterMove("SentAvailableModeCommand", "RemoteAck", <<>>, "AvailabilityMode"),
    MasterMove("SentThroughputModeCommand", "Timeout", <<>>, "SentThroughputModeCommand"),
    MasterMove("SentThroughputModeCommand", "RemoteAck", <<>>, "ThroughputMode"),
    MasterMove("AvailabilityMode", "EndModeCommand", <<>>, "WaitAckAfterEndMode"),
    MasterMove("AvailabilityMode", "RemoteAck", <<>>, "AvailabilityMode"),
    MasterMove("ThroughputMode", "EndModeCommand", <<>>, "WaitAckAfterEndMode"),
    MasterMove("ThroughputMode", "RemoteAck", <<>>, "ThroughputMode"),
    MasterMove("WaitAckAfterEndMode", "RemoteAck", <<"MasterAck">>, "Idle"),
    MasterMove("WaitAckAfterEndMode", "Timeout", <<>>, "WaitAckAfterEndMode")}

MasterEntryBytes == [s \in MasterStates |->
    CASE s = "Idle"                      -> <<>>
      [] s = "SentAvailableModeCommand"  -> <<"AvailabilityModeCommand">>
      [] s = "SentThroughputModeCommand" -> <<"ThroughputModeCommand">>
      [] s \in MasterActivities          -> <<"MasterAck">>
      [] s = "WaitAckAfterEndMode"       -> <<"EndModeCommand">>]

MasterHandled == [a \in MasterActivities |-> {"RemoteAck", "EndTest", "EndModeCommand"}]

\* The master's activities answer nothing: the echoes only feed statistics.
MasterReplies == [a \in MasterActivities |-> [b \in Bytes |-> <<>>]]

\* The pinger's loop ends once it is asked to stop; the throughput thread
\* ends only when it has its results and has armed its read again.
MasterJoinAt == [a \in MasterActivities |->
    IF a = "AvailabilityMode" THEN {"reading"} ELSE {"done"}]

===============================================================================
