----------------------------- MODULE RemoteTable -----------------------------
(***************************************************************************)
(* The remote's state machine (RemoteFSM.cpp) and the read handlers of its *)
(* two activities (RemotePinger.cpp, RemoteThroughput.cpp) as tables.      *)
(***************************************************************************)
EXTENDS Events, Sequences

RemoteActivities == {"RemoteAvailabilityMode", "RemoteThroughputMode"}

RemoteTimers ==
    {"AvailabilityCommandReceived", "ThroughputCommandReceived", "EndModeReceived"}

RemoteStates == {"RemoteIdle"} \cup RemoteTimers \cup RemoteActivities

\* Faulty: a timeout gives up instead of trying again.
RemoteMoveGivesUp(from, on, to) ==
    [from |-> from, on |-> on, sends |-> <<>>, to |-> IF on = "Timeout" THEN "RemoteIdle" ELSE to]

\* No case of the remote's react() sends anything itself: entry() does.
RemoteMove(from, on, to) == [from |-> from, on |-> on, sends |-> <<>>, to |-> to]

RemoteMoves == {
    RemoteMove("RemoteIdle", "AvailabilityModeCommand", "AvailabilityCommandReceived"),
    RemoteMove("RemoteIdle", "ThroughputModeCommand", "ThroughputCommandReceived"),
    RemoteMove("AvailabilityCommandReceived", "MasterAck", "RemoteAvailabilityMode"),
    RemoteMove("AvailabilityCommandReceived", "Timeout", "AvailabilityCommandReceived"),
    RemoteMove("ThroughputCommandReceived", "MasterAck", "RemoteThroughputMode"),
    RemoteMove("ThroughputCommandReceived", "Timeout", "ThroughputCommandReceived"),
    RemoteMove("RemoteAvailabilityMode", "EndModeCommand", "EndModeReceived"),
    RemoteMove("RemoteAvailabilityMode", "MasterAck", "RemoteAvailabilityMode"),
    RemoteMove("RemoteThroughputMode", "EndModeCommand", "EndModeReceived"),
    RemoteMove("RemoteThroughputMode", "MasterAck", "RemoteThroughputMode"),
    RemoteMove("EndModeReceived", "EndModeCommand", "EndModeReceived"),
    RemoteMove("EndModeReceived", "Timeout", "EndModeReceived"),
    RemoteMove("EndModeReceived", "MasterAck", "RemoteIdle")}

RemoteEntryBytes == [s \in RemoteStates |-> IF s \in RemoteTimers THEN <<"RemoteAck">> ELSE <<>>]

RemoteHandled == [a \in RemoteActivities |-> {"EndModeCommand", "EndTest"}]

\* The pinger sends every standard code back, 240 included; the throughput
\* activity answers 240 with its results.
RemoteReplies == [a \in RemoteActivities |-> [b \in Bytes |->
    IF a = "RemoteAvailabilityMode" /\ b \in {"Data", "EndData"} THEN <<b>>
    ELSE IF a = "RemoteThroughputMode" /\ b = "EndData" THEN <<"Result">>
    ELSE <<>>]]

\* Both threads end as soon as they have armed the read.
RemoteJoinAt == [a \in RemoteActivities |-> {"reading"}]

===============================================================================
