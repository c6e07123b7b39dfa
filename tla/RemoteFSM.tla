------------------------------ MODULE RemoteFSM ------------------------------
(***************************************************************************)
(* The remote's process: its state machine.  Its two activities do nothing *)
(* but read, and answer from their read handlers, so BaseFSM says it all.  *)
(* A periodic timer keeps the io_service at work, as in testRemoteFSM.cpp. *)
(***************************************************************************)
EXTENDS RemoteTable, Naturals

CONSTANT Capacity  \* see BaseFSM

VARIABLES state, timer, reads, ready, activity, rx, tx

FSM == INSTANCE BaseFSM WITH
    States <- RemoteStates, Starts <- {"RemoteIdle"}, TimerStates <- RemoteTimers,
    ActivityStates <- RemoteActivities, Moves <- RemoteMoves,
    EntryBytes <- RemoteEntryBytes, Handled <- RemoteHandled,
    Replies <- RemoteReplies, JoinAt <- RemoteJoinAt

vars == <<state, timer, reads, ready, activity, rx, tx>>

Init == FSM!Init

==============================================================================
