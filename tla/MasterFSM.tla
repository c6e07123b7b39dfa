------------------------------ MODULE MasterFSM ------------------------------
(***************************************************************************)
(* The master's process: its state machine, and what the threads of its    *)
(* two activities do besides reading.  The throughput thread asks the      *)
(* remote for its results, waits for them, and then has another thread     *)
(* dispatch EndModeCommand.                                                *)
(***************************************************************************)
EXTENDS MasterTable, Naturals

CONSTANT Capacity  \* see BaseFSM

VARIABLES state, timer, reads, ready, activity, rx, tx,
          dispatchers  \* threads about to dispatch EndModeCommand

FSM == INSTANCE BaseFSM WITH
    States <- MasterStates, Starts <- {"Idle"}, TimerStates <- MasterTimers,
    ActivityStates <- MasterActivities, Moves <- MasterMoves,
    EntryBytes <- MasterEntryBytes, Handled <- MasterHandled,
    Replies <- MasterReplies, JoinAt <- MasterJoinAt

vars == <<state, timer, reads, ready, activity, rx, tx, dispatchers>>

MaxDispatchers == 2

Init == FSM!Init /\ dispatchers = 0

\* The io thread is in exit(), which has asked the activity's thread to stop.
Joining == ready # <<>> /\ FSM!MovesOn(Head(ready).byte) # {}

\* One turn of the pinger's loop.
PingerSend ==
    /\ state = "AvailabilityMode"
    /\ activity = "reading"
    /\ tx' = Append(tx, "Data")
    /\ UNCHANGED <<state, timer, reads, ready, activity, rx, dispatchers>>

\* The ten blocks of data, as one; none if a thread that is in exit() has asked
\* this one to stop before.
Flood ==
    /\ state = "ThroughputMode"
    /\ activity = "reading"
    /\ activity' = "flooded"
    /\ tx' = Append(tx, "Data") \/ UNCHANGED tx
    /\ UNCHANGED <<state, timer, reads, ready, rx, dispatchers>>

\* getResults() before its loop, with or without a stop request.
GetResults ==
    /\ activity = "flooded"
    /\ activity' = "waiting"
    /\ reads' = <<FSM!Read("results", state)>>
    /\ tx' = Append(tx, "EndData")
    /\ UNCHANGED <<state, timer, ready, rx, dispatchers>>

\* The read of eight bytes.  Stray bytes before the answer take places in the
\* block, and as many bytes of the answer are left in the stream.
ResultsArrive ==
    /\ reads # <<>>
    /\ Head(reads).kind = "results"
    /\ \E n \in DOMAIN rx :
          /\ rx[n] = "Result"
          /\ \A i \in 1..(n - 1) : rx[i] # "Result"
          /\ rx' = [i \in 1..(n - 1) |-> "Data"] \o SubSeq(rx, n + 1, Len(rx))
    /\ reads' = Tail(reads)
    /\ ready' = Append(ready, FSM!Handler("results", state, "Result"))
    /\ UNCHANGED <<state, timer, activity, tx, dispatchers>>

\* receiveResults() on the io thread.
ReceiveResults ==
    /\ FSM!Runs("results")
    /\ activity' = "ready"
    /\ ready' = Tail(ready)
    /\ UNCHANGED <<state, timer, reads, rx, tx, dispatchers>>

\* timeoutReceiveResults() on the io thread, unless a join blocks it.
TimeoutReceiveResults ==
    /\ activity = "waiting"
    /\ ~Joining
    /\ tx' = Append(tx, "EndData")
    /\ UNCHANGED <<state, timer, reads, ready, activity, rx, dispatchers>>

\* Faulty: the thread that dispatches EndModeCommand does so again.
DispatchEndAgain ==
    /\ dispatchers > 0
    /\ FSM!Command("EndModeCommand")
    /\ UNCHANGED dispatchers

\* The waiting loop ends: read again, report, and post EndModeCommand.
ThroughputEnds ==
    /\ activity = "ready"
    /\ dispatchers < MaxDispatchers
    /\ activity' = "done"
    /\ reads' = Append(reads, FSM!Read("activity", state))
    /\ dispatchers' = dispatchers + 1
    /\ UNCHANGED <<state, timer, ready, rx, tx>>

DispatchEnd ==
    /\ dispatchers > 0
    /\ FSM!Command("EndModeCommand")
    /\ dispatchers' = dispatchers - 1

-------------------------------------------------------------------------------
\* The steps by who takes them: the stream, the io thread, the activity's
\* thread, the timers, another thread.
StreamStep == ResultsArrive \/ (FSM!ReadCompletes /\ UNCHANGED dispatchers)
IoStep == ReceiveResults \/ (FSM!Handle /\ UNCHANGED dispatchers)
ActivityWorks == (FSM!ActivityBegins /\ UNCHANGED dispatchers) \/ Flood \/ GetResults
ActivityStep == ActivityWorks \/ ThroughputEnds
TimerStep == FSM!TimerExpires /\ UNCHANGED dispatchers
Command(event) == FSM!Command(event) /\ UNCHANGED dispatchers

===============================================================================
