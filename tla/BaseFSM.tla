------------------------------- MODULE BaseFSM -------------------------------
(***************************************************************************)
(* The run-time of one state machine: BaseFSM, TimerBasedState and         *)
(* ActivityState of BaseFSM.h over tinyfsm and boost::asio.  The machine's *)
(* states and transitions are constants, given by MasterTable and          *)
(* RemoteTable.  One io thread runs completion handlers in the order they  *)
(* were queued; an activity thread lives while the machine is in one of    *)
(* its activity states; other threads dispatch the user's commands.        *)
(*                                                                         *)
(* A dispatch (exit of the old state, entry of the new one) is one step.   *)
(* The only blocking call in it is the join of the activity's thread: the  *)
(* step waits until that thread is done.                                   *)
(***************************************************************************)
EXTENDS Events, Naturals, Sequences

CONSTANTS
    States,          \* the classes of the state machine
    Starts,          \* the states tinyfsm's start() may set: one per machine
    TimerStates,     \* the states derived from TimerBasedState
    ActivityStates,  \* the states derived from ActivityState
    Moves,           \* the cases of react(): records [from, on, sends, to]
    EntryBytes,      \* per state, what entry() sends
    Handled,         \* per activity, the bytes its read handler dispatches
    Replies,         \* per activity and byte, what its read handler sends back
    JoinAt,          \* per activity, the stages at which its thread has ended
    Capacity         \* bound on the bytes and handlers pending in the open system

Stages == {"starting", "cancelled", "reading", "flooded", "waiting", "ready", "done"}

ASSUME TableAssumption ==
    /\ Starts \subseteq States \ (ActivityStates \cup TimerStates)
    /\ TimerStates \subseteq States
    /\ ActivityStates \subseteq States
    /\ TimerStates \cap ActivityStates = {}
    /\ Moves \subseteq [from : States, on : Events, sends : Seq(Bytes), to : States]
    /\ EntryBytes \in [States -> Seq(Bytes)]
    /\ Handled \in [ActivityStates -> SUBSET ControlBytes]
    /\ Replies \in [ActivityStates -> [Bytes -> Seq(Bytes)]]
    /\ JoinAt \in [ActivityStates -> SUBSET Stages]
    /\ "Exited" \notin States
    \* What an activity's read handler dispatches moves the machine.
    /\ \A a \in ActivityStates : \A b \in Handled[a] \ {"EndTest"} :
           \E m \in Moves : m.from = a /\ m.on = b

VARIABLES
    state,     \* current_state_ptr, or "Exited" once the process has ended
    timer,     \* _timer of the current state: "none", "armed", "expired"
    reads,     \* the stream's outstanding reads, first come first served
    ready,     \* completed operations whose handler has not run yet
    activity,  \* how far the activity's thread is
    rx,        \* bytes on their way to, or waiting in, this process's stream
    tx         \* bytes this process has written

vars == <<state, timer, reads, ready, activity, rx, tx>>

Read(kind, owner) == [kind |-> kind, owner |-> owner]
Handler(kind, owner, byte) == [kind |-> kind, owner |-> owner, byte |-> byte]

-------------------------------------------------------------------------------
\* Deleting an armed timer queues its handler with operation_aborted.
Cancelled(t, owner) ==
    IF t = "armed" THEN <<Handler("aborted", owner, "Timeout")>> ELSE <<>>

\* The activity is deleted: a read of its that has completed now has a
\* handler bound to freed memory.
Orphan(queue) ==
    [i \in DOMAIN queue |->
        IF queue[i].kind = "activity" THEN [queue[i] EXCEPT !.kind = "dangling"]
                                      ELSE queue[i]]

\* A state object has one receive buffer.  A read that completes overwrites
\* the byte a queued handler of the same object has yet to look at.
Overwrite(queue, owner, byte) ==
    [i \in DOMAIN queue |->
        IF queue[i].kind = "fsm" /\ queue[i].owner = owner
        THEN [queue[i] EXCEPT !.byte = byte] ELSE queue[i]]

\* ::exit(), a crash, or main() returning.
Halt(sent) ==
    /\ state' = "Exited"
    /\ timer' = "none"
    /\ reads' = <<>>
    /\ ready' = <<>>
    /\ activity' = "none"
    /\ tx' = tx \o sent

\* Faulty versions of Transit: exit() forgets the outstanding reads ...
TransitKeepsReads(to, queue, sent, t) ==
    /\ state \in ActivityStates => activity \in JoinAt[state]
    /\ state' = to
    /\ timer' = IF to \in TimerStates THEN "armed" ELSE "none"
    /\ ready' = Orphan(queue) \o Cancelled(t, state)
    /\ tx' = tx \o sent \o EntryBytes[to]
    /\ reads' = Append(reads, Read("fsm", to))
    /\ activity' = IF to \in ActivityStates THEN "cancelled" ELSE "none"

\* ... entry() of the same state again starts no timer (dispatchTimeout()
\* deletes it only after the dispatch) ...
TransitStartsOnce(to, queue, sent, t) ==
    /\ state \in ActivityStates => activity \in JoinAt[state]
    /\ state' = to
    /\ timer' = IF to \in TimerStates \ {state} THEN "armed" ELSE "none"
    /\ ready' = Orphan(queue) \o Cancelled(t, state)
    /\ tx' = tx \o sent \o EntryBytes[to]
    /\ reads' = <<Read("fsm", to)>>
    /\ activity' = IF to \in ActivityStates THEN "starting" ELSE "none"

\* ... or exit() forgets the timer, which startTimer() then finds and does not start again.
TransitKeepsTimer(to, queue, sent, t) ==
    /\ state \in ActivityStates => activity \in JoinAt[state]
    /\ state' = to
    /\ timer' = IF to \in TimerStates /\ t = "none" THEN "armed" ELSE t
    /\ ready' = Orphan(queue)
    /\ tx' = tx \o sent \o EntryBytes[to]
    /\ reads' = <<Read("fsm", to)>>
    /\ activity' = IF to \in ActivityStates THEN "starting" ELSE "none"

\* transit<to>(): exit() of the current state and entry() of the next one.
\* `t' is what is left of the current state's timer, `queue' the handlers
\* still to run.  exit() joins the activity's thread, deletes the activity and
\* cancels every read.  entry() of an activity state starts the new thread
\* before it arms the machine's own read, so that thread may already have
\* cancelled the stream's reads, or even armed its own.
Transit(to, queue, sent, t) ==
    /\ state \in ActivityStates => activity \in JoinAt[state]
    /\ state' = to
    /\ timer' = IF to \in TimerStates THEN "armed" ELSE "none"
    /\ ready' = Orphan(queue) \o Cancelled(t, state)
    /\ tx' = tx \o sent \o EntryBytes[to]
    /\ \/ /\ reads' = <<Read("fsm", to)>>
          /\ activity' \in IF to \in ActivityStates THEN {"starting", "cancelled"}
                                                    ELSE {"none"}
       \/ /\ to \in ActivityStates
          /\ reads' = <<Read("activity", to), Read("fsm", to)>>
          /\ activity' = "reading"

\* The cases of the current state's react() that accept the event.
MovesOn(event) == {m \in Moves : m.from = state /\ m.on = event}

\* dispatch(event): EndTest ends the process; any other event moves the
\* machine, or is logged and forgotten (then no read is armed for it).
Dispatch(event, queue, t) ==
    \/ event = "EndTest" /\ Halt(<<"EndTest">>)
    \/ /\ event # "EndTest"
       /\ \E m \in MovesOn(event) : Transit(m.to, queue, m.sends, t)
    \/ /\ event # "EndTest"
       /\ MovesOn(event) = {}
       /\ ready' = queue
       /\ timer' = t
       /\ UNCHANGED <<state, reads, activity, tx>>

\* The handler at the head of the queue is of this kind.
Runs(kind) == state # "Exited" /\ ready # <<>> /\ Head(ready).kind = kind

-------------------------------------------------------------------------------
Init ==
    /\ state \in Starts
    /\ timer = "none"
    /\ reads = <<Read("fsm", state)>>
    /\ ready = <<>>
    /\ activity = "none"
    /\ rx = <<>>
    /\ tx = <<>>

\* The stream hands the next byte to the oldest outstanding read.
ReadCompletes ==
    /\ reads # <<>>
    /\ rx # <<>>
    /\ Head(reads).kind # "results"
    /\ LET r == Head(reads)
           queue == IF r.kind = "fsm" THEN Overwrite(ready, r.owner, Head(rx)) ELSE ready
       IN ready' = Append(queue, Handler(r.kind, r.owner, Head(rx)))
    /\ reads' = Tail(reads)
    /\ rx' = Tail(rx)
    /\ UNCHANGED <<state, timer, activity, tx>>

\* The machine's own read: control bytes are events, any other byte is logged.
HandleReadEvt ==
    /\ Runs("fsm")
    /\ IF Head(ready).byte \in ControlBytes
       THEN Dispatch(Head(ready).byte, Tail(ready), timer)
       ELSE /\ ready' = Tail(ready)
            /\ UNCHANGED <<state, timer, reads, activity, tx>>
    /\ UNCHANGED rx

\* An activity's read handler: dispatch and return, or answer and read again.
Receive(kind) ==
    LET h == Head(ready) IN
    /\ IF h.byte \in Handled[h.owner]
       THEN Dispatch(h.byte, Tail(ready), timer)
       ELSE /\ tx' = tx \o Replies[h.owner][h.byte]
            /\ reads' = Append(reads, Read(kind, h.owner))
            /\ ready' = Tail(ready)
            /\ UNCHANGED <<state, timer, activity>>
    /\ UNCHANGED rx

HandleReceive == Runs("activity") /\ Receive("activity")

\* The same handler bound to an activity that was deleted meanwhile: it finds
\* its old memory intact, or the process dies.
HandleDangling ==
    /\ Runs("dangling")
    /\ \/ Receive("dangling")
       \/ Halt(<<>>) /\ UNCHANGED rx

TimerExpires ==
    /\ timer = "armed"
    /\ timer' = "expired"
    /\ ready' = Append(ready, Handler("expired", state, "Timeout"))
    /\ UNCHANGED <<state, reads, activity, rx, tx>>

\* dispatchTimeout() first deletes the timer its own state object has by now,
\* which is not always the one it was queued for.
TimerLeft == IF Head(ready).owner = state THEN "none" ELSE timer
QueueLeft ==
    Tail(ready) \o (IF Head(ready).owner = state THEN Cancelled(timer, state) ELSE <<>>)

DispatchTimeout ==
    /\ Runs("expired")
    /\ Dispatch("Timeout", QueueLeft, TimerLeft)
    /\ UNCHANGED rx

DispatchAborted ==
    /\ Runs("aborted")
    /\ timer' = TimerLeft
    /\ ready' = QueueLeft
    /\ UNCHANGED <<state, reads, activity, rx, tx>>

\* operator() of every activity: cancel all reads of the stream ...
ActivityCancel ==
    /\ activity = "starting"
    /\ activity' = "cancelled"
    /\ reads' = <<>>
    /\ UNCHANGED <<state, timer, ready, rx, tx>>

\* Faulty: operator() arms its read first and then cancels all reads.
ActivityReadFirst ==
    /\ activity = "cancelled"
    /\ activity' = "reading"
    /\ reads' = <<>>
    /\ UNCHANGED <<state, timer, ready, rx, tx>>

\* ... and arm its own.
ActivityRead ==
    /\ activity = "cancelled"
    /\ activity' = "reading"
    /\ reads' = Append(reads, Read("activity", state))
    /\ UNCHANGED <<state, timer, ready, rx, tx>>

\* A thread other than the io thread dispatches an event.
Command(event) ==
    /\ state # "Exited"
    /\ Dispatch(event, ready, timer)
    /\ UNCHANGED rx

\* What the io thread does when it takes a handler from the queue.
Handle ==
    \/ HandleReadEvt \/ HandleReceive \/ HandleDangling
    \/ DispatchTimeout \/ DispatchAborted

\* The thread of an activity, up to its first read.
ActivityBegins == ActivityCancel \/ ActivityRead

Step == ReadCompletes \/ Handle \/ ActivityBegins \/ TimerExpires

-------------------------------------------------------------------------------
(***************************************************************************)
(* The open system: a peer that may send any byte at any time and a user   *)
(* that may dispatch any command.                                          *)
(***************************************************************************)
Room == Len(rx) + Len(ready) + Len(reads) < Capacity

\* A write blocks until the line has taken the byte before.
Writable == Len(tx') <= 1

Arrive ==
    /\ Room
    /\ \E b \in Bytes : rx' = Append(rx, b)
    /\ UNCHANGED <<state, timer, reads, ready, activity, tx>>

Transmit ==
    /\ tx # <<>>
    /\ tx' = Tail(tx)
    /\ UNCHANGED <<state, timer, reads, ready, activity, rx>>

Next ==
    \/ Step /\ Writable
    \/ Arrive
    \/ Transmit
    \/ \E c \in UserCommands \cup {"EndTest"} : Room /\ Command(c) /\ Writable

Spec == Init /\ [][Next]_vars

-------------------------------------------------------------------------------
ReadSet ==
    [kind : {"fsm", "results"}, owner : States]
        \cup [kind : {"activity", "dangling"}, owner : ActivityStates]
HandlerSet ==
    [kind : {"fsm", "results"}, owner : States, byte : Bytes]
        \cup [kind : {"activity", "dangling"}, owner : ActivityStates, byte : Bytes]
        \cup [kind : {"expired", "aborted"}, owner : TimerStates, byte : {"Timeout"}]

\* Types, and: an activity exists exactly in the activity states, a timer runs
\* only in the timer states, and what is outstanding or queued names a state of
\* its kind.
TypeOK ==
    /\ state \in States \cup {"Exited"}
    /\ timer \in {"none", "armed", "expired"}
    /\ reads \in Seq(ReadSet)
    /\ ready \in Seq(HandlerSet)
    /\ activity \in Stages \cup {"none"}
    /\ rx \in Seq(Bytes)
    /\ tx \in Seq(Bytes)
    /\ activity = "none" <=> state \notin ActivityStates
    /\ timer # "none" => state \in TimerStates

\* The machine's own read: entry() arms it once and exit() leaves none behind,
\* so there is never a second one, nor one of a state that was left, whichever
\* thread's handlers and commands moved the machine (BaseFSM.h entry, exit).
OwnReadOnce ==
    \A i \in DOMAIN reads : reads[i].kind = "fsm" =>
        /\ reads[i].owner = state
        /\ \A j \in DOMAIN reads : reads[j].kind = "fsm" => i = j

ActivityReads == {i \in DOMAIN reads : reads[i].kind = "activity"}
ActivityHandlers == {i \in DOMAIN ready : ready[i].kind = "activity"}

\* An activity's read loop is never doubled: one read is outstanding or one
\* handler is queued, never both, of the activity that runs now, and none
\* before its thread has armed the first (handleReceive of every activity).
LoopOnce ==
    /\ \A i \in ActivityReads : reads[i].owner = state /\ activity = "reading"
    /\ \A i \in ActivityHandlers : ready[i].owner = state /\ activity = "reading"
    /\ \A i, j \in ActivityReads : i = j
    /\ \A i, j \in ActivityHandlers : i = j
    /\ ActivityReads = {} \/ ActivityHandlers = {}

\* It never dies out either: handleReceive returns without reading again only
\* when what it dispatched has moved the machine out of the activity.
LoopAlive == activity = "reading" => ActivityReads \cup ActivityHandlers # {}

\* A timer that has expired still has its handler queued: the retry it stands
\* for is not lost to the handlers of older timers of the same state object
\* (dispatchTimeout deletes whatever timer it finds).
ExpiryPending ==
    timer = "expired" =>
        \E i \in DOMAIN ready : ready[i].kind = "expired" /\ ready[i].owner = state

===============================================================================
