----------------------------- MODULE EventsScript -----------------------------
(***************************************************************************)
(* The test script (EventsScript.h): a map from dates to events.           *)
(* startScript() arms a timer for each; its handler, on the io thread,     *)
(* gives the event to a DispatchingRunnable of its own.  In a cyclic       *)
(* script the last event stands for starting over.                         *)
(***************************************************************************)
EXTENDS Events, Naturals, Sequences

CONSTANTS
    Script,  \* the events, in the order of their dates
    Cyclic   \* whether the script is cyclic

VARIABLES
    armed,  \* the entries whose timer runs, by date
    due,    \* the entries whose timer has expired and whose handler has not run
    posted  \* history: the entries given to a runnable since startScript()

vars == <<armed, due, posted>>

Entries == 1..Len(Script)
InOrder(n) == [i \in 1..n |-> i]

\* Faulty: the first entry stands for starting over.
RestartsAtFirst(k) == Cyclic /\ k = 1

Restarts(k) == Cyclic /\ k = Len(Script)

\* Faulty: the entries are counted from zero.
StartFromZero == armed' = [i \in Entries |-> i - 1] /\ posted' = <<>>

\* startScript(): new timers for all entries.  stopScript() before that deletes
\* the old ones, but a handler that is queued already stays in the queue.
StartScript == armed' = InOrder(Len(Script)) /\ posted' = <<>>

Init == armed = InOrder(Len(Script)) /\ due = <<>> /\ posted = <<>>

\* The service queues the handlers of expired timers by date.
TimerExpires ==
    /\ armed # <<>>
    /\ due' = Append(due, Head(armed))
    /\ armed' = Tail(armed)
    /\ UNCHANGED posted

\* handleTimer(); the event to post is Script[Head(due)].
HandleTimer ==
    /\ due # <<>>
    /\ ~Restarts(Head(due))
    /\ posted' = Append(posted, Head(due))
    /\ due' = Tail(due)
    /\ UNCHANGED armed

RestartScript ==
    /\ due # <<>>
    /\ Restarts(Head(due))
    /\ due' = Tail(due)
    /\ StartScript

Next == TimerExpires \/ HandleTimer \/ RestartScript

Spec == Init /\ [][Next]_vars

-------------------------------------------------------------------------------
TypeOK == {armed, due, posted} \subseteq Seq(Entries)

\* When the script starts over, every event but the last has been posted once
\* and in order, and no handler of the round is left in the queue for
\* stopScript() to miss, however late the io thread is (EventsScript.h:119-127,
\* 139-148, 160-168).
RoundComplete ==
    due # <<>> /\ Restarts(Head(due)) =>
        posted = InOrder(Len(Script) - 1) /\ armed = <<>> /\ Tail(due) = <<>>

===============================================================================
