----------------------------- MODULE RunnablePool -----------------------------
(***************************************************************************)
(* The pool of threads that dispatch events (RunnablePool.cpp).  Whoever   *)
(* has an event to dispatch adds a runnable, which starts its thread; the  *)
(* pool's own thread collects the runnables, one round a second.  Both do  *)
(* it under the pool's mutex: an addition in one step, a round of the      *)
(* collector in many, since it joins the thread of each runnable in turn.  *)
(***************************************************************************)
EXTENDS Events, Naturals, Sequences

VARIABLES
    collecting,  \* the pool's thread is in its round, and holds the mutex
    vector,      \* the runnables still to collect
    runnables    \* every runnable ever added: [event, by, stage]

vars == <<collecting, vector, runnables>>

Adders == {"script", "activity"}

Runnable(event, by) == [event |-> event, by |-> by, stage |-> "running"]

Init ==
    /\ collecting = FALSE
    /\ vector = <<>>
    /\ runnables = <<>>

\* Faulty: starts the thread of a runnable it does not keep.
AddAndForget(event, by) ==
    /\ ~collecting
    /\ runnables' = Append(runnables, Runnable(event, by))
    /\ UNCHANGED <<collecting, vector>>

\* Waits for the mutex, then keeps the runnable and starts its thread.
AddAndStart(event, by) ==
    /\ ~collecting
    /\ runnables' = Append(runnables, Runnable(event, by))
    /\ vector' = Append(vector, Len(runnables) + 1)
    /\ UNCHANGED collecting

Running == {r \in DOMAIN runnables : runnables[r].stage = "running"}

\* The thread of a runnable ends, its event being dispatched.
End(r) ==
    /\ r \in Running
    /\ runnables' = [runnables EXCEPT ![r].stage = "ended"]
    /\ UNCHANGED <<collecting, vector>>

-------------------------------------------------------------------------------
\* One round of operator().
Collect ==
    /\ ~collecting
    /\ collecting' = TRUE
    /\ UNCHANGED <<vector, runnables>>

\* Faulty: delete without stop() ...
Delete ==
    /\ collecting
    /\ vector # <<>>
    /\ runnables' = [runnables EXCEPT ![Head(vector)].stage = "deleted"]
    /\ vector' = Tail(vector)
    /\ UNCHANGED collecting

\* stop(), which joins the thread whatever it is doing, and delete.
StopAndDelete ==
    /\ collecting
    /\ vector # <<>>
    /\ runnables[Head(vector)].stage = "ended"
    /\ runnables' = [runnables EXCEPT ![Head(vector)].stage = "deleted"]
    /\ vector' = Tail(vector)
    /\ UNCHANGED collecting

Sleep ==
    /\ collecting
    /\ vector = <<>>
    /\ collecting' = FALSE
    /\ UNCHANGED <<vector, runnables>>

Round == Collect \/ StopAndDelete \/ Sleep

\* The pool by itself: whoever adds whatever, and whenever it ends.
Next ==
    \/ \E event \in Events, by \in Adders : AddAndStart(event, by)
    \/ \E r \in DOMAIN runnables : End(r)
    \/ Round

Spec == Init /\ [][Next]_vars

-------------------------------------------------------------------------------
TypeOK ==
    /\ collecting \in BOOLEAN
    /\ vector \in Seq(Nat)
    /\ runnables \in Seq([event : Events, by : Adders, stage : {"running", "ended", "deleted"}])

\* The vector holds exactly the runnables that are not deleted, each once, in
\* the order they were added: no thread is left behind and none is joined or
\* deleted twice, though the collector erases what it deleted while others wait
\* to add (addAndStartRunnable and operator()).
NothingLeaks ==
    /\ {r \in DOMAIN runnables : runnables[r].stage # "deleted"} = {vector[i] : i \in DOMAIN vector}
    /\ \A i, j \in DOMAIN vector : i < j => vector[i] < vector[j]

===============================================================================
