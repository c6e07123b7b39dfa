----------------------------- MODULE PooledTester -----------------------------
(***************************************************************************)
(* The whole test program: the two machines of ModemTester, where the      *)
(* commands of the script and the throughput thread's EndModeCommand are   *)
(* dispatched by threads of the RunnablePool.  The script's timers run on  *)
(* the io thread, which waits for the pool's mutex like everybody else.    *)
(***************************************************************************)
EXTENDS ModemTester

CONSTANT Interrupts  \* TRUE: the script goes on while a throughput test still runs

ASSUME ScriptAssumption == Interrupts \in BOOLEAN

VARIABLES
    collecting, vector, runnables,  \* see RunnablePool
    adding                          \* the event the io thread is adding, or "none"

Pool == INSTANCE RunnablePool

poolVars == <<collecting, vector, runnables>>
testerVars == <<vars, poolVars, adding>>

TesterInit == Init /\ Pool!Init /\ adding = "none"

\* The thread of a runnable is in exit(), joining an activity that still works.
Blocked(r) ==
    /\ mState \in M!MasterActivities
    /\ mActivity \notin M!MasterJoinAt[mState]
    /\ M!FSM!MovesOn(runnables[r].event) # {}

\* Threads that can go on are faster than the timers.
Calm == Timely => adding = "none" /\ \A r \in Pool!Running : Blocked(r)

-------------------------------------------------------------------------------
\* What the pool has no part in ...
Apart(step) == step /\ UNCHANGED <<poolVars, adding>>

MasterWorks == Apart(Master(M!ActivityWorks))
MasterTimeout == Calm /\ Apart(MasterTimer)
RemoteTimeout == Calm /\ Apart(RemoteTimer)
RemoteSide == Apart(RemoteStream \/ RemoteIo \/ RemoteActivity)
LineSide == Apart(MasterStream)

\* ... the io thread, unless it waits for the mutex ...
IoHandles == adding = "none" /\ Apart(MasterIo)
IoResults == adding = "none" /\ Calm /\ Apart(ResultsTimer)

\* ... a timer of the script, whose handler adds a runnable on the io thread ...
ScriptFires ==
    /\ adding = "none"
    /\ commands < MaxCommands
    /\ Settled
    /\ Pool!Running = {}
    /\ mState = "ThroughputMode" => Interrupts
    /\ adding' \in Commands
    /\ commands' = commands + 1
    /\ UNCHANGED <<masterVars, remoteVars, toMaster, toRemote, losses, undefined, poolVars>>

ScriptAdds ==
    /\ adding # "none"
    /\ Pool!AddAndStart(adding, "script")
    /\ adding' = "none"
    /\ UNCHANGED vars

\* ... the throughput thread, which adds one before it ends ...
Post ==
    /\ Master(M!ThroughputEnds)
    /\ Pool!AddAndStart("EndModeCommand", "activity")
    /\ UNCHANGED adding

\* ... the threads of the runnables, and the pool's own.
Dispatches(r) ==
    /\ Pool!End(r)
    /\ Master(IF runnables[r].by = "activity" THEN M!DispatchEnd ELSE M!Command(runnables[r].event))
    /\ UNCHANGED adding

Collector == mState # "Exited" /\ Pool!Round /\ UNCHANGED <<vars, adding>>

RunnableDispatches == \E r \in DOMAIN runnables : Dispatches(r)

TesterNext ==
    \/ MasterWorks \/ MasterTimeout \/ RemoteTimeout \/ RemoteSide \/ LineSide
    \/ IoHandles \/ IoResults
    \/ ScriptFires \/ ScriptAdds
    \/ Post \/ RunnableDispatches \/ Collector
    \/ Apart(Ping)

\* As in ModemTester.  A runnable's thread goes on when it can, and so does the
\* pool's.  Whoever waits for the mutex gets it in the end: the pool's thread
\* sleeps a second before it takes it again.
TesterFairness ==
    /\ WF_testerVars(MasterWorks) /\ WF_testerVars(LineSide) /\ WF_testerVars(RemoteSide)
    /\ WF_testerVars(IoHandles) /\ WF_testerVars(RunnableDispatches) /\ WF_testerVars(Collector)
    /\ SF_testerVars(ScriptAdds) /\ SF_testerVars(Post)
    /\ SF_testerVars(MasterTimeout) /\ SF_testerVars(RemoteTimeout) /\ SF_testerVars(IoResults)

TesterSpec == TesterInit /\ [][TesterNext]_testerVars /\ TesterFairness

-------------------------------------------------------------------------------
\* The pool keeps account of every thread it started (RunnablePool), whoever
\* added it.
NothingLeaks == Pool!NothingLeaks

\* Every event handed to the pool is dispatched, and its runnable is collected
\* after that (RunnablePool.cpp, addAndStartRunnable and operator()): neither
\* waiting for the mutex nor joining under it loses or blocks one for good.
Stage(r, stage) == r \in DOMAIN runnables /\ runnables[r].stage = stage
DispatchedThenCollected ==
    \A r \in 1..(2 * MaxCommands) :
        Stage(r, "running") ~>
            (Stage(r, "ended") /\ <>Stage(r, "deleted")) \/ mState = "Exited"

\* "Garbage collect not running Runnables every second" (RunnablePool.cpp:53):
\* the pool's thread is never kept from its next round for good.
CollectsEverySecond == []<>(~collecting \/ mState = "Exited")

===============================================================================
