--------------------------- MODULE SessionInvariant ---------------------------
(***************************************************************************)
(* What is under way between the two machines in each phase of a test: the *)
(* inductive invariant behind the session (TestSession).  A byte is under  *)
(* way while it is on the line or in a handler that has not run yet.       *)
(***************************************************************************)
EXTENDS ModemTester

\* Handlers that dispatch or answer the byte they carry.
ByteKinds == {"fsm", "activity"}

Has(s, b) == \E i \in DOMAIN s : s[i] = b
Queued(q, b) == \E i \in DOMAIN q : q[i].kind \in ByteKinds /\ q[i].byte = b
Pending(q, s, b) == Queued(q, b) \/ Has(s, b)

\* Of the control bytes only these are under way to the owner of queue q.
Only(S, q, s) == \A b \in ControlBytes \ S : ~Pending(q, s, b)

\* No b is on the line behind an a ...
LineNever(a, b, s) == \A i, j \in DOMAIN s : i < j /\ s[i] = a => s[j] # b
After(a, b, q, s) == LineNever(a, b, s) /\ (Queued(q, a) => ~Has(s, b))

\* ... nor in the machine's handlers behind an a.
QueueNever(a, b, q) ==
    \A i, j \in DOMAIN q :
        /\ i < j
        /\ q[i].kind \in ByteKinds /\ q[i].byte = a
        /\ q[j].kind = "fsm"
        => q[j].byte # b
Never(a, b, q, s) == QueueNever(a, b, q) /\ After(a, b, q, s)

\* The machine's handlers: the states they are bound to, and those of the
\* current state are the last.
Owners(q, k) == \A i \in DOMAIN q : q[i].kind = "fsm" => q[i].owner \in k
OwnLast(q, st) ==
    \A i, j \in DOMAIN q :
        /\ i < j
        /\ q[i].kind = "fsm" /\ q[i].owner = st
        /\ q[j].kind = "fsm"
        => q[j].owner = st

\* Neither on the line nor behind the results is an acknowledgement.
NoAckBehindResults(q, s) ==
    \A i \in DOMAIN q : q[i].kind = "results" =>
        /\ ~Has(s, "RemoteAck")
        /\ \A j \in DOMAIN q : i < j /\ q[j].kind \in ByteKinds => q[j].byte # "RemoteAck"

-------------------------------------------------------------------------------
\* The thread of the throughput test waits for at most one answer, and works
\* only while the master is in that mode.
ResultsIn(q) == {i \in DOMAIN q : q[i].kind = "results"}
AtMostOne(S) == \A i, j \in S : i = j
TestThread ==
    /\ mActivity \in {"flooded", "waiting", "ready", "done"} => mState = "ThroughputMode"
    /\ ResultsIn(mReads) \cup ResultsIn(mReady) # {} => mActivity = "waiting"
    /\ AtMostOne(ResultsIn(mReads)) /\ AtMostOne(ResultsIn(mReady))
    /\ ResultsIn(mReads) = {} \/ ResultsIn(mReady) = {}

\* It ends the mode once.
EndsOnce == mDispatchers \in {0, 1} /\ (mDispatchers = 1 => mActivity = "done")

-------------------------------------------------------------------------------
Ends(m, r) == mState = m /\ rState = r
ToRemote(S) == Only(S, rReady, toRemote)
ToMaster(S) == Only(S, mReady, toMaster)

Asks(t) == IF t = "Availability" THEN "AvailabilityModeCommand" ELSE "ThroughputModeCommand"

\* Between two tests there may be acknowledgements and the end of the last one.
Rests(r) ==
    Ends("Idle", r) /\ ToRemote({"MasterAck", "EndModeCommand"}) /\ ToMaster({"RemoteAck"})

\* The master asks, and the remote has nothing else to hear of.
Asked(t) ==
    /\ Ends(TS!Asking(t), "RemoteIdle")
    /\ ToRemote({Asks(t)}) /\ ToMaster({})
    /\ Owners(rReady, {"RemoteIdle"})

\* The remote accepts: what results of the last test were late come before.
AcceptedTest(t) ==
    /\ Ends(TS!Asking(t), TS!Accepted(t))
    /\ ToRemote({Asks(t)}) /\ ToMaster({"RemoteAck"})
    /\ Owners(rReady, {"RemoteIdle", TS!Accepted(t)}) /\ OwnLast(rReady, rState)
    /\ After("RemoteAck", "Result", mReady, toMaster)

\* The master begins: it does not ask again once it has acknowledged.
Begun(t) ==
    /\ Ends(TS!Mode(t), TS!Accepted(t))
    /\ ToRemote({Asks(t), "MasterAck"}) /\ ToMaster({"RemoteAck"})
    /\ Owners(rReady, {"RemoteIdle", TS!Accepted(t)}) /\ OwnLast(rReady, rState)
    /\ Never("MasterAck", Asks(t), rReady, toRemote)
    /\ ~Has(toMaster, "Result") /\ ResultsIn(mReady) = {}
    /\ mActivity \notin {"ready", "done"}

\* Both are in the mode: no acknowledgement comes after the results.
Serves(t) ==
    /\ rState = TS!Serving(t)
    /\ Owners(rReady, {"RemoteIdle", TS!Accepted(t), TS!Serving(t)}) /\ OwnLast(rReady, rState)
Running(t) ==
    /\ mState = TS!Mode(t) /\ Serves(t)
    /\ ToRemote({"MasterAck"}) /\ ToMaster({"RemoteAck"})
    /\ LineNever("Result", "RemoteAck", toMaster)
    /\ NoAckBehindResults(mReady, toMaster)
    /\ mActivity \in {"ready", "done"} => ToMaster({})

\* The master ends it: no acknowledgement follows the end of the test.
Ending(t) ==
    /\ mState = "WaitAckAfterEndMode" /\ Serves(t)
    /\ ToRemote({"MasterAck", "EndModeCommand"}) /\ ToMaster({})
    /\ Never("EndModeCommand", "MasterAck", rReady, toRemote)
Ended ==
    /\ Ends("WaitAckAfterEndMode", "EndModeReceived")
    /\ ToRemote({"EndModeCommand"}) /\ ToMaster({"RemoteAck"})

\* The user has ended the whole test.
Over == mState = "Exited" /\ ToRemote({"EndTest"})

Phase ==
    \/ Rests("RemoteIdle") \/ Rests("EndModeReceived") \/ Ended \/ Over
    \/ \E t \in TS!Tests : \/ Asked(t) \/ AcceptedTest(t) \/ Begun(t)
                           \/ Running(t) \/ Ending(t)

\* In every state of the system, until a handler of a deleted activity runs,
\* the bytes under way are ones that take the two machines no other way.
UnderWay == TestThread /\ (undefined \/ (EndsOnce /\ Phase))

-------------------------------------------------------------------------------
(***************************************************************************)
(* Why a handshake step keeps its timer.  The handler of an older timer is *)
(* dispatched to whatever state the machine is in by then, and deletes the *)
(* timer of a state object that is its own; none of them is left when the  *)
(* machine comes to a step that waits for the peer.                        *)
(***************************************************************************)
TimerKinds == {"expired", "aborted"}
NoTimers(q) == \A i \in DOMAIN q : q[i].kind \notin TimerKinds

\* The state's timer runs, or has expired and its handler alone is queued.
OneTimer(q, t, st) ==
    /\ t # "none"
    /\ \A i \in DOMAIN q : q[i].kind \in TimerKinds =>
          /\ t = "expired"
          /\ q[i].kind = "expired" /\ q[i].owner = st
          /\ \A j \in DOMAIN q : q[j].kind \in TimerKinds => i = j

\* The master's: no timer runs in a mode, and the throughput thread has its
\* results only after every handler that was queued before them.
MasterTimed == mState \in M!MasterTimers => OneTimer(mReady, mTimer, mState)
DoneLast ==
    /\ mActivity \in {"ready", "done"} => NoTimers(mReady)
    /\ \A i, j \in DOMAIN mReady :
          mReady[i].kind = "results" /\ i < j => mReady[j].kind \notin TimerKinds

\* No test is asked for or ended but by the user and that thread.
Unasked ==
    /\ \A b \in UserCommands : ~Has(toMaster, b) /\ \A i \in DOMAIN mReady : mReady[i].byte # b
    /\ mDispatchers > 0 => mState \in {"ThroughputMode", "WaitAckAfterEndMode", "Idle", "Exited"}
MasterRetries == MasterTimed /\ DoneLast /\ Unasked

\* The remote's: while a test is asked for, it has no timer but the one of the
\* state in which it accepts that test.
Open(t) ==
    /\ rState \in {"RemoteIdle", TS!Accepted(t), "Exited"}
    /\ rState = "RemoteIdle" => NoTimers(rReady) /\ Owners(rReady, {"RemoteIdle"})
    /\ rState = TS!Accepted(t) =>
          Owners(rReady, {"RemoteIdle", TS!Accepted(t)}) /\ OwnLast(rReady, rState)
    /\ Never("MasterAck", Asks(t), rReady, toRemote)
    /\ \A u \in TS!Tests : Pending(rReady, toRemote, Asks(u)) => u = t
RemoteRetries ==
    \A t \in TS!Tests :
        /\ mState = TS!Asking(t) => Open(t) /\ ~Pending(rReady, toRemote, "MasterAck")
        /\ Pending(rReady, toRemote, Asks(t)) => Open(t)
        /\ rState = TS!Accepted(t) => OneTimer(rReady, rTimer, rState)

\* Also after a handler of a deleted activity has run.
OwnTimers == MasterRetries /\ RemoteRetries

===============================================================================
