----------------------------- MODULE ModemTester -----------------------------
(***************************************************************************)
(* The master and the remote at the two ends of a serial line, which keeps *)
(* the order of bytes and may lose some of them, and the user (a script of *)
(* timed commands in the tests) who drives the master.                     *)
(***************************************************************************)
EXTENDS Events, Naturals, Sequences

CONSTANTS
    Capacity,     \* bytes on the line above which nothing new is put on it
    MaxLoss,      \* how many bytes the line loses
    Commands,     \* what the user may ask for
    MaxCommands,  \* how often
    Timely        \* TRUE: the line and the processes are faster than the timers

ASSUME SystemAssumption ==
    /\ {Capacity, MaxLoss, MaxCommands} \subseteq Nat
    /\ Commands \subseteq UserCommands \cup {"EndTest"}
    /\ Timely \in BOOLEAN

VARIABLES
    mState, mTimer, mReads, mReady, mActivity, mDispatchers,
    rState, rTimer, rReads, rReady, rActivity,
    toMaster, toRemote,  \* the two directions of the line
    losses,              \* bytes lost so far
    commands,            \* commands given so far
    undefined            \* history: a handler of a deleted activity has run

M == INSTANCE MasterFSM WITH
    state <- mState, timer <- mTimer, reads <- mReads, ready <- mReady,
    activity <- mActivity, dispatchers <- mDispatchers, rx <- toMaster, tx <- toRemote
R == INSTANCE RemoteFSM WITH
    state <- rState, timer <- rTimer, reads <- rReads, ready <- rReady,
    activity <- rActivity, rx <- toRemote, tx <- toMaster

masterVars == <<mState, mTimer, mReads, mReady, mActivity, mDispatchers>>
remoteVars == <<rState, rTimer, rReads, rReady, rActivity>>
budgets == <<losses, commands>>
vars == <<masterVars, remoteVars, toMaster, toRemote, budgets, undefined>>

Init ==
    /\ M!Init
    /\ R!Init
    /\ losses = 0
    /\ commands = 0
    /\ undefined = FALSE

-------------------------------------------------------------------------------
Elements(s) == {s[i] : i \in DOMAIN s}

\* Bytes on the line and handlers that wait.
InFlight == Len(toMaster) + Len(toRemote) + Len(mReady) + Len(rReady)

\* Nothing but a timer moves the system: every byte is read or has no reader,
\* every handler has run, every thread waits or has ended.
Quiet ==
    /\ mReady = <<>> /\ rReady = <<>>
    /\ toMaster # <<>> /\ mReads # <<>> =>
          Head(mReads).kind = "results" /\ "Result" \notin Elements(toMaster)
    /\ toRemote = <<>> \/ rReads = <<>>
    /\ mActivity \in {"none", "reading", "waiting", "done"}
    /\ mActivity = "reading" => mState = "AvailabilityMode"
    /\ rActivity \in {"none", "reading"}
    /\ mDispatchers = 0

\* A timer may expire.  Early, while the peer's answer is under way, unless
\* the line is full; or when nothing else moves, unless the bytes the process
\* wrote before are piling up unread.
Due(written) ==
    \/ ~Timely /\ InFlight < Capacity
    \/ Quiet /\ Len(written) <= Capacity

\* Both ends are in the same mode and no event is on its way to either.
Settled ==
    /\ <<mState, rState>> \in {<<"Idle", "RemoteIdle">>,
                               <<"AvailabilityMode", "RemoteAvailabilityMode">>,
                               <<"ThroughputMode", "RemoteThroughputMode">>}
    /\ (Elements(toMaster) \cup Elements(toRemote)) \cap ControlBytes = {}
    /\ mReady = <<>> /\ rReady = <<>>
    /\ mDispatchers = 0

-------------------------------------------------------------------------------
\* Each process by itself ...
Master(step) == step /\ UNCHANGED <<remoteVars, budgets, undefined>>
Remote(step) == step /\ UNCHANGED <<masterVars, budgets, undefined>>

MasterStream == Master(M!StreamStep)
MasterIo ==
    /\ M!IoStep
    /\ undefined' = (undefined \/ M!FSM!Runs("dangling"))
    /\ UNCHANGED <<remoteVars, budgets>>
MasterActivity == Master(M!ActivityStep)
MasterEnds == Master(M!DispatchEnd)
MasterTimer == Due(toRemote) /\ Master(M!TimerStep)
ResultsTimer == Due(toRemote) /\ Master(M!TimeoutReceiveResults)
Ping == InFlight + 1 < Capacity /\ Master(M!PingerSend)

RemoteStream == Remote(R!FSM!ReadCompletes)
RemoteIo ==
    /\ R!FSM!Handle
    /\ undefined' = (undefined \/ R!FSM!Runs("dangling"))
    /\ UNCHANGED <<masterVars, budgets>>
RemoteActivity == Remote(R!FSM!ActivityBegins)
RemoteTimer == Due(toMaster) /\ Remote(R!FSM!TimerExpires)

\* ... the line, which loses a byte ...
Lose ==
    /\ losses < MaxLoss
    /\ losses' = losses + 1
    /\ \/ toMaster # <<>> /\ toMaster' = Tail(toMaster) /\ UNCHANGED toRemote
       \/ toRemote # <<>> /\ toRemote' = Tail(toRemote) /\ UNCHANGED toMaster
    /\ UNCHANGED <<masterVars, remoteVars, commands, undefined>>

\* ... and the user, who gives the next command when the last one is over.
User ==
    /\ commands < MaxCommands
    /\ Settled
    /\ \E c \in Commands : M!Command(c)
    /\ commands' = commands + 1
    /\ UNCHANGED <<remoteVars, losses, undefined>>

Next ==
    \/ MasterStream \/ MasterIo \/ MasterActivity \/ MasterEnds
    \/ MasterTimer \/ ResultsTimer \/ Ping
    \/ RemoteStream \/ RemoteIo \/ RemoteActivity \/ RemoteTimer
    \/ Lose \/ User

Spec == Init /\ [][Next]_vars

\* Threads run, bytes that are not lost arrive, and an armed timer expires
\* even if the line is now and then full.  No fairness for the user, the
\* losses and the pings.
Fairness ==
    /\ WF_vars(MasterStream) /\ WF_vars(MasterIo)
    /\ WF_vars(MasterActivity) /\ WF_vars(MasterEnds)
    /\ WF_vars(RemoteStream) /\ WF_vars(RemoteIo) /\ WF_vars(RemoteActivity)
    /\ SF_vars(MasterTimer) /\ SF_vars(ResultsTimer) /\ SF_vars(RemoteTimer)

FairSpec == Spec /\ Fairness

-------------------------------------------------------------------------------
\* Types, and what BaseFSM's TypeOK says of each machine.
TypeOK ==
    /\ M!FSM!TypeOK
    /\ R!FSM!TypeOK
    /\ mDispatchers \in 0..M!MaxDispatchers
    /\ losses \in 0..MaxLoss
    /\ commands \in 0..MaxCommands
    /\ undefined \in BOOLEAN

\* The two machines together carry out one test after another (TestSession),
\* whatever the line loses and however early the timers expire.  Once a
\* handler of a deleted activity has run nothing is promised.
Gone(state) == undefined \/ state = "Exited"
TS == INSTANCE TestSession WITH
    master <- IF Gone(mState) THEN "Gone" ELSE mState,
    remote <- IF Gone(rState) THEN "Gone" ELSE rState
Session == TS!Spec

\* A handshake step that waits for the peer's answer still has a timer that
\* will repeat it: no handler of an older timer has deleted it (BaseFSM.h,
\* dispatchTimeout).  EndModeReceived is left out: it can lose its timer.
RetryPending ==
    /\ mState \in M!MasterTimers => mTimer # "none"
    /\ rState \in R!RemoteTimers \ {"EndModeReceived"} => rTimer # "none"

\* An EndModeCommand that the throughput thread has posted (MasterThroughput.cpp,
\* operator()) is dispatched before the machine leaves the mode it is to end.
EndIsCurrent == mDispatchers > 0 => mState = "ThroughputMode" \/ Gone(mState)

\* The availability test begins: a command the user gave while both ends were
\* idle takes both into the mode, though bytes are lost and acknowledgements
\* come late (the retries of SentAvailableModeCommand and of
\* AvailabilityCommandReceived).
AvailabilityBegins ==
    mState = "SentAvailableModeCommand" ~>
        \/ mState = "AvailabilityMode" /\ rState = "RemoteAvailabilityMode"
        \/ undefined

\* ... and ends: both ends come back to their idle states (the retries of
\* WaitAckAfterEndMode and of EndModeReceived).
AvailabilityEnds ==
    mState = "WaitAckAfterEndMode" ~> (mState = "Idle" /\ rState = "RemoteIdle") \/ undefined

\* A throughput test runs by itself: the results are asked for and received,
\* and the thread that waited for them ends the mode on both ends.
ThroughputCompletes ==
    mState = "SentThroughputModeCommand" ~>
        (mState = "Idle" /\ rState = "RemoteIdle") \/ undefined

\* "Ignore all other events" (RemoteFSM.cpp:71): an ignored event leaves the
\* remote as ready for the next command as it was.
IdleListens == rState = "RemoteIdle" /\ rReady = <<>> => rReads # <<>>

\* "If remote ack arrives late" (MasterThroughput.cpp:157) it is dispatched.
LateAckQueued ==
    /\ mState = "ThroughputMode"
    /\ \E i \in DOMAIN mReady : mReady[i].kind = "activity" /\ mReady[i].byte = "RemoteAck"
LateAckDispatched == LateAckQueued ~> ~LateAckQueued

===============================================================================
