-------------------------- MODULE PooledTesterProofs --------------------------
(***************************************************************************)
(* The pool inside the test program is the pool: what is proved of it with *)
(* anybody adding anything holds where the script and the throughput       *)
(* thread add to it.                                                       *)
(***************************************************************************)
EXTENDS PooledTester, ModemTesterProofs

PoolProofs == INSTANCE RunnablePoolProofs

\* What the io thread is adding is an event.
AddingTyped == adding \in Commands \cup {"none"}

LEMMA AddingStep == ASSUME AddingTyped, [TesterNext]_testerVars PROVE AddingTyped'
BY DEF AddingTyped, TesterNext, testerVars, MasterWorks, MasterTimeout, RemoteTimeout, RemoteSide,
       LineSide, IoHandles, IoResults, Apart, ScriptFires, ScriptAdds, Post, RunnableDispatches,
       Dispatches, Collector

\* Each step of the program is one of the pool, or leaves it alone.
LEMMA PoolStep ==
    ASSUME AddingTyped, [TesterNext]_testerVars
    PROVE  Pool!Next \/ UNCHANGED poolVars
<1>1. CASE ScriptAdds
  <2>1. adding \in Pool!Events /\ "script" \in Pool!Adders
    BY <1>1, SystemAssumption DEF AddingTyped, ScriptAdds, UserCommands, Pool!Events,
                                  Pool!ControlBytes, Pool!UserCommands, Pool!Adders
  <2>2. Pool!AddAndStart(adding, "script")
    BY <1>1 DEF ScriptAdds
  <2> QED
    BY <2>1, <2>2 DEF Pool!Next
<1>2. CASE Post
  <2>1. "EndModeCommand" \in Pool!Events /\ "activity" \in Pool!Adders
    BY DEF Pool!Events, Pool!ControlBytes, Pool!UserCommands, Pool!Adders
  <2>2. Pool!AddAndStart("EndModeCommand", "activity")
    BY <1>2 DEF Post
  <2> QED
    BY <2>1, <2>2 DEF Pool!Next
<1>3. CASE RunnableDispatches
  BY <1>3 DEF RunnableDispatches, Dispatches, Pool!Next
<1>4. CASE Collector
  BY <1>4 DEF Collector, Pool!Next
<1>5. CASE \/ MasterWorks \/ MasterTimeout \/ RemoteTimeout \/ RemoteSide \/ LineSide
           \/ IoHandles \/ IoResults \/ ScriptFires \/ Apart(Ping) \/ UNCHANGED testerVars
  BY <1>5 DEF MasterWorks, MasterTimeout, RemoteTimeout, RemoteSide, LineSide, IoHandles,
              IoResults, ScriptFires, Apart, testerVars
<1> QED
  BY <1>1, <1>2, <1>3, <1>4, <1>5 DEF TesterNext

\* The program implements the pool (RunnablePool.cpp:41-74 under its mutex),
\* with two kinds of threads that add to it and the io thread that waits.
THEOREM PoolInTester == TesterSpec => Pool!Spec
<1>1. TesterInit => Pool!Init /\ AddingTyped
  BY DEF TesterInit, AddingTyped
<1>2. AddingTyped /\ [TesterNext]_testerVars => [Pool!Next]_(Pool!vars)
  BY PoolStep DEF poolVars, Pool!vars
<1> QED
  BY <1>1, <1>2, AddingStep, PTL DEF TesterSpec, Pool!Spec

\* The pool that the theorems of RunnablePoolProofs are about is this one.
LEMMA SamePool ==
    /\ Pool!Init => PoolProofs!Init
    /\ [Pool!Next]_(Pool!vars) => [PoolProofs!Next]_(PoolProofs!vars)
    /\ PoolProofs!Inv => NothingLeaks
<1>1. Pool!Init => PoolProofs!Init
  BY DEF Pool!Init, PoolProofs!Init
<1>2. [Pool!Next]_(Pool!vars) => [PoolProofs!Next]_(PoolProofs!vars)
  BY DEF Pool!Next, Pool!vars, Pool!AddAndStart, Pool!End, Pool!Running, Pool!Round, Pool!Collect,
         Pool!StopAndDelete, Pool!Sleep, Pool!Runnable, Pool!Adders, Pool!Events,
         Pool!ControlBytes, Pool!UserCommands,
         PoolProofs!Next, PoolProofs!vars, PoolProofs!AddAndStart, PoolProofs!End,
         PoolProofs!Running, PoolProofs!Round, PoolProofs!Collect, PoolProofs!StopAndDelete,
         PoolProofs!Sleep, PoolProofs!Runnable, PoolProofs!Adders, PoolProofs!Events,
         PoolProofs!ControlBytes, PoolProofs!UserCommands
<1>3. PoolProofs!Inv => NothingLeaks
  BY DEF PoolProofs!Inv, PoolProofs!NothingLeaks, NothingLeaks, Pool!NothingLeaks
<1> QED
  BY <1>1, <1>2, <1>3

\* So it keeps account of every thread it started, for any number of commands,
\* losses and early timers (RunnablePool.cpp, operator()).
THEOREM TesterLeaks == TesterSpec => []NothingLeaks
<1>1. Pool!Init => PoolProofs!Inv
  BY SamePool, PoolProofs!InvInit
<1>2. PoolProofs!Inv /\ [Pool!Next]_(Pool!vars) => PoolProofs!Inv'
  BY SamePool, PoolProofs!StepKeeps
<1> QED
  BY <1>1, <1>2, SamePool, PoolInTester, PTL DEF Pool!Spec


-------------------------------------------------------------------------------
(***************************************************************************)
(* The session.  The script fires when both ends are at rest, but its      *)
(* command is dispatched later, by a thread that had to be added to the    *)
(* pool first.  Both ends are still at rest then, unless the script goes   *)
(* on during a throughput test.                                            *)
(***************************************************************************)

\* A master that is gone, or two ends between which nothing is going on.
Resting == mState = "Exited" \/ (Steady /\ mState # "ThroughputMode")

LEMMA SameRest ==
    /\ \A q : (Eventless(q) <=> MB!Eventless(q)) /\ (Eventless(q) <=> RB!Eventless(q))
    /\ \A s : (EventlessLine(s) <=> MB!EventlessLine(s)) /\ (EventlessLine(s) <=> RB!EventlessLine(s))
    /\ rState = "RemoteIdle" => (Owners(rReady, {"RemoteIdle"}) <=> RB!Current(rReady))
<1>1. TimerKinds = MB!TimerKinds /\ TimerKinds = RB!TimerKinds
  BY DEF TimerKinds, MB!TimerKinds, RB!TimerKinds
<1> QED
  BY Names, <1>1 DEF Eventless, MB!Eventless, RB!Eventless, EventlessLine, MB!EventlessLine,
                     RB!EventlessLine, Owners, RB!Current

\* In the states that rest no timer runs and the throughput thread does not work.
LEMMA RestFacts ==
    ASSUME Sound, Steady
    PROVE  /\ mState \in {"Idle", "AvailabilityMode", "ThroughputMode"}
           /\ mTimer = "none"
           /\ rState \in {"RemoteIdle", "RemoteAvailabilityMode", "RemoteThroughputMode", "Exited"}
           /\ rTimer = "none"
<1>1. /\ mState \in {"Idle", "AvailabilityMode", "ThroughputMode"}
      /\ rState \in {"RemoteIdle", "RemoteAvailabilityMode", "RemoteThroughputMode", "Exited"}
  BY DEF Steady, AtRest, TS!Tests, TS!Mode, TS!Serving
<1> QED
  BY <1>1 DEF Sound, MB!TypeOK, RB!TypeOK, M!MasterTimers, R!RemoteTimers

\* What is sent from here is no event.
LEMMA SentEventless ==
    ASSUME NEW s \in Seq(Bytes), EventlessLine(s), NEW w \in Seq(Bytes), EventlessLine(w)
    PROVE  EventlessLine(s \o w)
<1>1. \A i \in DOMAIN (s \o w) :
          (i \in DOMAIN s /\ (s \o w)[i] = s[i])
          \/ (i - Len(s) \in DOMAIN w /\ (s \o w)[i] = w[i - Len(s)])
  OBVIOUS
<1> QED
  BY <1>1 DEF EventlessLine


\* What the master does by itself, but for the throughput thread's last step.
MasterSteps ==
    \/ M!StreamStep \/ M!IoStep \/ M!ActivityWorks \/ M!TimerStep
    \/ M!TimeoutReceiveResults \/ M!PingerSend

\* A master that is gone stays so.
LEMMA GoneStays ==
    ASSUME mState = "Exited", MasterSteps
    PROVE  mState' = "Exited"
BY SameMaster
DEF MasterSteps, M!StreamStep, M!IoStep, M!ActivityWorks, M!TimerStep, M!TimeoutReceiveResults,
    M!PingerSend, M!ResultsArrive, M!ReceiveResults, M!Flood, M!GetResults,
    MB!ReadCompletes, MB!ActivityBegins, MB!ActivityCancel, MB!ActivityRead, MB!TimerExpires,
    MB!Handle, MB!HandleReadEvt, MB!HandleReceive, MB!HandleDangling, MB!DispatchTimeout,
    MB!DispatchAborted, MB!Runs

\* Nothing that the master does by itself ends the rest.
LEMMA MasterRests ==
    ASSUME Sound, Resting, MasterSteps, UNCHANGED <<remoteVars, mDispatchers>>
    PROVE  Resting'
<1>1. CASE mState = "Exited"
  BY <1>1, GoneStays DEF Resting
<1>2. CASE Steady /\ mState # "ThroughputMode"
  <2>1. /\ mState \in {"Idle", "AvailabilityMode"} /\ mTimer = "none" /\ MB!TypeOK /\ MB!Owned
        /\ toRemote \in Seq(Bytes) /\ toMaster \in Seq(Bytes)
    BY <1>2, RestFacts, LineTypes DEF Sound
  <2>2. mActivity \notin {"flooded", "waiting", "ready", "done"}
    BY <1>2 DEF Sound, TestThread
  <2>3. ResultsIn(mReads) = {} /\ ResultsIn(mReady) = {}
    BY <2>2 DEF Sound, TestThread
  <2>4. ~M!ResultsArrive /\ ~M!ReceiveResults /\ ~M!Flood /\ ~M!GetResults
        /\ ~M!TimeoutReceiveResults /\ ~M!TimerStep
    <3>1. ~M!ResultsArrive
      <4>1. mReads # <<>> => 1 \in DOMAIN mReads /\ Head(mReads) = mReads[1]
        BY <2>1, EmptySeq DEF MB!TypeOK
      <4> QED
        BY <2>3, <4>1 DEF M!ResultsArrive, ResultsIn
    <3>2. ~M!ReceiveResults
      <4>1. mReady # <<>> => 1 \in DOMAIN mReady /\ Head(mReady) = mReady[1]
        BY <2>1, EmptySeq DEF MB!TypeOK
      <4> QED
        BY <2>3, <4>1 DEF M!ReceiveResults, ResultsIn, M!FSM!Runs
    <3> QED
      BY <1>2, <2>1, <2>2, <3>1, <3>2, SameMaster
      DEF M!Flood, M!GetResults, M!TimeoutReceiveResults, M!TimerStep, MB!TimerExpires
  <2>5. /\ EventlessLine(toMaster) /\ EventlessLine(toRemote) /\ Eventless(mReady)
        /\ rState' = rState /\ rReady' = rReady
    BY <1>2 DEF Steady, remoteVars
  <2>6. \/ mState' = "Exited"
        \/ /\ mState' = mState /\ Eventless(mReady')
           /\ EventlessLine(toMaster') /\ EventlessLine(toRemote')
    <3>1. CASE MB!ReadCompletes
      BY <2>1, <2>5, <3>1, SameRest, MasterTables, MB!EventlessRead DEF MB!ReadCompletes
    <3>2. CASE MB!Handle
      <4>1. /\ MB!Eventless(mReady') /\ toMaster' = toMaster
            /\ \/ mState' = "Exited"
               \/ /\ mState' = mState
                  /\ \/ toRemote' = toRemote
                     \/ \E a \in M!MasterActivities, b \in MB!Bytes :
                            toRemote' = toRemote \o M!MasterReplies[a][b]
        BY <2>1, <2>5, <3>2, SameRest, MasterTables, MB!EventlessHandle
      <4>2. toRemote' = toRemote \/ mState' = "Exited"
        <5>1. \A a \in M!MasterActivities, b \in MB!Bytes : M!MasterReplies[a][b] = <<>>
          BY Names DEF M!MasterReplies
        <5>2. toRemote \o <<>> = toRemote
          BY <2>1
        <5> QED
          BY <4>1, <5>1, <5>2
      <4> QED
        BY <2>5, <4>1, <4>2, SameRest
    <3>3. CASE MB!ActivityBegins
      BY <2>5, <3>3 DEF MB!ActivityBegins, MB!ActivityCancel, MB!ActivityRead
    <3>4. CASE M!PingerSend
      <4>1. <<"Data">> \in Seq(Bytes) /\ EventlessLine(<<"Data">>)
        BY DEF Bytes, EventlessLine, ControlBytes, UserCommands
      <4>2. toRemote' = toRemote \o <<"Data">>
        BY <2>1, <3>4 DEF M!PingerSend
      <4> QED
        BY <2>1, <2>5, <3>4, <4>1, <4>2, SentEventless DEF M!PingerSend
    <3> QED
      BY <2>4, <3>1, <3>2, <3>3, <3>4, SameMaster
      DEF MasterSteps, M!StreamStep, M!IoStep, M!ActivityWorks
  <2> QED
    BY <1>2, <2>5, <2>6 DEF Resting, Steady, AtRest
<1> QED
  BY <1>1, <1>2 DEF Resting

\* Nor anything that the remote does.
LEMMA RemoteRests ==
    ASSUME Sound, Resting, RemoteStep, UNCHANGED masterVars
    PROVE  Resting'
<1>1. /\ mState' = mState /\ mReady' = mReady /\ mDispatchers' = mDispatchers
  BY DEF masterVars
<1>2. CASE mState = "Exited"
  BY <1>1, <1>2 DEF Resting
<1>3. CASE Steady /\ mState # "ThroughputMode"
  <2>1. /\ rState \in {"RemoteIdle", "RemoteAvailabilityMode", "RemoteThroughputMode", "Exited"}
        /\ rTimer = "none" /\ RB!TypeOK /\ RB!Owned
        /\ toRemote \in Seq(Bytes) /\ toMaster \in Seq(Bytes)
    BY <1>3, RestFacts, LineTypes DEF Sound
  <2>2. /\ EventlessLine(toMaster) /\ EventlessLine(toRemote) /\ Eventless(rReady)
        /\ rState = "RemoteIdle" => RB!Current(rReady)
    BY <1>3, SameRest DEF Steady
  <2>3. \/ rState' = "Exited" /\ Eventless(rReady')
           /\ EventlessLine(toMaster') /\ EventlessLine(toRemote')
        \/ /\ rState' = rState /\ Eventless(rReady')
           /\ EventlessLine(toMaster') /\ EventlessLine(toRemote')
           /\ rState = "RemoteIdle" => Owners(rReady', {"RemoteIdle"})
    <3>1. CASE RB!ReadCompletes
      <4>1. /\ RB!Eventless(rReady') /\ RB!EventlessLine(toRemote')
            /\ RB!Current(rReady) => RB!Current(rReady')
        BY <2>1, <2>2, <3>1, SameRest, RemoteTables, RB!EventlessRead
      <4>2. rState' = rState /\ toMaster' = toMaster
        BY <3>1 DEF RB!ReadCompletes
      <4> QED
        BY <2>2, <4>1, <4>2, SameRest DEF Owners, RB!Current
    <3>2. CASE RB!Handle
      <4>1. /\ RB!Eventless(rReady') /\ toRemote' = toRemote
            /\ RB!Current(rReady) => RB!Current(rReady')
            /\ \/ rState' = "Exited" /\ toMaster' = toMaster
               \/ /\ rState' = rState
                  /\ \/ toMaster' = toMaster
                     \/ \E a \in R!RemoteActivities, b \in RB!Bytes :
                            toMaster' = toMaster \o R!RemoteReplies[a][b]
        BY <2>1, <2>2, <3>2, SameRest, RemoteTables, RB!EventlessHandle
      <4>2. EventlessLine(toMaster')
        <5>1. \A a \in R!RemoteActivities, b \in RB!Bytes :
                  R!RemoteReplies[a][b] \in {<<>>, <<"Data">>, <<"EndData">>, <<"Result">>}
          BY Names DEF R!RemoteReplies
        <5>2. \A w \in {<<>>, <<"Data">>, <<"EndData">>, <<"Result">>} :
                  w \in Seq(Bytes) /\ EventlessLine(w)
          <6>1. /\ <<>> \in Seq(Bytes) /\ <<"Data">> \in Seq(Bytes)
                /\ <<"EndData">> \in Seq(Bytes) /\ <<"Result">> \in Seq(Bytes)
            BY DEF Bytes
          <6>2. EventlessLine(<<>>)
            BY DEF EventlessLine
          <6>3. \A b \in {"Data", "EndData", "Result"} : EventlessLine(<<b>>)
            BY DEF EventlessLine, ControlBytes, UserCommands
          <6> QED
            BY <6>1, <6>2, <6>3
        <5> QED
          BY <2>1, <2>2, <4>1, <5>1, <5>2, SentEventless
      <4> QED
        BY <2>2, <4>1, <4>2, SameRest DEF Owners, RB!Current
    <3>3. CASE RB!ActivityBegins
      BY <2>2, <3>3, SameRest DEF RB!ActivityBegins, RB!ActivityCancel, RB!ActivityRead
    <3>4. ~RB!TimerExpires
      BY <2>1 DEF RB!TimerExpires
    <3> QED
      BY <3>1, <3>2, <3>3, <3>4, SameRemote DEF RemoteStep
  <2> QED
    BY <1>1, <1>3, <2>3 DEF Resting, Steady, AtRest
<1> QED
  BY <1>2, <1>3 DEF Resting


\* The commands of the script that are still to be dispatched: one at most,
\* which the io thread is adding to the pool or a thread has still to dispatch.
Scripted == {r \in Pool!Running : runnables[r].by = "script"}
ScriptWaits ==
    /\ \A r, s \in Scripted : r = s
    /\ Scripted # {} => adding = "none"
    /\ \A r \in Scripted : runnables[r].event \in Commands
    /\ adding # "none" \/ Scripted # {} => Resting

TesterInv == Sound /\ AddingTyped /\ PoolProofs!Inv /\ ScriptWaits

\* While one of them waits the throughput thread does not, so it posts nothing.
LEMMA NothingPosted ==
    ASSUME Sound, Resting
    PROVE  ~M!ThroughputEnds /\ ~M!DispatchEnd
<1>1. CASE mState = "Exited"
  BY <1>1 DEF Sound, TestThread, M!ThroughputEnds, M!DispatchEnd, M!FSM!Command
<1>2. CASE Steady /\ mState # "ThroughputMode"
  BY <1>2 DEF Steady, Sound, TestThread, M!ThroughputEnds, M!DispatchEnd
<1> QED
  BY <1>1, <1>2 DEF Resting

LEMMA RunnablesTyped ==
    ASSUME PoolProofs!TypeOK, NEW r \in DOMAIN runnables
    PROVE  runnables[r] \in [event : PoolProofs!Events, by : PoolProofs!Adders,
                            stage : {"running", "ended", "deleted"}]
<1> DEFINE S == [event : PoolProofs!Events, by : PoolProofs!Adders, stage : {"running", "ended", "deleted"}]
<1>1. runnables \in Seq(S)
  BY DEF PoolProofs!TypeOK
<1> HIDE DEF S
<1>2. runnables[r] \in S
  BY <1>1
<1> QED
  BY <1>2 DEF S

\* A runnable added to the pool.
LEMMA Added ==
    ASSUME PoolProofs!TypeOK, NEW event, NEW by, Pool!AddAndStart(event, by)
    PROVE  /\ Scripted' \subseteq Scripted \cup {Len(runnables) + 1}
           /\ by # "script" => Scripted' = Scripted
           /\ \A r \in Scripted : r # Len(runnables) + 1 /\ runnables'[r] = runnables[r]
           /\ runnables'[Len(runnables) + 1].event = event
<1>1. /\ runnables' = Append(runnables, Pool!Runnable(event, by))
      /\ DOMAIN runnables = 1..Len(runnables) /\ Len(runnables) \in Nat
      /\ \E S : runnables \in Seq(S) /\ Pool!Runnable(event, by) \in S
  <2> DEFINE new == Pool!Runnable(event, by)
  <2>1. PICK S : runnables \in Seq(S)
    BY DEF PoolProofs!TypeOK
  <2>2. runnables' = Append(runnables, new)
    BY DEF Pool!AddAndStart
  <2> HIDE DEF new
  <2>3. runnables \in Seq(S \cup {new}) /\ new \in S \cup {new}
    BY <2>1
  <2> QED
    BY <2>2, <2>3 DEF new
<1>2. /\ DOMAIN runnables' = 1..(Len(runnables) + 1)
      /\ \A r \in 1..Len(runnables) : runnables'[r] = runnables[r]
      /\ runnables'[Len(runnables) + 1] = Pool!Runnable(event, by)
  <2>1. PICK S : runnables \in Seq(S) /\ Pool!Runnable(event, by) \in S
    BY <1>1
  <2> HIDE DEF Pool!Runnable
  <2> QED
    BY <1>1, <2>1
<1>3. /\ Pool!Runnable(event, by).event = event
      /\ Pool!Runnable(event, by).by = by
  BY DEF Pool!Runnable
<1> QED
  BY <1>1, <1>2, <1>3 DEF Scripted, Pool!Running

\* A runnable whose thread has ended.
LEMMA EndedRunnable ==
    ASSUME PoolProofs!TypeOK, NEW r, Pool!End(r)
    PROVE  /\ r \in Pool!Running /\ Scripted' = Scripted \ {r}
           /\ \A s \in Scripted' : runnables'[s] = runnables[s]
BY DEF Pool!End, Pool!Running, Scripted, PoolProofs!TypeOK

\* The collector takes what has ended.
LEMMA RoundRunnable ==
    ASSUME PoolProofs!TypeOK, Pool!Round
    PROVE  /\ Scripted' = Scripted
           /\ \A s \in Scripted' : runnables'[s] = runnables[s]
<1>1. CASE UNCHANGED runnables
  BY <1>1 DEF Scripted, Pool!Running
<1>2. CASE Pool!StopAndDelete
  <2> DEFINE d == Head(vector)
  <2>1. runnables[d].stage = "ended" /\ runnables' = [runnables EXCEPT ![d].stage = "deleted"]
    BY <1>2 DEF Pool!StopAndDelete
  <2> HIDE DEF d
  <2>2. /\ DOMAIN runnables' = DOMAIN runnables
        /\ \A r \in DOMAIN runnables : r # d => runnables'[r] = runnables[r]
        /\ d \in DOMAIN runnables => runnables'[d] = [runnables[d] EXCEPT !.stage = "deleted"]
    BY <2>1 DEF PoolProofs!TypeOK
  <2>3. d \in DOMAIN runnables => runnables'[d].stage = "deleted"
    BY <2>2, RunnablesTyped
  <2>4. d \notin Pool!Running /\ d \notin Pool!Running'
    BY <2>1, <2>2, <2>3 DEF Pool!Running
  <2> QED
    BY <2>2, <2>4 DEF Scripted, Pool!Running
<1> QED
  BY <1>1, <1>2 DEF Pool!Round, Pool!Collect, Pool!Sleep


LEMMA ScriptIdles ==
    ASSUME ScriptWaits, UNCHANGED <<poolVars, adding>>, Resting => Resting'
    PROVE  ScriptWaits'
BY DEF ScriptWaits, Scripted, Pool!Running, poolVars

LEMMA RestKept ==
    ASSUME UNCHANGED <<masterVars, remoteVars, toMaster, toRemote>>, Resting
    PROVE  Resting'
BY DEF Resting, Steady, AtRest, masterVars, remoteVars

\* Every step of the program is one of the system in which commands are given
\* at rest.
LEMMA TesterStep ==
    ASSUME TesterInv, ~Interrupts, [TesterNext]_testerVars
    PROVE  Orderly /\ ScriptWaits'
<1>1. Sound /\ ScriptWaits /\ PoolProofs!TypeOK
  BY DEF TesterInv, PoolProofs!Inv
<1>2. CASE MasterWorks \/ MasterTimeout \/ LineSide \/ IoHandles \/ IoResults \/ Apart(Ping)
  <2>1. /\ MasterStream \/ MasterIo \/ Master(M!ActivityWorks) \/ MasterTimer \/ ResultsTimer \/ Ping
        /\ UNCHANGED <<poolVars, adding>>
    BY <1>2 DEF MasterWorks, MasterTimeout, LineSide, IoHandles, IoResults, Apart
  <2>2. MasterSteps /\ UNCHANGED remoteVars
    BY <2>1 DEF Ping, Master, MasterTimer, MasterStream, MasterIo, ResultsTimer, MasterSteps
  <2>3. mDispatchers' = mDispatchers
    BY <2>2 DEF MasterSteps, M!StreamStep, M!IoStep, M!ActivityWorks, M!TimerStep,
                M!TimeoutReceiveResults, M!PingerSend, M!ResultsArrive, M!ReceiveResults,
                M!Flood, M!GetResults
  <2>4. undefined => undefined'
    BY <2>1 DEF Ping, Master, MasterTimer, MasterStream, MasterIo, ResultsTimer
  <2>5. Orderly
    BY <2>1, <2>4 DEF Ping, Master, MasterTimer, MasterStream, MasterIo, ResultsTimer,
                      M!ActivityStep, Orderly, MasterOrderly
  <2> QED
    BY <1>1, <2>1, <2>2, <2>3, <2>5, MasterRests, ScriptIdles
<1>3. CASE RemoteTimeout \/ RemoteSide
  <2>1. /\ RemoteStream \/ RemoteIo \/ RemoteActivity \/ RemoteTimer
        /\ UNCHANGED <<poolVars, adding>>
    BY <1>3 DEF RemoteTimeout, RemoteSide, Apart
  <2>2. RemoteStep /\ UNCHANGED masterVars
    BY <2>1 DEF Remote, RemoteTimer, RemoteStream, RemoteIo, RemoteActivity, RemoteStep
  <2>3. undefined => undefined'
    BY <2>1 DEF Remote, RemoteTimer, RemoteStream, RemoteIo, RemoteActivity
  <2>4. Orderly
    BY <2>1, <2>3 DEF Remote, RemoteTimer, RemoteStream, RemoteIo, RemoteActivity, Orderly,
                      RemoteOrderly
  <2> QED
    BY <1>1, <2>1, <2>2, <2>4, RemoteRests, ScriptIdles
<1>4. CASE ScriptFires
  <2>1. /\ Orderly /\ UNCHANGED <<masterVars, remoteVars, toMaster, toRemote, poolVars>>
        /\ Pool!Running = {}
    BY <1>4 DEF ScriptFires, Orderly
  <2>2. Steady /\ mState # "ThroughputMode"
    BY <1>4, SettledSteady DEF ScriptFires
  <2>3. Scripted' = {}
    BY <2>1 DEF Scripted, Pool!Running, poolVars
  <2> QED
    BY <2>1, <2>2, <2>3, RestKept DEF ScriptWaits, Resting
<1>5. CASE ScriptAdds
  <2>1. /\ Orderly /\ UNCHANGED <<masterVars, remoteVars, toMaster, toRemote>>
        /\ adding # "none" /\ adding' = "none" /\ Pool!AddAndStart(adding, "script")
    BY <1>5 DEF ScriptAdds, Orderly, vars
  <2>2. Scripted = {} /\ Resting /\ adding \in Commands
    BY <1>1, <2>1 DEF ScriptWaits, TesterInv, AddingTyped
  <2>3. /\ Scripted' \subseteq {Len(runnables) + 1}
        /\ runnables'[Len(runnables) + 1].event = adding
    BY <1>1, <2>1, <2>2, Added
  <2> QED
    BY <2>1, <2>2, <2>3, RestKept DEF ScriptWaits
<1>6. CASE Post
  <2>1. M!ThroughputEnds /\ Orderly /\ Pool!AddAndStart("EndModeCommand", "activity") /\ adding' = adding
    BY <1>6 DEF Post, Master, Orderly, MasterOrderly, M!ActivityStep
  <2>2. Scripted = {} /\ adding = "none"
    BY <1>1, <2>1, NothingPosted DEF ScriptWaits
  <2>3. Scripted' = {}
    BY <1>1, <2>1, <2>2, Added
  <2> QED
    BY <2>1, <2>2, <2>3 DEF ScriptWaits
<1>7. CASE RunnableDispatches
  <2>1. PICK r \in DOMAIN runnables : Dispatches(r)
    BY <1>7 DEF RunnableDispatches
  <2>2. /\ r \in Pool!Running /\ Scripted' = Scripted \ {r} /\ adding' = adding
        /\ \A s \in Scripted' : runnables'[s] = runnables[s]
    BY <1>1, <2>1, EndedRunnable DEF Dispatches
  <2>3. CASE runnables[r].by = "activity"
    <3>1. M!DispatchEnd /\ Orderly
      BY <2>1, <2>3 DEF Dispatches, Master, Orderly, MasterOrderly
    <3>2. Scripted = {} /\ adding = "none"
      BY <1>1, <3>1, NothingPosted DEF ScriptWaits
    <3> QED
      BY <2>2, <3>1, <3>2 DEF ScriptWaits
  <2>4. CASE runnables[r].by # "activity"
    <3>1. r \in Scripted
      BY <1>1, <2>1, <2>2, <2>4, RunnablesTyped DEF Scripted, PoolProofs!Adders
    <3>2. M!Command(runnables[r].event) /\ runnables[r].event \in Commands /\ Resting
      BY <1>1, <2>1, <2>4, <3>1 DEF Dispatches, Master, ScriptWaits
    <3>3. Steady
      BY <3>2 DEF Resting, M!Command, M!FSM!Command
    <3>4. Orderly
      BY <2>1, <3>2, <3>3 DEF Dispatches, Master, Orderly, MasterOrderly
    <3>5. Scripted' = {} /\ adding' = "none"
      BY <1>1, <2>2, <3>1 DEF ScriptWaits
    <3> QED
      BY <3>4, <3>5 DEF ScriptWaits
  <2> QED
    BY <2>3, <2>4
<1>8. CASE Collector
  <2>1. /\ Orderly /\ UNCHANGED <<masterVars, remoteVars, toMaster, toRemote, adding>>
        /\ Pool!Round
    BY <1>8 DEF Collector, Orderly, vars
  <2>2. Scripted' = Scripted /\ \A s \in Scripted' : runnables'[s] = runnables[s]
    BY <1>1, <2>1, RoundRunnable
  <2> QED
    BY <1>1, <2>1, <2>2, RestKept DEF ScriptWaits
<1>9. CASE UNCHANGED testerVars
  <2>1. Orderly /\ UNCHANGED <<masterVars, remoteVars, toMaster, toRemote>> /\ UNCHANGED <<poolVars, adding>>
    BY <1>9 DEF testerVars, vars, Orderly
  <2> QED
    BY <1>1, <2>1, RestKept, ScriptIdles
<1> QED
  BY <1>2, <1>3, <1>4, <1>5, <1>6, <1>7, <1>8, <1>9 DEF TesterNext

LEMMA TesterInvStep ==
    ASSUME TesterInv, ~Interrupts, [TesterNext]_testerVars
    PROVE  TesterInv'
<1>1. Sound' /\ ScriptWaits' /\ AddingTyped'
  BY TesterStep, OrderlySound, AddingStep DEF TesterInv
<1>2. PoolProofs!Inv'
  <2>1. [Pool!Next]_(Pool!vars)
    BY PoolStep DEF TesterInv, poolVars, Pool!vars
  <2> QED
    BY <2>1, SamePool, PoolProofs!StepKeeps DEF TesterInv
<1> QED
  BY <1>1, <1>2 DEF TesterInv

LEMMA TesterInvInit == TesterInit => TesterInv /\ Tested /\ TS!Init /\ OwnTimers
<1> SUFFICES ASSUME TesterInit PROVE TesterInv /\ Tested /\ TS!Init /\ OwnTimers
  OBVIOUS
<1>1. Sound /\ Tested /\ TS!Init /\ OwnTimers
  BY SoundInit, TestedInit, OwnTimersInit DEF TesterInit
<1>2. AddingTyped /\ PoolProofs!Inv
  BY SamePool, PoolProofs!InvInit DEF TesterInit, AddingTyped
<1>3. ScriptWaits
  <2>1. Scripted = {}
    BY DEF TesterInit, Pool!Init, Scripted, Pool!Running
  <2> QED
    BY <2>1 DEF ScriptWaits, TesterInit
<1> QED
  BY <1>1, <1>2, <1>3 DEF TesterInv

\* What is proved by induction of the whole program.
LEMMA TesterHolds ==
    ASSUME ~Interrupts
    PROVE  TesterSpec => /\ [](Sound /\ Tested /\ OwnTimers)
                         /\ TS!Init /\ [][TS!Next]_(TS!vars)
<1> DEFINE Inv == TesterInv /\ Tested /\ OwnTimers
<1>1. TesterInit => Inv /\ TS!Init
  BY TesterInvInit
<1>2. Inv /\ [TesterNext]_testerVars => Inv' /\ [TS!Next]_(TS!vars)
  BY TesterStep, TesterInvStep, TestedStep, OwnTimersStep DEF TesterInv, SessionStep
<1>3. Inv => Sound /\ Tested /\ OwnTimers
  BY DEF TesterInv
<1> HIDE DEF Inv
<1> QED
  BY <1>1, <1>2, <1>3, PTL DEF TesterSpec

\* Where commands come from timers of a script and are dispatched by threads of
\* the pool, the two machines still carry out one test after another, as long as
\* the script does not go on during a throughput test (EventsScript.cpp,
\* RunnablePool.cpp): a command chosen at rest is dispatched at rest.
THEOREM ProgramCarriesOutTests ==
    ASSUME ~Interrupts
    PROVE  TesterSpec => Session
BY TesterHolds, PTL DEF Session, TS!Spec

\* Nor does the thread of the pool that dispatches the throughput thread's
\* EndModeCommand come too late: the mode it is to end is the one that runs.
THEOREM ProgramEndsItsOwnMode ==
    ASSUME ~Interrupts
    PROVE  TesterSpec => []EndIsCurrent
BY TesterHolds, TestedEnds, PTL

\* And every retry of the handshake stays possible.
THEOREM ProgramRetriesGoOn ==
    ASSUME ~Interrupts
    PROVE  TesterSpec => []RetryPending
BY TesterHolds, TimersRetry, PTL

===============================================================================
