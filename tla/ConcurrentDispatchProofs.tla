----------------------- MODULE ConcurrentDispatchProofs -----------------------
(***************************************************************************)
(* A machine that several threads move at once without a lock: for every   *)
(* table that always reacts to what the peer sends, any number of threads, *)
(* any events they dispatch and any overlap of their transitions, somebody *)
(* listens once they have settled; and a runnable is stopped twice only if *)
(* two of them did overlap.                                                *)
(***************************************************************************)
EXTENDS ConcurrentDispatch, SequenceTheorems, TLAPS

\* A step of the machine, or of any thread that begins a dispatch.
AnyStep == Step \/ (\E t \in Threads, e \in Events : Dispatch(t, e)) \/ UNCHANGED vars

-------------------------------------------------------------------------------
(***************************************************************************)
(* Types, with whose reads and handlers there are.                         *)
(***************************************************************************)
ReadSet ==
    [kind : {"own"}, owner : States]
        \cup [kind : {"activity", "dangling"}, owner : ActivityStates]

HandlerSet ==
    [kind : {"own"}, owner : States, byte : PeerBytes]
        \cup [kind : {"activity", "dangling"}, owner : ActivityStates, byte : Bytes]

Lives == {"none", "starting", "cancelled", "reading"}

Typed ==
    /\ current \in States
    /\ task \in [Threads -> Tasks]
    /\ activity \in [ActivityStates -> Lives]
    /\ reads \in Seq(ReadSet)
    /\ ready \in Seq(HandlerSet)
    /\ undefined \in {"no", "stopped", "freed"}
    /\ overlaps \in Nat

\* The bytes of the peer's machine are events.
LEMMA PeerBytesTyped == PeerBytes \subseteq Events /\ PeerBytes \subseteq Bytes
BY DispatchAssumption DEF Events, Bytes, ControlBytes

\* What a thread keeps from one step to the next.
LEMMA TaskFacts ==
    ASSUME Typed, NEW t \in Threads
    PROVE  /\ task[t] \in Tasks
           /\ task[t].pc \in {"idle", "react", "exit", "stop", "cancel", "set", "entry", "arm"}
           /\ task[t].pc = "react" => task[t].event \in Events
           /\ task[t].pc \in {"exit", "cancel", "set"} => task[t].to \in States
           /\ task[t].pc = "stop" => task[t].to \in States /\ task[t].at \in ActivityStates
           /\ task[t].pc = "arm" => task[t].at \in States
<1>1. task[t] \in Tasks
  BY DEF Typed
<1>2. \A k \in Tasks :
         /\ k.pc \in {"idle", "react", "exit", "stop", "cancel", "set", "entry", "arm"}
         /\ k.pc = "react" => k.event \in Events
         /\ k.pc \in {"exit", "cancel", "set"} => k.to \in States
         /\ k.pc = "stop" => k.to \in States /\ k.at \in ActivityStates
         /\ k.pc = "arm" => k.at \in States
  BY DEF Tasks
<1> QED
  BY <1>1, <1>2

\* Giving a thread its next task leaves the others theirs.
LEMMA DoFacts ==
    ASSUME Typed, NEW t \in Threads, NEW next \in Tasks, Do(t, next)
    PROVE  /\ task' \in [Threads -> Tasks]
           /\ task'[t] = next
           /\ \A u \in Threads \ {t} : task'[u] = task[u]
BY DEF Typed, Do

\* Deleting an activity changes the kind of its reads ...
LEMMA OrphanReads ==
    ASSUME NEW q \in Seq(ReadSet), NEW s
    PROVE  Orphan(q, s) \in Seq(ReadSet)
<1>1. Len(q) \in Nat /\ DOMAIN q = 1..Len(q) /\ \A i \in 1..Len(q) : q[i] \in ReadSet
  OBVIOUS
<1>2. \A r \in ReadSet : r.kind = "activity" => [r EXCEPT !.kind = "dangling"] \in ReadSet
  BY DEF ReadSet
<1> DEFINE o == [i \in 1..Len(q) |->
                  IF q[i].kind = "activity" /\ q[i].owner = s
                  THEN [q[i] EXCEPT !.kind = "dangling"] ELSE q[i]]
<1>3. \A i \in 1..Len(q) : o[i] \in ReadSet
  BY <1>1, <1>2
<1>4. o \in Seq(ReadSet)
  BY <1>1, <1>3
<1> QED
  BY <1>1, <1>4 DEF Orphan

\* ... and of its handlers.
LEMMA OrphanHandlers ==
    ASSUME NEW q \in Seq(HandlerSet), NEW s
    PROVE  Orphan(q, s) \in Seq(HandlerSet)
<1>1. Len(q) \in Nat /\ DOMAIN q = 1..Len(q) /\ \A i \in 1..Len(q) : q[i] \in HandlerSet
  OBVIOUS
<1>2. \A h \in HandlerSet : h.kind = "activity" => [h EXCEPT !.kind = "dangling"] \in HandlerSet
  BY DEF HandlerSet
<1> DEFINE o == [i \in 1..Len(q) |->
                  IF q[i].kind = "activity" /\ q[i].owner = s
                  THEN [q[i] EXCEPT !.kind = "dangling"] ELSE q[i]]
<1>3. \A i \in 1..Len(q) : o[i] \in HandlerSet
  BY <1>1, <1>2
<1>4. o \in Seq(HandlerSet)
  BY <1>1, <1>3
<1> QED
  BY <1>1, <1>4 DEF Orphan

LEMMA TypedInit == Init => Typed
<1> SUFFICES ASSUME Init PROVE Typed
  OBVIOUS
<1>1. Start \in States /\ Read("own", Start) \in ReadSet
  BY DispatchAssumption DEF Read, ReadSet
<1>2. reads \in Seq(ReadSet)
  BY <1>1 DEF Init
<1>3. ready \in Seq(HandlerSet)
  BY DEF Init
<1>4. task \in [Threads -> Tasks]
  BY DEF Init, Resting, Tasks
<1>5. activity \in [ActivityStates -> Lives]
  BY DEF Init, Lives
<1> QED
  BY <1>1, <1>2, <1>3, <1>4, <1>5 DEF Init, Typed

\* The steps of a dispatch.
LEMMA DispatchingTyped ==
    ASSUME Typed, NEW t \in Threads,
           React(t) \/ Exit(t) \/ Stop(t) \/ StopNone(t) \/ Cancel(t) \/ Set(t) \/ Entry(t) \/ Arm(t)
    PROVE  Typed'
<1>1. CASE React(t)
  <2>1. /\ UNCHANGED <<current, activity, reads, ready, undefined>>
        /\ overlaps' = overlaps \/ overlaps' = overlaps + 1
    BY <1>1 DEF React, streamVars
  <2>2. task' \in [Threads -> Tasks]
    <3>1. \A m \in Moves : [pc |-> "exit", to |-> m.to] \in Tasks
      BY DispatchAssumption DEF Tasks
    <3>2. Resting \in Tasks
      BY DEF Resting, Tasks
    <3> QED
      BY <1>1, <3>1, <3>2, DoFacts DEF React
  <2> QED
    BY <2>1, <2>2 DEF Typed
<1>2. CASE Exit(t)
  <2>1. UNCHANGED <<current, activity, reads, ready, undefined, overlaps>>
    BY <1>2 DEF Exit, streamVars
  <2>2. task[t].to \in States
    BY <1>2, TaskFacts DEF Exit, At
  <2>3. /\ current \in ActivityStates => [pc |-> "stop", to |-> task[t].to, at |-> current] \in Tasks
        /\ [pc |-> "cancel", to |-> task[t].to] \in Tasks
    BY <2>2 DEF Tasks
  <2>4. task' \in [Threads -> Tasks]
    BY <1>2, <2>3, DoFacts DEF Exit
  <2> QED
    BY <2>1, <2>4 DEF Typed
<1>3. CASE Stop(t)
  <2>1. /\ UNCHANGED <<current, undefined, overlaps>>
        /\ activity' = [activity EXCEPT ![task[t].at] = "none"]
        /\ reads' = Orphan(reads, task[t].at)
        /\ ready' = Orphan(ready, task[t].at)
        /\ Do(t, [pc |-> "cancel", to |-> task[t].to])
    BY <1>3 DEF Stop
  <2>2. task[t].to \in States /\ task[t].at \in ActivityStates
    BY <1>3, TaskFacts DEF Stop, At
  <2>3. [pc |-> "cancel", to |-> task[t].to] \in Tasks
    BY <2>2 DEF Tasks
  <2>4. task' \in [Threads -> Tasks]
    BY <2>1, <2>3, DoFacts
  <2>5. reads' \in Seq(ReadSet) /\ ready' \in Seq(HandlerSet)
    BY <2>1, OrphanReads, OrphanHandlers DEF Typed
  <2>6. activity' \in [ActivityStates -> Lives]
    BY <2>1 DEF Typed, Lives
  <2> QED
    BY <2>1, <2>4, <2>5, <2>6 DEF Typed
<1>4. CASE StopNone(t)
  BY <1>4 DEF StopNone, Typed, streamVars
<1>5. CASE Cancel(t)
  <2>1. task[t].to \in States
    BY <1>5, TaskFacts DEF Cancel, At
  <2>2. [pc |-> "set", to |-> task[t].to] \in Tasks
    BY <2>1 DEF Tasks
  <2>3. task' \in [Threads -> Tasks]
    BY <1>5, <2>2, DoFacts DEF Cancel
  <2>4. reads' \in Seq(ReadSet)
    BY <1>5 DEF Cancel
  <2> QED
    BY <1>5, <2>3, <2>4 DEF Cancel, Typed
<1>6. CASE Set(t)
  <2>1. current' \in States
    BY <1>6, TaskFacts DEF Set, At
  <2>2. [pc |-> "entry"] \in Tasks
    BY DEF Tasks
  <2>3. task' \in [Threads -> Tasks]
    BY <1>6, <2>2, DoFacts DEF Set
  <2> QED
    BY <1>6, <2>1, <2>3 DEF Set, Typed, streamVars
<1>7. CASE Entry(t)
  <2>1. [pc |-> "arm", at |-> current] \in Tasks
    BY DEF Typed, Tasks
  <2>2. task' \in [Threads -> Tasks]
    BY <1>7, <2>1, DoFacts DEF Entry
  <2>3. activity' \in [ActivityStates -> Lives]
    BY <1>7 DEF Entry, Typed, Lives
  <2> QED
    BY <1>7, <2>2, <2>3 DEF Entry, Typed, streamVars
<1>8. CASE Arm(t)
  <2>1. Resting \in Tasks
    BY DEF Resting, Tasks
  <2>2. task' \in [Threads -> Tasks]
    BY <1>8, <2>1, DoFacts DEF Arm
  <2>3. Read("own", task[t].at) \in ReadSet
    BY <1>8, TaskFacts DEF Arm, At, Read, ReadSet
  <2>4. reads' \in Seq(ReadSet)
    BY <1>8, <2>3 DEF Arm, Typed
  <2> QED
    BY <1>8, <2>2, <2>4 DEF Arm, Typed
<1> QED
  BY <1>1, <1>2, <1>3, <1>4, <1>5, <1>6, <1>7, <1>8


\* The head of a queue, and what is left of it.
LEMMA PopReads ==
    ASSUME Typed, reads # <<>>
    PROVE  Head(reads) \in ReadSet /\ Tail(reads) \in Seq(ReadSet)
BY DEF Typed

LEMMA PopReady ==
    ASSUME Typed, ready # <<>>
    PROVE  Head(ready) \in HandlerSet /\ Tail(ready) \in Seq(HandlerSet)
BY DEF Typed

\* What a completed read may carry.
LEMMA HandlerTyped ==
    ASSUME NEW r \in ReadSet,
           NEW byte \in PeerBytes \cup (IF r.kind = "own" THEN {} ELSE {"Data"})
    PROVE  Handler(r, byte) \in HandlerSet
<1>1. byte \in Bytes
  BY PeerBytesTyped DEF Bytes
<1>2. r.kind = "own" => byte \in PeerBytes
  OBVIOUS
<1> QED
  BY <1>1, <1>2 DEF Handler, HandlerSet, ReadSet

\* The steps of the activities' threads, of the stream and of the io thread.
LEMMA OthersTyped ==
    ASSUME Typed,
           \/ \E s \in ActivityStates : ActivityCancel(s) \/ ActivityRead(s)
           \/ ReadCompletes \/ HandleReadEvt \/ HandleReceive \/ HandleDangling
    PROVE  Typed'
<1>1. ASSUME NEW s \in ActivityStates, ActivityCancel(s) PROVE Typed'
  <2>1. reads' \in Seq(ReadSet)
    BY <1>1 DEF ActivityCancel
  <2>2. activity' \in [ActivityStates -> Lives]
    BY <1>1 DEF ActivityCancel, Typed, Lives
  <2> QED
    BY <1>1, <2>1, <2>2 DEF ActivityCancel, Typed
<1>2. ASSUME NEW s \in ActivityStates, ActivityRead(s) PROVE Typed'
  <2>1. Read("activity", s) \in ReadSet
    BY DEF Read, ReadSet
  <2>2. reads' \in Seq(ReadSet)
    BY <1>2, <2>1 DEF ActivityRead, Typed
  <2>3. activity' \in [ActivityStates -> Lives]
    BY <1>2 DEF ActivityRead, Typed, Lives
  <2> QED
    BY <1>2, <2>2, <2>3 DEF ActivityRead, Typed
<1>3. CASE ReadCompletes
  <2>1. reads # <<>> /\ reads' = Tail(reads)
    BY <1>3 DEF ReadCompletes
  <2>2. PICK byte \in PeerBytes \cup (IF Head(reads).kind = "own" THEN {} ELSE {"Data"}) :
           ready' = Append(ready, Handler(Head(reads), byte))
    BY <1>3 DEF ReadCompletes
  <2>3. Handler(Head(reads), byte) \in HandlerSet
    BY <2>1, <2>2, PopReads, HandlerTyped
  <2>4. ready' \in Seq(HandlerSet)
    BY <2>2, <2>3 DEF Typed
  <2> QED
    BY <1>3, <2>1, <2>4, PopReads DEF ReadCompletes, Typed
<1>4. CASE HandleReadEvt
  <2>1. /\ ready # <<>> /\ Head(ready).kind = "own" /\ ready' = Tail(ready)
        /\ Do(Io, [pc |-> "react", event |-> Head(ready).byte])
        /\ UNCHANGED <<current, activity, reads, undefined, overlaps>>
    BY <1>4 DEF HandleReadEvt, Runs, Begin
  <2>2. Head(ready).byte \in Events
    BY <2>1, PopReady, PeerBytesTyped DEF HandlerSet
  <2>3. [pc |-> "react", event |-> Head(ready).byte] \in Tasks
    BY <2>2 DEF Tasks
  <2>4. task' \in [Threads -> Tasks]
    BY <2>1, <2>3, DoFacts DEF Threads
  <2> QED
    BY <2>1, <2>4, PopReady DEF Typed
<1>5. CASE HandleReceive
  <2>1. /\ ready # <<>> /\ Head(ready).kind = "activity" /\ ready' = Tail(ready)
        /\ UNCHANGED <<current, activity, undefined, overlaps>>
    BY <1>5 DEF HandleReceive, Runs
  <2>2. CASE Head(ready).byte \in PeerBytes
    <3>1. [pc |-> "react", event |-> Head(ready).byte] \in Tasks
      BY <2>2, PeerBytesTyped DEF Tasks
    <3>2. Do(Io, [pc |-> "react", event |-> Head(ready).byte]) /\ reads' = reads
      BY <1>5, <2>2 DEF HandleReceive, Begin
    <3>3. task' \in [Threads -> Tasks]
      BY <3>1, <3>2, DoFacts DEF Threads
    <3> QED
      BY <2>1, <3>2, <3>3, PopReady DEF Typed
  <2>3. CASE Head(ready).byte \notin PeerBytes
    <3>1. reads' = Append(reads, Read("activity", Head(ready).owner)) /\ task' = task
      BY <1>5, <2>3 DEF HandleReceive
    <3>2. Read("activity", Head(ready).owner) \in ReadSet
      BY <2>1, PopReady DEF Read, ReadSet, HandlerSet
    <3>3. reads' \in Seq(ReadSet)
      BY <3>1, <3>2 DEF Typed
    <3> QED
      BY <2>1, <3>1, <3>3, PopReady DEF Typed
  <2> QED
    BY <2>2, <2>3
<1>6. CASE HandleDangling
  BY <1>6 DEF HandleDangling, Typed, streamVars
<1> QED
  BY <1>1, <1>2, <1>3, <1>4, <1>5, <1>6

\* A thread that was at rest begins a dispatch.
LEMMA BeginTyped ==
    ASSUME Typed, NEW t \in Threads, NEW e \in Events, Dispatch(t, e)
    PROVE  Typed'
<1>1. [pc |-> "react", event |-> e] \in Tasks
  BY DEF Tasks
<1>2. task' \in [Threads -> Tasks]
  BY <1>1, DoFacts DEF Dispatch, Begin
<1> QED
  BY <1>2 DEF Dispatch, Typed, streamVars

\* A timeout is dispatched by the io thread.
LEMMA TimeoutIsDispatch == DispatchTimeout => Io \in Threads /\ Dispatch(Io, "Timeout")
BY DEF DispatchTimeout, Dispatch, Threads

\* The steps there are.
LEMMA StepCases ==
    ASSUME AnyStep
    PROVE  \/ \E t \in Threads : \/ React(t) \/ Exit(t) \/ Stop(t) \/ StopNone(t)
                                 \/ Cancel(t) \/ Set(t) \/ Entry(t) \/ Arm(t)
           \/ \E s \in ActivityStates : ActivityCancel(s) \/ ActivityRead(s)
           \/ ReadCompletes \/ HandleReadEvt \/ HandleReceive \/ HandleDangling
           \/ \E t \in Threads, e \in Events : Dispatch(t, e)
           \/ UNCHANGED vars
<1>1. "Timeout" \in Events
  BY DEF Events
<1> QED
  BY <1>1, TimeoutIsDispatch DEF AnyStep, Step, Dispatching

LEMMA TypedStep == ASSUME Typed, AnyStep PROVE Typed'
<1>1. CASE UNCHANGED vars
  BY <1>1 DEF vars, streamVars, Typed
<1> QED
  BY <1>1, StepCases, DispatchingTyped, OthersTyped, BeginTyped

LEMMA NextIsAnyStep == [Next]_vars => AnyStep
<1>1. Workers \subseteq Threads /\ UserCommands \subseteq Events
  BY DEF Threads, Events, ControlBytes
<1> QED
  BY <1>1 DEF Next, AnyStep

\* A sequence over a set is one over any larger set.
LEMMA SeqLarger ==
    ASSUME NEW A, NEW B, A \subseteq B, NEW q \in Seq(A)
    PROVE  q \in Seq(B)
<1>1. q \in [1..Len(q) -> A] /\ Len(q) \in Nat
  OBVIOUS
<1>2. q \in [1..Len(q) -> B]
  BY <1>1
<1> QED
  BY <1>1, <1>2

\* The queues are of the types that TypeOK states.
LEMMA TypedTypeOK == Typed => TypeOK
<1> SUFFICES ASSUME Typed PROVE TypeOK
  OBVIOUS
<1>1. ReadSet \subseteq [kind : Kinds, owner : States]
  BY DispatchAssumption DEF ReadSet, Kinds
<1>2. HandlerSet \subseteq [kind : Kinds, owner : States, byte : Bytes]
  BY DispatchAssumption, PeerBytesTyped DEF HandlerSet, Kinds
<1>3. reads \in Seq([kind : Kinds, owner : States])
  BY <1>1, SeqLarger DEF Typed
<1>4. ready \in Seq([kind : Kinds, owner : States, byte : Bytes])
  BY <1>2, SeqLarger DEF Typed
<1>5. \A i \in DOMAIN ready : ready[i].kind = "own" => ready[i].byte \in PeerBytes
  <2>1. ready \in Seq(HandlerSet) /\ DOMAIN ready = 1..Len(ready)
    BY DEF Typed
  <2>2. \A i \in DOMAIN ready : ready[i] \in HandlerSet
    BY <2>1, ElementOfSeq
  <2> QED
    BY <2>2 DEF HandlerSet
<1> QED
  BY <1>3, <1>4, <1>5 DEF Typed, TypeOK, Lives

\* For any table, any threads and any overlap (tinyfsm.hpp:124-139).
THEOREM Types == Spec => []TypeOK
<1>1. Spec => []Typed
  BY TypedInit, TypedStep, NextIsAnyStep, PTL DEF Spec
<1> QED
  BY <1>1, TypedTypeOK, PTL

-------------------------------------------------------------------------------
(***************************************************************************)
(* Somebody listens.  Until everything has settled it may be a thread that *)
(* will: one on its way through a transition, one that is to arm the read  *)
(* of the current state, or one that reacts to a byte of the peer, which   *)
(* moves the machine in every state.                                       *)
(***************************************************************************)
Holds(t) ==
    \/ task[t].pc \in {"exit", "stop", "cancel", "set", "entry"}
    \/ task[t].pc = "arm" /\ task[t].at = current
    \/ task[t].pc = "react" /\ task[t].event \in PeerBytes

Called == \E i \in DOMAIN ready : ready[i].kind \in {"own", "activity"}

ActivityListens ==
    \E s \in ActivityStates : activity[s] \in {"starting", "cancelled"} \/ Waits("activity", s)

Awake == Waits("own", current) \/ (\E t \in Threads : Holds(t)) \/ Called \/ ActivityListens

Listening == Typed /\ (undefined = "no" => Awake)

\* What a thread does that nobody relied on.
LEMMA AwakeKept ==
    ASSUME Awake, NEW t \in Threads, ~Holds(t),
           \A u \in Threads \ {t} : task'[u] = task[u],
           UNCHANGED <<current, activity, ready>>,
           \A s : (Waits("own", s) => Waits("own", s)')
                   /\ (Waits("activity", s) => Waits("activity", s)')
    PROVE  Awake'
<1>1. (\E u \in Threads : Holds(u)) => \E u \in Threads : Holds(u)'
  BY DEF Holds
<1>2. Called => Called'
  BY DEF Called
<1>3. ActivityListens => ActivityListens'
  BY DEF ActivityListens
<1> QED
  BY <1>1, <1>2, <1>3 DEF Awake

\* A read that is armed now is outstanding, and so are those that were.
LEMMA Armed ==
    ASSUME Typed, NEW r \in ReadSet, reads' = Append(reads, r)
    PROVE  /\ \E i \in DOMAIN reads' : reads'[i] = r
           /\ \A k, s : Waits(k, s) => Waits(k, s)'
<1>1. reads \in Seq(ReadSet) /\ Len(reads) \in Nat
  BY DEF Typed
<1>2. /\ DOMAIN reads = 1..Len(reads) /\ DOMAIN reads' = 1..(Len(reads) + 1)
      /\ \A i \in DOMAIN reads : reads'[i] = reads[i]
      /\ reads'[Len(reads) + 1] = r
  BY <1>1
<1>3. \A i \in DOMAIN reads : i \in DOMAIN reads'
  BY <1>1, <1>2
<1>4. Len(reads) + 1 \in DOMAIN reads'
  BY <1>1, <1>2
<1> QED
  BY <1>2, <1>3, <1>4 DEF Waits

LEMMA DispatchingAwake ==
    ASSUME Typed, Awake, NEW t \in Threads, undefined' = "no",
           React(t) \/ Exit(t) \/ Stop(t) \/ StopNone(t) \/ Cancel(t) \/ Set(t) \/ Entry(t) \/ Arm(t)
    PROVE  Awake'
<1> USE TaskFacts
<1>1. ASSUME NEW next \in Tasks, Do(t, next), next.pc \in {"exit", "stop", "cancel", "set", "entry"}
      PROVE  Awake'
  <2>1. task'[t] = next
    BY <1>1, DoFacts
  <2> QED
    BY <1>1, <2>1 DEF Awake, Holds
<1>2. CASE React(t)
  <2>1. CASE \E m \in Moves : Do(t, [pc |-> "exit", to |-> m.to])
    <3>1. \A m \in Moves : [pc |-> "exit", to |-> m.to] \in Tasks
      BY DispatchAssumption DEF Tasks
    <3> QED
      BY <1>1, <2>1, <3>1
  <2>2. CASE /\ \A m \in Moves : m.from = current => m.on # task[t].event
             /\ Do(t, Resting)
    <3>1. task[t].pc = "react" /\ task[t].event \notin PeerBytes
      BY <1>2, <2>2, DispatchAssumption DEF React, At, Typed
    <3>2. ~Holds(t)
      BY <3>1 DEF Holds
    <3>3. Resting \in Tasks
      BY DEF Resting, Tasks
    <3>4. UNCHANGED <<current, activity, ready, reads>>
      BY <1>2 DEF React, streamVars
    <3>5. \A u \in Threads \ {t} : task'[u] = task[u]
      BY <2>2, <3>3, DoFacts
    <3> QED
      BY <3>2, <3>4, <3>5, AwakeKept DEF Waits
  <2> QED
    BY <1>2, <2>1, <2>2 DEF React
<1>3. CASE Exit(t)
  <2>1. task[t].to \in States
    BY <1>3 DEF Exit, At
  <2>2. /\ current \in ActivityStates => [pc |-> "stop", to |-> task[t].to, at |-> current] \in Tasks
        /\ [pc |-> "cancel", to |-> task[t].to] \in Tasks
    BY <2>1 DEF Tasks
  <2>3. CASE current \in ActivityStates
    BY <1>1, <1>3, <2>2, <2>3 DEF Exit
  <2>4. CASE current \notin ActivityStates
    BY <1>1, <1>3, <2>2, <2>4 DEF Exit
  <2> QED
    BY <2>3, <2>4
<1>4. CASE Stop(t)
  <2>1. [pc |-> "cancel", to |-> task[t].to] \in Tasks
    BY <1>4 DEF Stop, At, Tasks
  <2> QED
    BY <1>1, <1>4, <2>1 DEF Stop
<1>5. CASE StopNone(t)
  BY <1>5 DEF StopNone
<1>6. CASE Cancel(t)
  <2>1. [pc |-> "set", to |-> task[t].to] \in Tasks
    BY <1>6 DEF Cancel, At, Tasks
  <2> QED
    BY <1>1, <1>6, <2>1 DEF Cancel
<1>7. CASE Set(t)
  <2>1. [pc |-> "entry"] \in Tasks
    BY DEF Tasks
  <2> QED
    BY <1>1, <1>7, <2>1 DEF Set
<1>8. CASE Entry(t)
  <2>1. [pc |-> "arm", at |-> current] \in Tasks
    BY DEF Typed, Tasks
  <2>2. task'[t] = [pc |-> "arm", at |-> current] /\ current' = current
    BY <1>8, <2>1, DoFacts DEF Entry
  <2> QED
    BY <2>2 DEF Awake, Holds
<1>9. CASE Arm(t)
  <2>1. /\ task[t].pc = "arm" /\ Do(t, Resting)
        /\ reads' = Append(reads, Read("own", task[t].at))
        /\ UNCHANGED <<current, activity, ready>>
    BY <1>9 DEF Arm, At
  <2>2. Read("own", task[t].at) \in ReadSet
    BY <2>1 DEF Read, ReadSet
  <2>3. CASE task[t].at = current
    <3>1. Waits("own", current)'
      BY <2>1, <2>2, <2>3, Armed DEF Waits
    <3> QED
      BY <3>1 DEF Awake
  <2>4. CASE task[t].at # current
    <3>1. ~Holds(t)
      BY <2>1, <2>4 DEF Holds
    <3>2. Resting \in Tasks
      BY DEF Resting, Tasks
    <3>3. \A u \in Threads \ {t} : task'[u] = task[u]
      BY <2>1, <3>2, DoFacts
    <3>4. \A k, s : Waits(k, s) => Waits(k, s)'
      BY <2>1, <2>2, Armed
    <3> QED
      BY <2>1, <3>1, <3>3, <3>4, AwakeKept
  <2> QED
    BY <2>3, <2>4
<1> QED
  BY <1>2, <1>3, <1>4, <1>5, <1>6, <1>7, <1>8, <1>9

LEMMA OthersAwake ==
    ASSUME Typed, Awake, undefined' = "no",
           \/ \E s \in ActivityStates : ActivityCancel(s) \/ ActivityRead(s)
           \/ ReadCompletes \/ HandleReadEvt \/ HandleReceive \/ HandleDangling
    PROVE  Awake'
<1>1. ASSUME NEW s \in ActivityStates, ActivityCancel(s) PROVE Awake'
  <2>1. activity'[s] = "cancelled"
    BY <1>1 DEF ActivityCancel, Typed
  <2> QED
    BY <2>1 DEF Awake, ActivityListens
<1>2. ASSUME NEW s \in ActivityStates, ActivityRead(s) PROVE Awake'
  <2>1. Read("activity", s) \in ReadSet
    BY DEF Read, ReadSet
  <2>2. Waits("activity", s)'
    BY <1>2, <2>1, Armed DEF ActivityRead, Waits
  <2> QED
    BY <2>2 DEF Awake, ActivityListens
<1>3. CASE ReadCompletes
  <2>1. /\ reads # <<>> /\ reads' = Tail(reads)
        /\ UNCHANGED <<current, task, activity>>
    BY <1>3 DEF ReadCompletes
  <2>2. PICK byte \in PeerBytes \cup (IF Head(reads).kind = "own" THEN {} ELSE {"Data"}) :
           ready' = Append(ready, Handler(Head(reads), byte))
    BY <1>3 DEF ReadCompletes
  <2>3. Handler(Head(reads), byte) \in HandlerSet
    BY <2>1, <2>2, PopReads, HandlerTyped
  <2>4. /\ Len(ready) + 1 \in DOMAIN ready'
        /\ ready'[Len(ready) + 1] = Handler(Head(reads), byte)
        /\ \A i \in DOMAIN ready : i \in DOMAIN ready' /\ ready'[i] = ready[i]
    <3>1. ready \in Seq(HandlerSet)
      BY DEF Typed
    <3> QED
      BY <2>2, <2>3, <3>1
  <2>5. CASE Head(reads).kind \in {"own", "activity"}
    <3>1. Called'
      BY <2>4, <2>5 DEF Called, Handler
    <3> QED
      BY <3>1 DEF Awake
  <2>6. CASE Head(reads).kind \notin {"own", "activity"}
    <3>1. /\ reads \in Seq(ReadSet)
          /\ DOMAIN reads = 1..Len(reads) /\ DOMAIN reads' = 1..(Len(reads) - 1)
          /\ Len(reads) \in Nat \ {0} /\ Head(reads) = reads[1]
          /\ \A i \in DOMAIN reads' : reads'[i] = reads[i + 1]
      <4>1. reads \in Seq(ReadSet)
        BY DEF Typed
      <4> QED
        BY <2>1, <4>1
    <3>2. ASSUME NEW k \in {"own", "activity"}, NEW s, Waits(k, s) PROVE Waits(k, s)'
      <4>1. PICK i \in DOMAIN reads : reads[i] = Read(k, s)
        BY <3>2 DEF Waits
      <4>2. i # 1
        BY <2>6, <3>1, <4>1 DEF Read
      <4>3. i - 1 \in DOMAIN reads' /\ reads'[i - 1] = reads[i]
        BY <3>1, <4>1, <4>2
      <4> QED
        BY <4>1, <4>3 DEF Waits
    <3>3. Called => Called'
      BY <2>4 DEF Called
    <3>4. ActivityListens => ActivityListens'
      BY <2>1, <3>2 DEF ActivityListens
    <3>5. (\E t \in Threads : Holds(t)) => \E t \in Threads : Holds(t)'
      BY <2>1 DEF Holds
    <3>6. Waits("own", current) => Waits("own", current)'
      BY <2>1, <3>2
    <3> QED
      BY <3>3, <3>4, <3>5, <3>6 DEF Awake
  <2> QED
    BY <2>5, <2>6
<1>4. ASSUME NEW byte \in PeerBytes, Do(Io, [pc |-> "react", event |-> byte]) PROVE Awake'
  <2>1. [pc |-> "react", event |-> byte] \in Tasks /\ Io \in Threads
    BY PeerBytesTyped DEF Tasks, Threads
  <2>2. task'[Io] = [pc |-> "react", event |-> byte]
    BY <1>4, <2>1, DoFacts
  <2> QED
    BY <2>1, <2>2 DEF Awake, Holds
<1>5. CASE HandleReadEvt
  <2>1. Do(Io, [pc |-> "react", event |-> Head(ready).byte]) /\ ready # <<>>
        /\ Head(ready).kind = "own"
    BY <1>5 DEF HandleReadEvt, Runs, Begin
  <2>2. Head(ready).byte \in PeerBytes
    BY <2>1, PopReady DEF HandlerSet
  <2> QED
    BY <1>4, <2>1, <2>2
<1>6. CASE HandleReceive
  <2>1. CASE Head(ready).byte \in PeerBytes
    BY <1>4, <1>6, <2>1 DEF HandleReceive, Begin
  <2>2. CASE Head(ready).byte \notin PeerBytes
    <3>1. /\ reads' = Append(reads, Read("activity", Head(ready).owner))
          /\ ready # <<>> /\ Head(ready).kind = "activity"
      BY <1>6, <2>2 DEF HandleReceive, Runs
    <3>2. PICK s \in ActivityStates : s = Head(ready).owner
      BY <3>1, PopReady DEF HandlerSet
    <3>3. Read("activity", s) \in ReadSet
      BY DEF Read, ReadSet
    <3>4. reads' = Append(reads, Read("activity", s))
      BY <3>1, <3>2
    <3>5. Waits("activity", s)'
      BY <3>3, <3>4, Armed DEF Waits
    <3> QED
      BY <3>5 DEF Awake, ActivityListens
  <2> QED
    BY <2>1, <2>2
<1>7. CASE HandleDangling
  BY <1>7 DEF HandleDangling
<1> QED
  BY <1>1, <1>2, <1>3, <1>5, <1>6, <1>7

LEMMA ListeningInit == Init => Listening
<1> SUFFICES ASSUME Init PROVE Listening
  OBVIOUS
<1>1. Waits("own", current)
  BY DEF Init, Waits
<1> QED
  BY <1>1, TypedInit DEF Listening, Awake

LEMMA ListeningStep == ASSUME Listening, AnyStep PROVE Listening'
<1>1. Typed /\ Typed'
  BY TypedStep DEF Listening
<1> SUFFICES ASSUME undefined' = "no" PROVE Awake'
  BY <1>1 DEF Listening
<1>2. undefined = "no"
  BY StepCases DEF React, Exit, Stop, StopNone, Cancel, Set, Entry, Arm, ActivityCancel,
     ActivityRead, ReadCompletes, HandleReadEvt, HandleReceive, HandleDangling, Dispatch, vars
<1>3. Awake
  BY <1>2 DEF Listening
<1>4. CASE \E t \in Threads, e \in Events : Dispatch(t, e)
  <2>1. PICK t \in Threads, e \in Events : Dispatch(t, e)
    BY <1>4
  <2>2. /\ task[t].pc = "idle" /\ Do(t, [pc |-> "react", event |-> e])
        /\ UNCHANGED <<current, activity, reads, ready>>
    BY <2>1 DEF Dispatch, Begin, At, streamVars
  <2>3. [pc |-> "react", event |-> e] \in Tasks
    BY DEF Tasks
  <2>4. \A u \in Threads \ {t} : task'[u] = task[u]
    BY <1>1, <2>2, <2>3, DoFacts
  <2>5. ~Holds(t)
    BY <2>2 DEF Holds
  <2> QED
    BY <1>3, <2>2, <2>4, <2>5, AwakeKept DEF Waits
<1>5. CASE UNCHANGED vars
  BY <1>3, <1>5 DEF vars, streamVars, Awake, Holds, Called, ActivityListens, Waits
<1> QED
  BY <1>1, <1>3, <1>4, <1>5, StepCases, DispatchingAwake, OthersAwake

LEMMA ListeningNeverDeaf == Listening => NeverDeaf
<1> SUFFICES ASSUME Listening, Settled, ready = <<>>
             PROVE  Waits("own", current) \/ ActivityListens
  BY DEF NeverDeaf, ActivityListens
<1>1. Awake
  BY DEF Listening, Settled
<1>2. ~Called
  BY DEF Called
<1>3. \A t \in Threads : ~Holds(t)
  BY DEF Settled, At, Holds
<1> QED
  BY <1>1, <1>2, <1>3 DEF Awake

\* For any table in which the peer's bytes always move the machine, any
\* threads and any overlap of their transitions (tinyfsm.hpp:134-139).
THEOREM Hears == Spec => []NeverDeaf
BY ListeningInit, ListeningStep, ListeningNeverDeaf, NextIsAnyStep, PTL DEF Spec

-------------------------------------------------------------------------------
(***************************************************************************)
(* As long as no two threads moved the machine at the same time, there is  *)
(* at most one that does, and the activity that lives is that of the       *)
(* current state, unless that thread has stopped it and not yet entered    *)
(* the next state.                                                         *)
(***************************************************************************)
Between(t) == task[t].pc \in {"cancel", "set", "entry"}

Single ==
    /\ \A t, u \in Threads : Moving(t) /\ Moving(u) => t = u
    /\ \A t \in Threads : task[t].pc = "stop" => task[t].at = current
    /\ \A t \in Threads : Between(t) => \A s \in ActivityStates : activity[s] = "none"
    /\ (\A t \in Threads : ~Between(t)) =>
           \A s \in ActivityStates : activity[s] # "none" <=> s = current

Solo ==
    /\ Typed
    /\ overlaps = 0 => Single
    /\ undefined = "stopped" => overlaps > 0

LEMMA SoloInit == Init => Solo
<1> SUFFICES ASSUME Init PROVE Solo
  OBVIOUS
<1>1. \A t \in Threads : task[t] = [pc |-> "idle"]
  BY DEF Init, Resting
<1>2. current \notin ActivityStates /\ \A s \in ActivityStates : activity[s] = "none"
  BY DispatchAssumption DEF Init
<1>3. Single
  BY <1>1, <1>2 DEF Single, Moving, Between
<1> QED
  BY <1>3, TypedInit DEF Solo, Init

LEMMA DispatchingSingle ==
    ASSUME Typed, Single, NEW t \in Threads, overlaps' = overlaps,
           React(t) \/ Exit(t) \/ Stop(t) \/ Cancel(t) \/ Set(t) \/ Entry(t) \/ Arm(t)
    PROVE  Single'
<1> USE TaskFacts
<1>1. CASE React(t)
  <2>1. task[t].pc = "react" /\ UNCHANGED <<current, activity>>
    BY <1>1 DEF React, At
  <2>2. CASE \E m \in Moves : Do(t, [pc |-> "exit", to |-> m.to])
    <3>1. \A m \in Moves : [pc |-> "exit", to |-> m.to] \in Tasks
      BY DispatchAssumption DEF Tasks
    <3>2. PICK m \in Moves : Do(t, [pc |-> "exit", to |-> m.to])
      BY <2>2
    <3>3. task'[t].pc = "exit" /\ \A u \in Threads \ {t} : task'[u] = task[u]
      BY <3>1, <3>2, DoFacts
    <3>4. \A u \in Threads \ {t} : ~Moving(u)
      <4>1. ~(overlaps < MaxOverlaps /\ overlaps' = overlaps + 1)
        BY DEF Typed
      <4>2. task' = [task EXCEPT ![t] = [pc |-> "exit", to |-> m.to]]
        BY <3>2 DEF Do
      <4>3. task' # [task EXCEPT ![t] = Resting]
        BY <4>2 DEF Resting, Typed
      <4>4. ~Do(t, Resting)
        BY <4>3 DEF Do
      <4> QED
        BY <1>1, <4>1, <4>4 DEF React
    <3>5. \A u \in Threads : ~Between(u) /\ ~Between(u)'
      BY <2>1, <3>3, <3>4 DEF Moving, Between
    <3>6. \A u \in Threads : Moving(u)' => u = t
      BY <3>3, <3>4 DEF Moving
    <3>7. \A u \in Threads : task'[u].pc # "stop"
      BY <3>3, <3>4 DEF Moving
    <3> QED
      BY <2>1, <3>5, <3>6, <3>7 DEF Single
  <2>3. CASE Do(t, Resting)
    <3>1. Resting \in Tasks
      BY DEF Resting, Tasks
    <3>2. task'[t].pc = "idle" /\ \A u \in Threads \ {t} : task'[u] = task[u]
      BY <2>3, <3>1, DoFacts DEF Resting
    <3> QED
      BY <2>1, <3>2 DEF Single, Moving, Between
  <2> QED
    BY <1>1, <2>2, <2>3 DEF React
<1>2. CASE ~React(t)
  <2>1. Moving(t) /\ \A u \in Threads \ {t} : ~Moving(u)
    BY <1>2 DEF Exit, Stop, Cancel, Set, Entry, Arm, At, Moving, Single
  <2>2. \A u \in Threads \ {t} : ~Between(u)
    BY <2>1 DEF Moving, Between
  <2>3. ASSUME NEW next \in Tasks, Do(t, next)
        PROVE  /\ task'[t] = next
               /\ \A u \in Threads \ {t} : ~Moving(u)' /\ ~Between(u)' /\ task'[u].pc # "stop"
    <3>1. task'[t] = next /\ \A u \in Threads \ {t} : task'[u] = task[u]
      BY <2>3, DoFacts
    <3> QED
      BY <2>1, <2>2, <3>1 DEF Moving, Between
  <2>4. CASE Exit(t)
    <3>1. ~Between(t) /\ UNCHANGED <<current, activity>>
      BY <2>4 DEF Exit, At, Between
    <3>2. \A s \in ActivityStates : activity[s] # "none" <=> s = current
      BY <2>2, <3>1 DEF Single
    <3>3. task[t].to \in States
      BY <2>4 DEF Exit, At
    <3>4. CASE current \in ActivityStates
      <4>1. [pc |-> "stop", to |-> task[t].to, at |-> current] \in Tasks
        BY <3>3, <3>4 DEF Tasks
      <4>2. Do(t, [pc |-> "stop", to |-> task[t].to, at |-> current])
        BY <2>4, <3>4 DEF Exit
      <4>3. task'[t].pc = "stop" /\ task'[t].at = current
        BY <2>3, <4>1, <4>2
      <4> QED
        BY <2>3, <3>1, <3>2, <4>1, <4>2, <4>3 DEF Single, Between
    <3>5. CASE current \notin ActivityStates
      <4>1. [pc |-> "cancel", to |-> task[t].to] \in Tasks
        BY <3>3 DEF Tasks
      <4>2. Do(t, [pc |-> "cancel", to |-> task[t].to])
        BY <2>4, <3>5 DEF Exit
      <4>3. task'[t].pc = "cancel"
        BY <2>3, <4>1, <4>2
      <4>4. \A s \in ActivityStates : activity'[s] = "none"
        BY <3>1, <3>2, <3>5
      <4> QED
        BY <2>3, <4>1, <4>2, <4>3, <4>4 DEF Single, Between
    <3> QED
      BY <3>4, <3>5
  <2>5. CASE Stop(t)
    <3>1. /\ task[t].pc = "stop" /\ task[t].at = current
          /\ activity' = [activity EXCEPT ![task[t].at] = "none"]
          /\ Do(t, [pc |-> "cancel", to |-> task[t].to])
      BY <2>5 DEF Stop, At, Single
    <3>2. [pc |-> "cancel", to |-> task[t].to] \in Tasks
      BY <3>1 DEF Tasks
    <3>3. task'[t].pc = "cancel"
      BY <2>3, <3>1, <3>2
    <3>4. \A s \in ActivityStates : activity[s] # "none" <=> s = current
      BY <2>2, <3>1 DEF Single, Between
    <3>5. \A s \in ActivityStates : activity'[s] = "none"
      BY <3>1, <3>4 DEF Typed
    <3> QED
      BY <2>3, <3>1, <3>2, <3>3, <3>5 DEF Single, Between
  <2>6. CASE Cancel(t)
    <3>1. task[t].pc = "cancel" /\ UNCHANGED activity /\ Do(t, [pc |-> "set", to |-> task[t].to])
      BY <2>6 DEF Cancel, At
    <3>2. [pc |-> "set", to |-> task[t].to] \in Tasks
      BY <3>1 DEF Tasks
    <3>3. task'[t].pc = "set"
      BY <2>3, <3>1, <3>2
    <3>4. \A s \in ActivityStates : activity'[s] = "none"
      BY <3>1 DEF Single, Between
    <3> QED
      BY <2>3, <3>1, <3>2, <3>3, <3>4 DEF Single, Between
  <2>7. CASE Set(t)
    <3>1. task[t].pc = "set" /\ UNCHANGED activity /\ Do(t, [pc |-> "entry"])
      BY <2>7 DEF Set, At
    <3>2. [pc |-> "entry"] \in Tasks
      BY DEF Tasks
    <3>3. task'[t].pc = "entry"
      BY <2>3, <3>1, <3>2
    <3>4. \A s \in ActivityStates : activity'[s] = "none"
      BY <3>1 DEF Single, Between
    <3> QED
      BY <2>3, <3>1, <3>2, <3>3, <3>4 DEF Single, Between
  <2>8. CASE Entry(t)
    <3>1. /\ task[t].pc = "entry" /\ UNCHANGED current
          /\ Do(t, [pc |-> "arm", at |-> current])
          /\ activity' = [s \in ActivityStates |->
                 IF s = current /\ activity[s] = "none" THEN "starting" ELSE activity[s]]
      BY <2>8 DEF Entry, At
    <3>2. [pc |-> "arm", at |-> current] \in Tasks
      BY DEF Typed, Tasks
    <3>3. task'[t].pc = "arm"
      BY <2>3, <3>1, <3>2
    <3>4. \A s \in ActivityStates : activity[s] = "none"
      BY <3>1 DEF Single, Between
    <3>5. \A s \in ActivityStates : activity'[s] # "none" <=> s = current'
      BY <3>1, <3>4
    <3> QED
      BY <2>3, <3>1, <3>2, <3>3, <3>5 DEF Single, Between
  <2>9. CASE Arm(t)
    <3>1. task[t].pc = "arm" /\ UNCHANGED <<current, activity>> /\ Do(t, Resting)
      BY <2>9 DEF Arm, At
    <3>2. Resting \in Tasks
      BY DEF Resting, Tasks
    <3>3. task'[t].pc = "idle"
      BY <2>3, <3>1, <3>2 DEF Resting
    <3>4. \A s \in ActivityStates : activity'[s] # "none" <=> s = current'
      BY <2>2, <3>1 DEF Single, Between
    <3> QED
      BY <2>3, <3>1, <3>2, <3>3, <3>4 DEF Single, Between
  <2> QED
    BY <1>2, <2>4, <2>5, <2>6, <2>7, <2>8, <2>9
<1> QED
  BY <1>1, <1>2

\* A thread at rest begins to react, or stays at rest.
LEMMA SingleKept ==
    ASSUME Single, UNCHANGED current,
           \A s \in ActivityStates : activity[s] = "none" <=> activity'[s] = "none",
           \A t \in Threads : \/ task'[t] = task[t]
                              \/ task[t].pc = "idle" /\ task'[t].pc = "react"
    PROVE  Single'
<1>1. \A t \in Threads : /\ Moving(t) <=> Moving(t)'
                         /\ Between(t) <=> Between(t)'
                         /\ Moving(t) => task'[t] = task[t]
  BY DEF Moving, Between
<1>2. \A t \in Threads : task'[t].pc = "stop" => task[t].pc = "stop" /\ task'[t].at = task[t].at
  OBVIOUS
<1> QED
  BY <1>1, <1>2 DEF Single

LEMMA BeginSingle ==
    ASSUME Typed, Single, NEW t \in Threads, NEW e \in Events, Begin(t, e),
           UNCHANGED <<current, activity>>
    PROVE  Single'
<1>1. [pc |-> "react", event |-> e] \in Tasks
  BY DEF Tasks
<1>2. task[t].pc = "idle" /\ task'[t].pc = "react" /\ \A u \in Threads \ {t} : task'[u] = task[u]
  BY <1>1, DoFacts DEF Begin, At
<1> QED
  BY <1>2, SingleKept

LEMMA OthersSingle ==
    ASSUME Typed, Single,
           \/ \E s \in ActivityStates : ActivityCancel(s) \/ ActivityRead(s)
           \/ ReadCompletes \/ HandleReadEvt \/ HandleReceive \/ HandleDangling
    PROVE  Single'
<1>1. ASSUME NEW s \in ActivityStates, ActivityCancel(s) \/ ActivityRead(s) PROVE Single'
  <2>1. \A a \in ActivityStates : activity[a] = "none" <=> activity'[a] = "none"
    BY <1>1 DEF ActivityCancel, ActivityRead, Typed
  <2> QED
    BY <1>1, <2>1, SingleKept DEF ActivityCancel, ActivityRead
<1>2. CASE ReadCompletes \/ HandleDangling
  BY <1>2, SingleKept DEF ReadCompletes, HandleDangling
<1>3. CASE HandleReadEvt
  <2>1. Head(ready).byte \in Events
    BY <1>3, PopReady, PeerBytesTyped DEF HandleReadEvt, Runs, HandlerSet
  <2> QED
    BY <1>3, <2>1, BeginSingle DEF HandleReadEvt, Threads
<1>4. CASE HandleReceive
  <2>1. CASE Head(ready).byte \in PeerBytes
    BY <1>4, <2>1, BeginSingle, PeerBytesTyped DEF HandleReceive, Threads
  <2>2. CASE Head(ready).byte \notin PeerBytes
    BY <1>4, <2>2, SingleKept DEF HandleReceive
  <2> QED
    BY <2>1, <2>2
<1> QED
  BY <1>1, <1>2, <1>3, <1>4

LEMMA SoloStep == ASSUME Solo, AnyStep PROVE Solo'
<1>1. Typed /\ Typed' /\ overlaps \in Nat
  BY TypedStep DEF Solo, Typed
<1>2. /\ overlaps' = overlaps \/ overlaps' = overlaps + 1
      /\ \/ undefined' = undefined \/ undefined' = "freed"
         \/ \E t \in Threads : StopNone(t)
  BY StepCases DEF React, Exit, Stop, StopNone, Cancel, Set, Entry, Arm, ActivityCancel,
     ActivityRead, ReadCompletes, HandleReadEvt, HandleReceive, HandleDangling, Dispatch, vars
<1>3. ASSUME NEW t \in Threads, StopNone(t) PROVE overlaps > 0
  <2>1. task[t].pc = "stop" /\ task[t].at \in ActivityStates /\ activity[task[t].at] = "none"
    BY <1>1, <1>3, TaskFacts DEF StopNone, At
  <2>2. SUFFICES ASSUME Single PROVE FALSE
    BY <1>1 DEF Solo
  <2>3. Moving(t) /\ ~Between(t)
    BY <2>1 DEF Moving, Between
  <2>4. \A u \in Threads : ~Between(u)
    BY <2>2, <2>3 DEF Single, Moving, Between
  <2> QED
    BY <2>1, <2>2, <2>4 DEF Single
<1>4. undefined' = "stopped" => overlaps' > 0
  BY <1>1, <1>2, <1>3 DEF Solo
<1>5. ASSUME overlaps' = 0 PROVE Single'
  <2>1. overlaps = 0 /\ overlaps' = overlaps
    BY <1>1, <1>2, <1>5
  <2>2. Single
    BY <2>1 DEF Solo
  <2>3. CASE \E t \in Threads, e \in Events : Dispatch(t, e)
    BY <1>1, <2>2, <2>3, BeginSingle DEF Dispatch
  <2>4. CASE UNCHANGED vars
    BY <2>2, <2>4, SingleKept DEF vars
  <2>5. \A t \in Threads : ~StopNone(t)
    BY <1>3, <2>1
  <2> QED
    BY <1>1, <2>1, <2>2, <2>3, <2>4, <2>5, StepCases, DispatchingSingle, OthersSingle
<1> QED
  BY <1>1, <1>4, <1>5 DEF Solo

\* For any table, any threads and any events: a runnable that is gone is
\* stopped only after transitions did overlap (BaseFSM.h:85-103).
THEOREM Stops == Spec => []StopsWhatRuns
<1>1. Solo => StopsWhatRuns
  BY DEF Solo, StopsWhatRuns
<1> QED
  BY <1>1, SoloInit, SoloStep, NextIsAnyStep, PTL DEF Spec

===============================================================================
