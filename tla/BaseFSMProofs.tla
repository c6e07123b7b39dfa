---------------------------- MODULE BaseFSMProofs ----------------------------
(***************************************************************************)
(* What BaseFSM guarantees for every state machine built on it: whatever   *)
(* its table of states and transitions, and whatever arrives, expires or   *)
(* is commanded in which order.                                            *)
(***************************************************************************)
EXTENDS BaseFSM, SequenceTheorems, TLAPS

-------------------------------------------------------------------------------
(***************************************************************************)
(* The queues a dispatch leaves behind.                                    *)
(***************************************************************************)

Timers == {"none", "armed", "expired"}

\* Deleting an activity changes the kind of its handlers and nothing else.
LEMMA OrphanFacts ==
    ASSUME NEW q \in Seq(HandlerSet)
    PROVE  /\ Orphan(q) \in Seq(HandlerSet)
           /\ \A i \in DOMAIN Orphan(q) : Orphan(q)[i].kind # "activity"
<1>1. Len(q) \in Nat /\ DOMAIN q = 1..Len(q)
  OBVIOUS
<1>2. \A i \in 1..Len(q) : q[i] \in HandlerSet
  OBVIOUS
<1> DEFINE o == [i \in 1..Len(q) |->
                  IF q[i].kind = "activity" THEN [q[i] EXCEPT !.kind = "dangling"] ELSE q[i]]
<1>3. \A h \in HandlerSet :
         h.kind = "activity" => /\ [h EXCEPT !.kind = "dangling"] \in HandlerSet
                                /\ [h EXCEPT !.kind = "dangling"].kind = "dangling"
  BY DEF HandlerSet
<1>4. \A i \in 1..Len(q) : o[i] \in HandlerSet /\ o[i].kind # "activity"
  BY <1>2, <1>3
<1>5. o \in [1..Len(q) -> HandlerSet]
  BY <1>4
<1>6. o \in Seq(HandlerSet)
  BY <1>1, <1>5
<1>7. Orphan(q) = o
  BY <1>1 DEF Orphan
<1> QED
  BY <1>4, <1>6, <1>7

\* A read that completes overwrites bytes and nothing else.
LEMMA OverwriteFacts ==
    ASSUME NEW q \in Seq(HandlerSet), NEW owner \in States, NEW byte \in Bytes
    PROVE  /\ Overwrite(q, owner, byte) \in Seq(HandlerSet)
           /\ Len(Overwrite(q, owner, byte)) = Len(q)
           /\ \A i \in 1..Len(q) :
                 /\ Overwrite(q, owner, byte)[i].kind = q[i].kind
                 /\ Overwrite(q, owner, byte)[i].owner = q[i].owner
<1>1. Len(q) \in Nat /\ DOMAIN q = 1..Len(q)
  OBVIOUS
<1>2. \A i \in 1..Len(q) : q[i] \in HandlerSet
  OBVIOUS
<1> DEFINE o == [i \in 1..Len(q) |->
                  IF q[i].kind = "fsm" /\ q[i].owner = owner
                  THEN [q[i] EXCEPT !.byte = byte] ELSE q[i]]
<1>3. \A h \in HandlerSet :
         h.kind = "fsm" => /\ [h EXCEPT !.byte = byte] \in HandlerSet
                           /\ [h EXCEPT !.byte = byte].kind = h.kind
                           /\ [h EXCEPT !.byte = byte].owner = h.owner
  BY DEF HandlerSet
<1>4. \A i \in 1..Len(q) : /\ o[i] \in HandlerSet
                           /\ o[i].kind = q[i].kind
                           /\ o[i].owner = q[i].owner
  BY <1>2, <1>3
<1>5. o \in [1..Len(q) -> HandlerSet]
  BY <1>4
<1>6. o \in Seq(HandlerSet) /\ Len(o) = Len(q)
  BY <1>1, <1>5
<1>7. Overwrite(q, owner, byte) = o
  BY <1>1 DEF Overwrite
<1> QED
  BY <1>4, <1>6, <1>7

\* Cancelling a timer queues at most its aborted handler.
LEMMA CancelledFacts ==
    ASSUME NEW t \in Timers, NEW owner, t # "none" => owner \in TimerStates
    PROVE  /\ Cancelled(t, owner) \in Seq(HandlerSet)
           /\ \A i \in DOMAIN Cancelled(t, owner) : Cancelled(t, owner)[i].kind = "aborted"
<1>1. CASE t = "armed"
  <2>1. Handler("aborted", owner, "Timeout") \in HandlerSet
    BY <1>1 DEF Handler, HandlerSet
  <2>2. Handler("aborted", owner, "Timeout").kind = "aborted"
    BY DEF Handler
  <2> QED
    BY <1>1, <2>1, <2>2 DEF Cancelled
<1>2. CASE t # "armed"
  BY <1>2 DEF Cancelled
<1> QED
  BY <1>1, <1>2

\* The queue q is what is left of ready without its head, possibly followed by
\* the handler of a timer cancelled meanwhile.
Pops(q) ==
    /\ q \in Seq(HandlerSet)
    /\ \A i \in DOMAIN q : \/ q[i].kind = "aborted"
                           \/ i + 1 \in DOMAIN ready /\ q[i] = ready[i + 1]
    /\ \A j \in DOMAIN ready : j # 1 => j - 1 \in DOMAIN q /\ q[j - 1] = ready[j]

LEMMA TailPops == TypeOK /\ ready # <<>> => Pops(Tail(ready))
<1> SUFFICES ASSUME TypeOK, ready # <<>>
             PROVE  Pops(Tail(ready))
  OBVIOUS
<1>1. ready \in Seq(HandlerSet) /\ Len(ready) \in Nat \ {0} /\ DOMAIN ready = 1..Len(ready)
  BY EmptySeq DEF TypeOK
<1>2. /\ Tail(ready) \in Seq(HandlerSet)
      /\ Len(Tail(ready)) = Len(ready) - 1
      /\ \A i \in 1..Len(Tail(ready)) : Tail(ready)[i] = ready[i + 1]
  BY <1>1, HeadTailProperties
<1>3. DOMAIN Tail(ready) = 1..(Len(ready) - 1)
  BY <1>1, <1>2
<1> QED
  BY <1>1, <1>2, <1>3 DEF Pops

LEMMA QueueLeftPops ==
    TypeOK /\ ready # <<>> => /\ Pops(QueueLeft)
                              /\ TimerLeft \in Timers
                              /\ TimerLeft # "none" => state \in TimerStates
<1> SUFFICES ASSUME TypeOK, ready # <<>>
             PROVE  /\ Pops(QueueLeft)
                    /\ TimerLeft \in Timers
                    /\ TimerLeft # "none" => state \in TimerStates
  OBVIOUS
<1>1. timer \in Timers /\ (timer # "none" => state \in TimerStates)
  BY DEF TypeOK, Timers
<1>2. TimerLeft \in Timers /\ (TimerLeft # "none" => state \in TimerStates)
  BY <1>1 DEF TimerLeft, Timers
<1> DEFINE c == Cancelled(timer, state)
<1>3. Pops(Tail(ready))
  BY TailPops
<1>4. c \in Seq(HandlerSet) /\ \A i \in DOMAIN c : c[i].kind = "aborted"
  BY <1>1, CancelledFacts
<1>5. Pops(Tail(ready) \o c)
  <2> DEFINE r == Tail(ready)
             q == r \o c
  <2>1. r \in Seq(HandlerSet) /\ c \in Seq(HandlerSet)
    BY <1>3, <1>4 DEF Pops
  <2>2. Len(r) \in Nat /\ Len(c) \in Nat /\ DOMAIN r = 1..Len(r) /\ DOMAIN c = 1..Len(c)
    BY <2>1
  <2>3. /\ q \in Seq(HandlerSet)
        /\ DOMAIN q = 1..(Len(r) + Len(c))
        /\ \A i \in 1..(Len(r) + Len(c)) : q[i] = IF i <= Len(r) THEN r[i] ELSE c[i - Len(r)]
    BY <2>1, <2>2, ConcatProperties, LenProperties
  <2> HIDE DEF r, c, q
  <2>4. \A i \in DOMAIN q : \/ q[i].kind = "aborted"
                            \/ i + 1 \in DOMAIN ready /\ q[i] = ready[i + 1]
    <3> SUFFICES ASSUME NEW i \in DOMAIN q
                 PROVE  \/ q[i].kind = "aborted"
                        \/ i + 1 \in DOMAIN ready /\ q[i] = ready[i + 1]
      OBVIOUS
    <3>1. CASE i <= Len(r)
      <4>1. i \in DOMAIN r /\ q[i] = r[i]
        BY <2>2, <2>3, <3>1
      <4> QED
        BY <1>3, <4>1 DEF Pops, r
    <3>2. CASE ~(i <= Len(r))
      <4>1. i - Len(r) \in DOMAIN c /\ q[i] = c[i - Len(r)]
        BY <2>2, <2>3, <3>2
      <4> QED
        BY <1>4, <4>1 DEF c
    <3> QED
      BY <3>1, <3>2
  <2>5. \A j \in DOMAIN ready : j # 1 => j - 1 \in DOMAIN q /\ q[j - 1] = ready[j]
    <3> SUFFICES ASSUME NEW j \in DOMAIN ready, j # 1
                 PROVE  j - 1 \in DOMAIN q /\ q[j - 1] = ready[j]
      OBVIOUS
    <3>1. j - 1 \in DOMAIN r /\ r[j - 1] = ready[j]
      BY <1>3 DEF Pops, r
    <3> QED
      BY <2>2, <2>3, <3>1
  <2> QED
    BY <2>3, <2>4, <2>5 DEF Pops, q, r, c
<1>6. Pops(QueueLeft)
  <2>1. Tail(ready) \o <<>> = Tail(ready)
    BY <1>3 DEF Pops
  <2> QED
    BY <1>3, <1>5, <2>1 DEF QueueLeft
<1> QED
  BY <1>2, <1>6

-------------------------------------------------------------------------------
(***************************************************************************)
(* What a dispatch does.  It moves the machine, which leaves no handler of *)
(* an activity behind and no read but those of the new state, or it ends   *)
(* the process, or nothing happens.                                        *)
(***************************************************************************)

Moved ==
    /\ state' \in States
    /\ timer' = IF state' \in TimerStates THEN "armed" ELSE "none"
    /\ \A i \in DOMAIN ready' : ready'[i].kind # "activity"
    /\ \/ /\ reads' = <<Read("fsm", state')>>
          /\ activity' \in IF state' \in ActivityStates THEN {"starting", "cancelled"}
                                                        ELSE {"none"}
       \/ /\ state' \in ActivityStates
          /\ reads' = <<Read("activity", state'), Read("fsm", state')>>
          /\ activity' = "reading"

Halted ==
    /\ state' = "Exited"
    /\ timer' = "none"
    /\ reads' = <<>>
    /\ ready' = <<>>
    /\ activity' = "none"

Ignored(event, queue, t) ==
    /\ event # "EndTest"
    /\ MovesOn(event) = {}
    /\ ready' = queue
    /\ timer' = t
    /\ UNCHANGED <<state, reads, activity>>

LEMMA DispatchFacts ==
    ASSUME TypeOK, NEW event \in Events, NEW queue \in Seq(HandlerSet), NEW t \in Timers,
           t # "none" => state \in TimerStates,
           Dispatch(event, queue, t)
    PROVE  /\ Moved \/ Halted \/ Ignored(event, queue, t)
           /\ ready' \in Seq(HandlerSet)
           /\ tx' \in Seq(Bytes)
<1>1. tx \in Seq(Bytes)
  BY DEF TypeOK
<1>2. CASE event = "EndTest" /\ Halt(<<"EndTest">>)
  <2>1. <<"EndTest">> \in Seq(Bytes)
    BY DEF Bytes, ControlBytes
  <2> QED
    BY <1>1, <1>2, <2>1 DEF Halt, Halted
<1>3. CASE event # "EndTest" /\ \E m \in MovesOn(event) : Transit(m.to, queue, m.sends, t)
  <2>1. PICK m \in MovesOn(event) : Transit(m.to, queue, m.sends, t)
    BY <1>3
  <2>2. /\ m.to \in States /\ m.sends \in Seq(Bytes)
        /\ EntryBytes[m.to] \in Seq(Bytes)
    BY TableAssumption DEF MovesOn
  <2>3. tx' \in Seq(Bytes)
    BY <1>1, <2>1, <2>2 DEF Transit
  <2>4. /\ Orphan(queue) \in Seq(HandlerSet)
        /\ \A i \in DOMAIN Orphan(queue) : Orphan(queue)[i].kind # "activity"
    BY OrphanFacts
  <2>5. /\ Cancelled(t, state) \in Seq(HandlerSet)
        /\ \A i \in DOMAIN Cancelled(t, state) : Cancelled(t, state)[i].kind = "aborted"
    BY CancelledFacts
  <2>6. /\ ready' \in Seq(HandlerSet)
        /\ \A i \in DOMAIN ready' : ready'[i].kind # "activity"
    <3>1. ready' = Orphan(queue) \o Cancelled(t, state)
      BY <2>1 DEF Transit
    <3> QED
      BY <2>4, <2>5, <3>1
  <2>7. Moved
    BY <2>1, <2>2, <2>6 DEF Transit, Moved
  <2> QED
    BY <2>3, <2>6, <2>7
<1>4. CASE /\ event # "EndTest"
           /\ MovesOn(event) = {}
           /\ ready' = queue
           /\ timer' = t
           /\ UNCHANGED <<state, reads, activity, tx>>
  BY <1>1, <1>4 DEF Ignored
<1> QED
  BY <1>2, <1>3, <1>4 DEF Dispatch

\* Each outcome is well-typed.
LEMMA DispatchTypes ==
    ASSUME TypeOK, NEW event \in Events, NEW queue \in Seq(HandlerSet), NEW t \in Timers,
           t # "none" => state \in TimerStates,
           Dispatch(event, queue, t), rx' \in Seq(Bytes)
    PROVE  TypeOK'
<1>1. ready' \in Seq(HandlerSet) /\ tx' \in Seq(Bytes)
  BY DispatchFacts
<1>2. CASE Moved
  <2>1. \A a \in ActivityStates : Read("activity", a) \in ReadSet
    BY DEF Read, ReadSet
  <2>2. Read("fsm", state') \in ReadSet
    BY <1>2 DEF Moved, Read, ReadSet
  <2>3. reads' \in Seq(ReadSet)
    <3>1. CASE reads' = <<Read("fsm", state')>>
      BY <2>2, <3>1
    <3>2. CASE /\ state' \in ActivityStates
               /\ reads' = <<Read("activity", state'), Read("fsm", state')>>
      BY <2>1, <2>2, <3>2
    <3> QED
      BY <1>2, <3>1, <3>2 DEF Moved
  <2>4. /\ activity' \in Stages \cup {"none"}
        /\ activity' = "none" <=> state' \notin ActivityStates
    BY <1>2 DEF Moved, Stages
  <2>5. timer' \in Timers /\ (timer' # "none" => state' \in TimerStates)
    BY <1>2 DEF Moved, Timers
  <2> QED
    BY <1>1, <1>2, <2>3, <2>4, <2>5 DEF Moved, TypeOK, Timers
<1>3. CASE Halted
  BY <1>1, <1>3, TableAssumption DEF Halted, TypeOK
<1>4. CASE Ignored(event, queue, t)
  BY <1>1, <1>4 DEF Ignored, TypeOK, Timers
<1> QED
  BY <1>2, <1>3, <1>4, DispatchFacts

-------------------------------------------------------------------------------
(***************************************************************************)
(* Types.                                                                  *)
(***************************************************************************)

\* The handler that runs, by its kind.
LEMMA HeadTypes ==
    ASSUME TypeOK, ready # <<>>
    PROVE  /\ Head(ready) \in HandlerSet
           /\ Tail(ready) \in Seq(HandlerSet)
           /\ Head(ready).kind = "fsm" => Head(ready).byte \in Bytes
           /\ Head(ready).kind \in {"activity", "dangling"} =>
                  Head(ready).byte \in Bytes /\ Head(ready).owner \in ActivityStates
<1>1. Head(ready) \in HandlerSet /\ Tail(ready) \in Seq(HandlerSet)
  BY HeadTailProperties DEF TypeOK
<1> QED
  BY <1>1 DEF HandlerSet

LEMMA TimerTypes == TypeOK => timer \in Timers /\ (timer # "none" => state \in TimerStates)
BY DEF TypeOK, Timers

LEMMA ReceiveTypes ==
    ASSUME TypeOK, NEW kind \in {"activity", "dangling"}, Runs(kind), Receive(kind)
    PROVE  TypeOK'
<1> DEFINE h == Head(ready)
<1>1. /\ ready # <<>>
      /\ Tail(ready) \in Seq(HandlerSet)
      /\ h.byte \in Bytes /\ h.owner \in ActivityStates
  BY HeadTypes DEF Runs
<1>2. CASE h.byte \in Handled[h.owner]
  <2>1. h.byte \in Events
    BY <1>1, <1>2, TableAssumption DEF Events
  <2>2. Dispatch(h.byte, Tail(ready), timer) /\ rx' \in Seq(Bytes)
    BY <1>2 DEF Receive, TypeOK
  <2> QED
    BY <1>1, <2>1, <2>2, TimerTypes, DispatchTypes
<1>3. CASE h.byte \notin Handled[h.owner]
  <2>1. /\ tx' = tx \o Replies[h.owner][h.byte]
        /\ reads' = Append(reads, Read(kind, h.owner))
        /\ ready' = Tail(ready)
        /\ UNCHANGED <<state, timer, activity, rx>>
    BY <1>3 DEF Receive
  <2>2. tx' \in Seq(Bytes)
    <3>1. Replies[h.owner][h.byte] \in Seq(Bytes)
      BY <1>1, TableAssumption
    <3>2. tx \in Seq(Bytes)
      BY DEF TypeOK
    <3>3. tx \o Replies[h.owner][h.byte] \in Seq(Bytes)
      BY <3>1, <3>2, ConcatProperties
    <3> QED
      BY <2>1, <3>3
  <2>3. reads' \in Seq(ReadSet)
    <3>1. Read(kind, h.owner) \in ReadSet
      BY <1>1 DEF Read, ReadSet
    <3>2. reads \in Seq(ReadSet)
      BY DEF TypeOK
    <3>3. Append(reads, Read(kind, h.owner)) \in Seq(ReadSet)
      BY <3>1, <3>2, AppendProperties
    <3> QED
      BY <2>1, <3>3
  <2> QED
    BY <1>1, <2>1, <2>2, <2>3 DEF TypeOK
<1> QED
  BY <1>2, <1>3

LEMMA ReadCompletesTypes ==
    ASSUME TypeOK, ReadCompletes
    PROVE  TypeOK'
<1> DEFINE r == Head(reads)
           queue == IF r.kind = "fsm" THEN Overwrite(ready, r.owner, Head(rx)) ELSE ready
<1>1. /\ r \in ReadSet /\ Tail(reads) \in Seq(ReadSet)
      /\ Head(rx) \in Bytes /\ Tail(rx) \in Seq(Bytes)
  BY HeadTailProperties DEF ReadCompletes, TypeOK
<1>2. queue \in Seq(HandlerSet)
  <2>1. r.kind = "fsm" => r.owner \in States
    BY <1>1 DEF ReadSet
  <2> QED
    BY <1>1, <2>1, OverwriteFacts DEF TypeOK
<1>3. Handler(r.kind, r.owner, Head(rx)) \in HandlerSet
  BY <1>1 DEF Handler, HandlerSet, ReadSet
<1>4. ready' = Append(queue, Handler(r.kind, r.owner, Head(rx)))
  BY DEF ReadCompletes
<1>5. ready' \in Seq(HandlerSet)
  BY <1>2, <1>3, <1>4
<1> QED
  BY <1>1, <1>5 DEF ReadCompletes, TypeOK

LEMMA HandleReadEvtTypes ==
    ASSUME TypeOK, HandleReadEvt
    PROVE  TypeOK'
<1>1. /\ ready # <<>>
      /\ Tail(ready) \in Seq(HandlerSet)
      /\ rx' = rx
  BY HeadTypes DEF HandleReadEvt, Runs
<1>2. CASE Head(ready).byte \in ControlBytes
  <2>1. Head(ready).byte \in Events
    BY <1>2 DEF Events
  <2>2. Dispatch(Head(ready).byte, Tail(ready), timer) /\ rx' \in Seq(Bytes)
    BY <1>1, <1>2 DEF HandleReadEvt, TypeOK
  <2> QED
    BY <1>1, <2>1, <2>2, TimerTypes, DispatchTypes
<1>3. CASE Head(ready).byte \notin ControlBytes
  BY <1>1, <1>3 DEF HandleReadEvt, TypeOK
<1> QED
  BY <1>2, <1>3

LEMMA HandleTypes ==
    ASSUME TypeOK, Handle
    PROVE  TypeOK'
<1>1. CASE HandleReadEvt
  BY <1>1, HandleReadEvtTypes
<1>2. CASE HandleReceive
  BY <1>2, ReceiveTypes DEF HandleReceive
<1>3. CASE HandleDangling
  <2>1. CASE Receive("dangling")
    BY <1>3, <2>1, ReceiveTypes DEF HandleDangling
  <2>2. CASE Halt(<<>>) /\ UNCHANGED rx
    <3>1. tx' \in Seq(Bytes)
      BY <2>2 DEF Halt, TypeOK
    <3> QED
      BY <2>2, <3>1, TableAssumption DEF Halt, TypeOK
  <2> QED
    BY <1>3, <2>1, <2>2 DEF HandleDangling
<1>4. CASE DispatchTimeout
  <2>1. ready # <<>> /\ rx' \in Seq(Bytes) /\ "Timeout" \in Events
    BY <1>4 DEF DispatchTimeout, Runs, TypeOK, Events
  <2>2. QueueLeft \in Seq(HandlerSet)
    BY <2>1, QueueLeftPops DEF Pops
  <2> QED
    BY <1>4, <2>1, <2>2, QueueLeftPops, DispatchTypes DEF DispatchTimeout
<1>5. CASE DispatchAborted
  <2>1. ready # <<>>
    BY <1>5 DEF DispatchAborted, Runs
  <2> QED
    BY <1>5, <2>1, QueueLeftPops DEF DispatchAborted, TypeOK, Pops, Timers
<1> QED
  BY <1>1, <1>2, <1>3, <1>4, <1>5 DEF Handle

LEMMA ActivityBeginsTypes ==
    ASSUME TypeOK, ActivityBegins
    PROVE  TypeOK'
<1>1. CASE ActivityCancel
  BY <1>1 DEF ActivityCancel, TypeOK, Stages
<1>2. CASE ActivityRead
  <2>1. Read("activity", state) \in ReadSet
    BY <1>2 DEF ActivityRead, TypeOK, Read, ReadSet
  <2>2. reads' \in Seq(ReadSet)
    BY <1>2, <2>1 DEF ActivityRead, TypeOK
  <2> QED
    BY <1>2, <2>2 DEF ActivityRead, TypeOK, Stages
<1> QED
  BY <1>1, <1>2 DEF ActivityBegins

LEMMA TimerExpiresTypes ==
    ASSUME TypeOK, TimerExpires
    PROVE  TypeOK'
<1>1. Handler("expired", state, "Timeout") \in HandlerSet
  BY DEF TimerExpires, TypeOK, Handler, HandlerSet
<1>2. ready' \in Seq(HandlerSet)
  BY <1>1 DEF TimerExpires, TypeOK
<1> QED
  BY <1>2 DEF TimerExpires, TypeOK

LEMMA CommandTypes ==
    ASSUME TypeOK, NEW c \in UserCommands \cup {"EndTest"}, Command(c)
    PROVE  TypeOK'
<1>1. c \in Events /\ rx' \in Seq(Bytes) /\ ready \in Seq(HandlerSet)
  BY DEF Command, Events, ControlBytes, TypeOK
<1> QED
  BY <1>1, TimerTypes, DispatchTypes DEF Command

LEMMA InitTypes == Init => TypeOK
<1> SUFFICES ASSUME Init PROVE TypeOK
  OBVIOUS
<1>1. Read("fsm", state) \in ReadSet
  BY TableAssumption DEF Init, Read, ReadSet
<1>2. reads \in Seq(ReadSet)
  BY <1>1 DEF Init
<1> QED
  BY <1>2, TableAssumption DEF Init, TypeOK

\* Whatever the table of the machine, BaseFSM keeps its types: an activity
\* exists exactly in the activity states and a timer runs only in the timer
\* states (BaseFSM.h, ActivityState and TimerBasedState).
THEOREM Types == Spec => []TypeOK
<1>1. TypeOK /\ [Next]_vars => TypeOK'
  <2> SUFFICES ASSUME TypeOK, [Next]_vars
               PROVE  TypeOK'
    OBVIOUS
  <2>1. CASE Arrive
    BY <2>1 DEF Arrive, TypeOK
  <2>2. CASE Transmit
    BY <2>2 DEF Transmit, TypeOK
  <2>3. CASE \E c \in UserCommands \cup {"EndTest"} : Room /\ Command(c) /\ Writable
    BY <2>3, CommandTypes
  <2>4. CASE UNCHANGED vars
    BY <2>4 DEF vars, TypeOK
  <2>5. CASE Step
    BY <2>5, ReadCompletesTypes, HandleTypes, ActivityBeginsTypes, TimerExpiresTypes DEF Step
  <2> QED
    BY <2>1, <2>2, <2>3, <2>4, <2>5 DEF Next
<1> QED
  BY <1>1, InitTypes, PTL DEF Spec

-------------------------------------------------------------------------------
(***************************************************************************)
(* The machine's own read.                                                 *)
(***************************************************************************)

\* A dispatch leaves no second read of the machine.
LEMMA DispatchOwnRead ==
    ASSUME TypeOK, OwnReadOnce,
           NEW event \in Events, NEW queue \in Seq(HandlerSet), NEW t \in Timers,
           t # "none" => state \in TimerStates,
           Dispatch(event, queue, t)
    PROVE  OwnReadOnce'
<1>1. CASE Moved
  BY <1>1 DEF Moved, OwnReadOnce, Read
<1>2. CASE Halted
  BY <1>2 DEF Halted, OwnReadOnce
<1>3. CASE Ignored(event, queue, t)
  BY <1>3 DEF Ignored, OwnReadOnce
<1> QED
  BY <1>1, <1>2, <1>3, DispatchFacts

\* Neither does a read that an activity arms.
LEMMA ArmedOwnRead ==
    ASSUME TypeOK, OwnReadOnce, NEW r \in ReadSet, r.kind # "fsm",
           reads' = Append(reads, r), state' = state
    PROVE  OwnReadOnce'
<1>1. /\ Len(reads) \in Nat
      /\ DOMAIN reads = 1..Len(reads)
      /\ DOMAIN reads' = 1..(Len(reads) + 1)
      /\ \A i \in 1..Len(reads) : reads'[i] = reads[i]
      /\ reads'[Len(reads) + 1] = r
  BY AppendProperties DEF TypeOK
<1>2. \A i \in DOMAIN reads' : reads'[i].kind = "fsm" => i \in DOMAIN reads
  BY <1>1
<1> QED
  BY <1>1, <1>2 DEF OwnReadOnce

LEMMA ReceiveOwnRead ==
    ASSUME TypeOK, OwnReadOnce, NEW kind \in {"activity", "dangling"}, Runs(kind), Receive(kind)
    PROVE  OwnReadOnce'
<1> DEFINE h == Head(ready)
<1>1. /\ ready # <<>>
      /\ Tail(ready) \in Seq(HandlerSet)
      /\ h.byte \in Bytes /\ h.owner \in ActivityStates
  BY HeadTypes DEF Runs
<1>2. CASE h.byte \in Handled[h.owner]
  <2>1. h.byte \in Events
    BY <1>1, <1>2, TableAssumption DEF Events
  <2>2. Dispatch(h.byte, Tail(ready), timer)
    BY <1>2 DEF Receive
  <2> QED
    BY <1>1, <2>1, <2>2, TimerTypes, DispatchOwnRead
<1>3. CASE h.byte \notin Handled[h.owner]
  <2>1. Read(kind, h.owner) \in ReadSet /\ Read(kind, h.owner).kind # "fsm"
    BY <1>1 DEF Read, ReadSet
  <2> QED
    BY <1>3, <2>1, ArmedOwnRead DEF Receive
<1> QED
  BY <1>2, <1>3

\* Whatever the table, there is never a second read of the machine, nor one of
\* a state that was left: exit() cancels all reads and entry() arms one
\* (BaseFSM.h:135-155).
THEOREM OwnRead == Spec => []OwnReadOnce
<1>1. Init => OwnReadOnce
  BY DEF Init, OwnReadOnce, Read
<1>2. TypeOK /\ OwnReadOnce /\ [Next]_vars => OwnReadOnce'
  <2> SUFFICES ASSUME TypeOK, OwnReadOnce, [Next]_vars
               PROVE  OwnReadOnce'
    OBVIOUS
  <2>1. CASE ReadCompletes
    <3>1. /\ reads' = Tail(reads) /\ state' = state
          /\ Len(reads) \in Nat /\ DOMAIN reads = 1..Len(reads)
          /\ Len(Tail(reads)) = Len(reads) - 1
          /\ Tail(reads) \in Seq(ReadSet)
          /\ \A i \in 1..Len(Tail(reads)) : Tail(reads)[i] = reads[i + 1]
      BY <2>1, HeadTailProperties, LenProperties DEF ReadCompletes, TypeOK
    <3>2. \A i \in DOMAIN reads' : i + 1 \in DOMAIN reads /\ reads'[i] = reads[i + 1]
      BY <3>1
    <3>3. DOMAIN reads' \subseteq Nat
      BY <3>1
    <3> QED
      BY <3>1, <3>2, <3>3 DEF OwnReadOnce
  <2>2. CASE HandleReadEvt
    <3>1. ready # <<>> /\ Tail(ready) \in Seq(HandlerSet)
      BY <2>2, HeadTypes DEF HandleReadEvt, Runs
    <3>2. CASE Head(ready).byte \in ControlBytes
      BY <2>2, <3>1, <3>2, TimerTypes, DispatchOwnRead DEF HandleReadEvt, Events
    <3>3. CASE Head(ready).byte \notin ControlBytes
      BY <2>2, <3>3 DEF HandleReadEvt, OwnReadOnce
    <3> QED
      BY <3>2, <3>3
  <2>3. CASE HandleReceive
    BY <2>3, ReceiveOwnRead DEF HandleReceive
  <2>4. CASE HandleDangling
    <3>1. CASE Halt(<<>>)
      BY <3>1 DEF Halt, OwnReadOnce
    <3> QED
      BY <2>4, <3>1, ReceiveOwnRead DEF HandleDangling
  <2>5. CASE DispatchTimeout
    <3>1. ready # <<>> /\ "Timeout" \in Events
      BY <2>5 DEF DispatchTimeout, Runs, Events
    <3>2. QueueLeft \in Seq(HandlerSet)
      BY <3>1, QueueLeftPops DEF Pops
    <3> QED
      BY <2>5, <3>1, <3>2, QueueLeftPops, DispatchOwnRead DEF DispatchTimeout
  <2>6. CASE DispatchAborted
    BY <2>6 DEF DispatchAborted, OwnReadOnce
  <2>7. CASE ActivityBegins
    <3>1. CASE ActivityCancel
      BY <3>1 DEF ActivityCancel, OwnReadOnce
    <3>2. CASE ActivityRead
      <4>1. Read("activity", state) \in ReadSet /\ Read("activity", state).kind # "fsm"
        BY <3>2 DEF ActivityRead, TypeOK, Read, ReadSet
      <4> QED
        BY <3>2, <4>1, ArmedOwnRead DEF ActivityRead
    <3> QED
      BY <2>7, <3>1, <3>2 DEF ActivityBegins
  <2>8. CASE TimerExpires
    BY <2>8 DEF TimerExpires, OwnReadOnce
  <2>9. CASE Arrive \/ Transmit
    BY <2>9 DEF Arrive, Transmit, OwnReadOnce
  <2>10. CASE \E c \in UserCommands \cup {"EndTest"} : Room /\ Command(c) /\ Writable
    <3>1. PICK c \in UserCommands \cup {"EndTest"} : Command(c)
      BY <2>10
    <3>2. c \in Events /\ ready \in Seq(HandlerSet)
      BY DEF Events, ControlBytes, TypeOK
    <3> QED
      BY <3>1, <3>2, TimerTypes, DispatchOwnRead DEF Command
  <2>11. CASE UNCHANGED vars
    BY <2>11 DEF vars, OwnReadOnce
  <2> QED
    BY <2>1, <2>2, <2>3, <2>4, <2>5, <2>6, <2>7, <2>8, <2>9, <2>10, <2>11
    DEF Next, Step, Handle
<1> QED
  BY <1>1, <1>2, Types, PTL DEF Spec

-------------------------------------------------------------------------------
(***************************************************************************)
(* The read loop of an activity: at most one, and at least one, read or    *)
(* handler of the activity that runs.                                      *)
(***************************************************************************)
LoopInv == LoopOnce /\ LoopAlive

\* What a dispatch that moves or ends the machine leaves is a fresh loop.
LEMMA MovedLoop ==
    ASSUME Moved \/ Halted
    PROVE  LoopInv'
<1>1. CASE Moved
  <2>1. ActivityHandlers' = {}
    BY <1>1 DEF Moved, ActivityHandlers
  <2>2. CASE reads' = <<Read("fsm", state')>> /\ activity' # "reading"
    <3>1. ActivityReads' = {}
      BY <2>2 DEF ActivityReads, Read
    <3> QED
      BY <2>1, <2>2, <3>1 DEF LoopInv, LoopOnce, LoopAlive
  <2>3. CASE /\ reads' = <<Read("activity", state'), Read("fsm", state')>>
             /\ activity' = "reading"
    <3>1. ActivityReads' = {1} /\ reads'[1].owner = state'
      BY <2>3 DEF ActivityReads, Read
    <3> QED
      BY <2>1, <2>3, <3>1 DEF LoopInv, LoopOnce, LoopAlive
  <2> QED
    BY <1>1, <2>2, <2>3 DEF Moved
<1>2. CASE Halted
  BY <1>2 DEF Halted, LoopInv, LoopOnce, LoopAlive, ActivityReads, ActivityHandlers
<1> QED
  BY <1>1, <1>2

\* A handler of another kind leaves the queue and no read of the activity is
\* armed or cancelled.
LEMMA PopLoop ==
    ASSUME TypeOK, LoopInv, ready # <<>>, Head(ready).kind # "activity",
           Pops(ready'), UNCHANGED <<state, activity>>,
           ActivityReads' = ActivityReads, \A i \in ActivityReads : reads'[i] = reads[i]
    PROVE  LoopInv'
<1>1. /\ DOMAIN ready = 1..Len(ready) /\ Len(ready) \in Nat
      /\ DOMAIN ready' = 1..Len(ready') /\ Len(ready') \in Nat
  BY DEF TypeOK, Pops
<1>2. 1 \notin ActivityHandlers
  BY DEF ActivityHandlers, TypeOK
<1>3. \A i \in ActivityHandlers' : i + 1 \in ActivityHandlers /\ ready'[i] = ready[i + 1]
  BY DEF ActivityHandlers, Pops
<1>4. \A j \in ActivityHandlers : j - 1 \in ActivityHandlers'
  BY <1>2 DEF ActivityHandlers, Pops
<1>5. ActivityReads' = ActivityReads /\ \A i \in ActivityReads : reads'[i] = reads[i]
  OBVIOUS
<1>6. ActivityHandlers' \subseteq Nat
  BY <1>1 DEF ActivityHandlers
<1>7. LoopOnce'
  <2>1. \A i \in ActivityHandlers' : ready'[i].owner = state' /\ activity' = "reading"
    BY <1>3 DEF LoopInv, LoopOnce
  <2>2. \A i, j \in ActivityHandlers' : i = j
    <3> SUFFICES ASSUME NEW i \in ActivityHandlers', NEW j \in ActivityHandlers'
                 PROVE  i = j
      OBVIOUS
    <3>1. i + 1 = j + 1
      BY <1>3 DEF LoopInv, LoopOnce
    <3> QED
      BY <1>6, <3>1
  <2>3. ActivityReads' = {} \/ ActivityHandlers' = {}
    BY <1>3, <1>5 DEF LoopInv, LoopOnce
  <2>4. /\ \A i \in ActivityReads' : reads'[i].owner = state' /\ activity' = "reading"
        /\ \A i, j \in ActivityReads' : i = j
    BY <1>5 DEF LoopInv, LoopOnce
  <2> QED
    BY <2>1, <2>2, <2>3, <2>4 DEF LoopOnce
<1>8. LoopAlive'
  BY <1>4, <1>5 DEF LoopInv, LoopAlive
<1> QED
  BY <1>7, <1>8 DEF LoopInv

\* A dispatch from a handler of another kind.
LEMMA DispatchLoop ==
    ASSUME TypeOK, LoopInv, ready # <<>>, Head(ready).kind # "activity",
           NEW event \in Events, NEW queue, Pops(queue), NEW t \in Timers,
           t # "none" => state \in TimerStates,
           Dispatch(event, queue, t)
    PROVE  LoopInv'
<1>1. queue \in Seq(HandlerSet)
  BY DEF Pops
<1>2. CASE Ignored(event, queue, t)
  <2>1. ActivityReads' = ActivityReads /\ \A i \in ActivityReads : reads'[i] = reads[i]
    BY <1>2 DEF Ignored, ActivityReads
  <2> QED
    BY <1>2, <2>1, PopLoop DEF Ignored, Pops
<1> QED
  BY <1>1, <1>2, DispatchFacts, MovedLoop

\* The handler of the running activity reads again, unless what it dispatches
\* moves the machine.
LEMMA ReceiveLoop ==
    ASSUME TypeOK, LoopInv, HandleReceive
    PROVE  LoopInv'
<1> DEFINE h == Head(ready)
<1>1. /\ ready # <<>>
      /\ h.kind = "activity"
      /\ Tail(ready) \in Seq(HandlerSet)
      /\ h.byte \in Bytes /\ h.owner \in ActivityStates
  BY HeadTypes DEF HandleReceive, Runs
<1>2. Len(ready) \in Nat \ {0} /\ DOMAIN ready = 1..Len(ready) /\ h = ready[1]
  BY <1>1, EmptySeq DEF TypeOK
<1>3. 1 \in ActivityHandlers
  BY <1>1, <1>2 DEF ActivityHandlers
<1>4. h.owner = state /\ activity = "reading" /\ ActivityReads = {} /\ ActivityHandlers = {1}
  BY <1>2, <1>3 DEF LoopInv, LoopOnce
<1>5. CASE h.byte \in Handled[h.owner]
  <2>1. h.byte \in Events
    BY <1>1, <1>5, TableAssumption DEF Events
  <2>2. Dispatch(h.byte, Tail(ready), timer)
    BY <1>5 DEF HandleReceive, Receive
  <2>3. ~Ignored(h.byte, Tail(ready), timer)
    BY <1>1, <1>4, <1>5, TableAssumption DEF Ignored, MovesOn
  <2> QED
    BY <1>1, <2>1, <2>2, <2>3, TimerTypes, DispatchFacts, MovedLoop
<1>6. CASE h.byte \notin Handled[h.owner]
  <2>1. /\ reads' = Append(reads, Read("activity", h.owner))
        /\ ready' = Tail(ready)
        /\ UNCHANGED <<state, activity>>
    BY <1>6 DEF HandleReceive, Receive
  <2>2. Read("activity", h.owner) \in ReadSet
    BY <1>1 DEF Read, ReadSet
  <2>3. /\ Len(reads) \in Nat
        /\ DOMAIN reads = 1..Len(reads)
        /\ DOMAIN reads' = 1..(Len(reads) + 1)
        /\ \A i \in 1..Len(reads) : reads'[i] = reads[i]
        /\ reads'[Len(reads) + 1] = Read("activity", h.owner)
    BY <2>1, <2>2, AppendProperties DEF TypeOK
  <2>4. ActivityReads' = {Len(reads) + 1}
    BY <1>4, <2>3 DEF ActivityReads, Read
  <2>5. ActivityHandlers' = {}
    <3>1. \A i \in DOMAIN ready' : i + 1 \in DOMAIN ready /\ ready'[i] = ready[i + 1] /\ i \in Nat \ {0}
      BY <1>1, <1>2, <2>1, HeadTailProperties DEF TypeOK
    <3> QED
      BY <1>4, <3>1 DEF ActivityHandlers
  <2>6. \A i \in ActivityReads' : reads'[i].owner = state'
    BY <1>4, <2>1, <2>3, <2>4 DEF Read
  <2> QED
    BY <1>4, <2>1, <2>4, <2>5, <2>6 DEF LoopInv, LoopOnce, LoopAlive
<1> QED
  BY <1>5, <1>6

\* Steps that append to the queue a handler of another kind.
LEMMA AppendLoop ==
    ASSUME TypeOK, LoopInv, NEW h \in HandlerSet, h.kind # "activity",
           ready' = Append(ready, h), UNCHANGED <<state, reads, activity>>
    PROVE  LoopInv'
<1>1. /\ Len(ready) \in Nat
      /\ DOMAIN ready = 1..Len(ready)
      /\ DOMAIN ready' = 1..(Len(ready) + 1)
      /\ \A i \in 1..Len(ready) : ready'[i] = ready[i]
      /\ ready'[Len(ready) + 1] = h
  BY AppendProperties DEF TypeOK
<1>2. ActivityHandlers' = ActivityHandlers /\ ActivityReads' = ActivityReads
  BY <1>1 DEF ActivityHandlers, ActivityReads
<1>3. \A i \in ActivityHandlers : ready'[i] = ready[i]
  BY <1>1 DEF ActivityHandlers
<1> QED
  BY <1>2, <1>3 DEF LoopInv, LoopOnce, LoopAlive

\* What a completed read does to both queues.
LEMMA ReadCompletesFacts ==
    ASSUME TypeOK, ReadCompletes
    PROVE  /\ DOMAIN reads' \subseteq Nat \ {0}
           /\ \A i \in DOMAIN reads' : i + 1 \in DOMAIN reads /\ reads'[i] = reads[i + 1]
           /\ \A j \in DOMAIN reads : j # 1 => j - 1 \in DOMAIN reads'
           /\ DOMAIN reads \subseteq Nat \ {0} /\ 1 \in DOMAIN reads
           /\ DOMAIN ready = 1..Len(ready) /\ Len(ready) \in Nat
           /\ DOMAIN ready' = 1..(Len(ready) + 1)
           /\ \A i \in 1..Len(ready) : /\ ready'[i].kind = ready[i].kind
                                       /\ ready'[i].owner = ready[i].owner
           /\ ready'[Len(ready) + 1].kind = reads[1].kind
           /\ ready'[Len(ready) + 1].owner = reads[1].owner
           /\ UNCHANGED <<state, timer, activity>>
<1> DEFINE r == Head(reads)
           h == Handler(r.kind, r.owner, Head(rx))
           queue == IF r.kind = "fsm" THEN Overwrite(ready, r.owner, Head(rx)) ELSE ready
<1>1. /\ r \in ReadSet /\ Head(rx) \in Bytes
      /\ reads # <<>> /\ reads \in Seq(ReadSet) /\ reads' = Tail(reads)
      /\ ready' = Append(queue, h)
      /\ ready \in Seq(HandlerSet)
  BY HeadTailProperties DEF ReadCompletes, TypeOK
<1>2. /\ Len(reads) \in Nat \ {0}
      /\ DOMAIN reads = 1..Len(reads)
      /\ r = reads[1]
      /\ DOMAIN reads' = 1..(Len(reads) - 1)
      /\ \A i \in 1..(Len(reads) - 1) : reads'[i] = reads[i + 1]
  BY <1>1, EmptySeq, HeadTailProperties, LenProperties
<1>3. /\ queue \in Seq(HandlerSet)
      /\ Len(queue) = Len(ready)
      /\ \A i \in 1..Len(ready) : /\ queue[i].kind = ready[i].kind
                                  /\ queue[i].owner = ready[i].owner
  <2>1. r.kind = "fsm" => r.owner \in States
    BY <1>1 DEF ReadSet
  <2> QED
    BY <1>1, <2>1, OverwriteFacts
<1>4. h \in HandlerSet /\ h.kind = r.kind /\ h.owner = r.owner
  BY <1>1 DEF Handler, HandlerSet, ReadSet
<1>5. /\ Len(ready) \in Nat
      /\ DOMAIN ready = 1..Len(ready)
      /\ DOMAIN ready' = 1..(Len(ready) + 1)
      /\ \A i \in 1..Len(ready) : ready'[i] = queue[i]
      /\ ready'[Len(ready) + 1] = h
  <2> HIDE DEF queue, h
  <2> QED
    BY <1>1, <1>3, <1>4, AppendProperties, LenProperties
<1>6. UNCHANGED <<state, timer, activity>>
  BY DEF ReadCompletes
<1> HIDE DEF queue, h, r
<1>7. /\ DOMAIN reads' \subseteq Nat \ {0}
      /\ \A i \in DOMAIN reads' : i + 1 \in DOMAIN reads /\ reads'[i] = reads[i + 1]
      /\ \A j \in DOMAIN reads : j # 1 => j - 1 \in DOMAIN reads'
      /\ DOMAIN reads \subseteq Nat \ {0} /\ 1 \in DOMAIN reads
  BY <1>2
<1>8. \A i \in 1..Len(ready) : /\ ready'[i].kind = ready[i].kind
                               /\ ready'[i].owner = ready[i].owner
  BY <1>3, <1>5
<1>9. /\ ready'[Len(ready) + 1].kind = reads[1].kind
      /\ ready'[Len(ready) + 1].owner = reads[1].owner
  BY <1>2, <1>4, <1>5
<1> QED
  BY <1>5, <1>6, <1>7, <1>8, <1>9

LEMMA ReadCompletesLoop ==
    ASSUME TypeOK, LoopInv, ReadCompletes
    PROVE  LoopInv'
<1> DEFINE last == Len(ready) + 1
<1>1. \A i \in ActivityReads' : i + 1 \in ActivityReads /\ i + 1 # 1 /\ reads'[i] = reads[i + 1]
  BY ReadCompletesFacts DEF ActivityReads
<1>2. \A i \in ActivityHandlers' : i # last => /\ i \in ActivityHandlers
                                               /\ ready'[i].owner = ready[i].owner
  BY ReadCompletesFacts DEF ActivityHandlers
<1>3. \A i \in ActivityHandlers : i \in ActivityHandlers' /\ i # last
  BY ReadCompletesFacts DEF ActivityHandlers
<1>4. CASE reads[1].kind = "activity"
  <2>1. 1 \in ActivityReads
    BY <1>4, ReadCompletesFacts DEF ActivityReads
  <2>2. /\ ActivityReads = {1} /\ ActivityHandlers = {}
        /\ reads[1].owner = state /\ activity = "reading"
    BY <2>1 DEF LoopInv, LoopOnce
  <2>3. ActivityReads' = {}
    BY <1>1, <2>2
  <2>4. ActivityHandlers' = {last}
    BY <1>2, <1>4, <2>2, ReadCompletesFacts DEF ActivityHandlers
  <2>5. ready'[last].owner = state' /\ activity' = "reading"
    BY <2>2, ReadCompletesFacts
  <2> QED
    BY <2>3, <2>4, <2>5 DEF LoopInv, LoopOnce, LoopAlive
<1>5. CASE reads[1].kind # "activity"
  <2>1. last \notin ActivityHandlers'
    BY <1>5, ReadCompletesFacts DEF ActivityHandlers
  <2>2. ActivityHandlers' = ActivityHandlers
    BY <1>2, <1>3, <2>1
  <2>3. \A j \in ActivityReads : j - 1 \in ActivityReads' /\ j \in Nat
    BY <1>5, ReadCompletesFacts DEF ActivityReads
  <2>4. \A i, j \in ActivityReads' : i = j
    <3> SUFFICES ASSUME NEW i \in ActivityReads', NEW j \in ActivityReads'
                 PROVE  i = j
      OBVIOUS
    <3>1. i + 1 = j + 1
      BY <1>1 DEF LoopInv, LoopOnce
    <3>2. i \in Nat /\ j \in Nat
      BY ReadCompletesFacts DEF ActivityReads
    <3> QED
      BY <3>1, <3>2
  <2>5. /\ \A i \in ActivityReads' : reads'[i].owner = state' /\ activity' = "reading"
        /\ \A i \in ActivityHandlers' : ready'[i].owner = state' /\ activity' = "reading"
    BY <1>1, <1>2, <2>1, ReadCompletesFacts DEF LoopInv, LoopOnce
  <2>6. ActivityReads' = {} \/ ActivityHandlers' = {}
    BY <1>1, <2>2 DEF LoopInv, LoopOnce
  <2>7. LoopOnce'
    BY <2>2, <2>4, <2>5, <2>6 DEF LoopInv, LoopOnce
  <2>8. LoopAlive'
    BY <2>2, <2>3, ReadCompletesFacts DEF LoopInv, LoopAlive
  <2> QED
    BY <2>7, <2>8 DEF LoopInv
<1> QED
  BY <1>4, <1>5

\* The handler of a deleted activity, should it find its memory intact.
LEMMA DanglingLoop ==
    ASSUME TypeOK, LoopInv, Runs("dangling"), Receive("dangling")
    PROVE  LoopInv'
<1> DEFINE h == Head(ready)
<1>1. /\ ready # <<>>
      /\ h.kind = "dangling"
      /\ h.byte \in Bytes /\ h.owner \in ActivityStates
  BY HeadTypes DEF Runs
<1>2. Pops(Tail(ready))
  BY <1>1, TailPops
<1>3. CASE h.byte \in Handled[h.owner]
  <2>1. h.byte \in Events
    BY <1>1, <1>3, TableAssumption DEF Events
  <2>2. Dispatch(h.byte, Tail(ready), timer)
    BY <1>3 DEF Receive
  <2> QED
    BY <1>1, <1>2, <2>1, <2>2, TimerTypes, DispatchLoop
<1>4. CASE h.byte \notin Handled[h.owner]
  <2>1. /\ reads' = Append(reads, Read("dangling", h.owner))
        /\ ready' = Tail(ready)
        /\ UNCHANGED <<state, activity>>
    BY <1>4 DEF Receive
  <2>2. Read("dangling", h.owner) \in ReadSet
    BY <1>1 DEF Read, ReadSet
  <2>3. /\ Len(reads) \in Nat
        /\ DOMAIN reads = 1..Len(reads)
        /\ DOMAIN reads' = 1..(Len(reads) + 1)
        /\ \A i \in 1..Len(reads) : reads'[i] = reads[i]
        /\ reads'[Len(reads) + 1].kind = "dangling"
    BY <2>1, <2>2, AppendProperties DEF TypeOK, Read
  <2>4. ActivityReads' = ActivityReads /\ \A i \in ActivityReads : reads'[i] = reads[i]
    BY <2>3 DEF ActivityReads
  <2> QED
    BY <1>1, <1>2, <2>1, <2>4, PopLoop
<1> QED
  BY <1>3, <1>4

\* The activity's thread comes to its first read.
LEMMA ActivityBeginsLoop ==
    ASSUME TypeOK, LoopInv, ActivityBegins
    PROVE  LoopInv'
<1>1. ActivityHandlers' = ActivityHandlers /\ ActivityHandlers = {} /\ ActivityReads = {}
  BY DEF ActivityBegins, ActivityCancel, ActivityRead, ActivityHandlers, ActivityReads,
         LoopInv, LoopOnce
<1>2. CASE ActivityCancel
  BY <1>1, <1>2 DEF ActivityCancel, ActivityReads, LoopInv, LoopOnce, LoopAlive
<1>3. CASE ActivityRead
  <2>1. Read("activity", state) \in ReadSet
    BY <1>3 DEF ActivityRead, TypeOK, Read, ReadSet
  <2>2. /\ Len(reads) \in Nat
        /\ DOMAIN reads = 1..Len(reads)
        /\ DOMAIN reads' = 1..(Len(reads) + 1)
        /\ \A i \in 1..Len(reads) : reads'[i] = reads[i]
        /\ reads'[Len(reads) + 1] = Read("activity", state)
    BY <1>3, <2>1, AppendProperties DEF ActivityRead, TypeOK
  <2>3. ActivityReads' = {Len(reads) + 1}
    BY <1>1, <2>2 DEF ActivityReads, Read
  <2>4. \A i \in ActivityReads' : reads'[i].owner = state' /\ activity' = "reading"
    BY <1>3, <2>2, <2>3 DEF ActivityRead, Read
  <2> QED
    BY <1>1, <2>3, <2>4 DEF LoopInv, LoopOnce, LoopAlive
<1> QED
  BY <1>2, <1>3 DEF ActivityBegins

\* A command from another thread, while any handler may be queued.
LEMMA CommandLoop ==
    ASSUME TypeOK, LoopInv, NEW c \in UserCommands \cup {"EndTest"}, Command(c)
    PROVE  LoopInv'
<1>1. c \in Events /\ ready \in Seq(HandlerSet) /\ Dispatch(c, ready, timer)
  BY DEF Command, Events, ControlBytes, TypeOK
<1>2. CASE Ignored(c, ready, timer)
  BY <1>2 DEF Ignored, LoopInv, LoopOnce, LoopAlive, ActivityReads, ActivityHandlers
<1> QED
  BY <1>1, <1>2, TimerTypes, DispatchFacts, MovedLoop

LEMMA LoopStep == TypeOK /\ LoopInv /\ [Next]_vars => LoopInv'
<1> SUFFICES ASSUME TypeOK, LoopInv, [Next]_vars
             PROVE  LoopInv'
  OBVIOUS
<1>1. CASE ReadCompletes
  BY <1>1, ReadCompletesLoop
<1>2. CASE HandleReadEvt
  <2>1. ready # <<>> /\ Head(ready).kind = "fsm" /\ Pops(Tail(ready))
    BY <1>2, TailPops DEF HandleReadEvt, Runs
  <2>2. CASE Head(ready).byte \in ControlBytes
    BY <1>2, <2>1, <2>2, TimerTypes, DispatchLoop DEF HandleReadEvt, Events
  <2>3. CASE Head(ready).byte \notin ControlBytes
    <3>1. ready' = Tail(ready) /\ UNCHANGED <<state, reads, activity>>
      BY <1>2, <2>3 DEF HandleReadEvt
    <3>2. ActivityReads' = ActivityReads /\ \A i \in ActivityReads : reads'[i] = reads[i]
      BY <3>1 DEF ActivityReads
    <3> QED
      BY <2>1, <3>1, <3>2, PopLoop
  <2> QED
    BY <2>2, <2>3
<1>3. CASE HandleReceive
  BY <1>3, ReceiveLoop
<1>4. CASE HandleDangling
  <2>1. CASE Halt(<<>>)
    BY <2>1, MovedLoop DEF Halt, Halted
  <2> QED
    BY <1>4, <2>1, DanglingLoop DEF HandleDangling
<1>5. CASE DispatchTimeout
  <2>1. ready # <<>> /\ Head(ready).kind = "expired" /\ "Timeout" \in Events
    BY <1>5 DEF DispatchTimeout, Runs, Events
  <2> QED
    BY <1>5, <2>1, QueueLeftPops, DispatchLoop DEF DispatchTimeout
<1>6. CASE DispatchAborted
  <2>1. ready # <<>> /\ Head(ready).kind = "aborted" /\ Pops(QueueLeft)
    BY <1>6, QueueLeftPops DEF DispatchAborted, Runs
  <2>2. ready' = QueueLeft /\ UNCHANGED <<state, reads, activity>>
    BY <1>6 DEF DispatchAborted
  <2>3. ActivityReads' = ActivityReads /\ \A i \in ActivityReads : reads'[i] = reads[i]
    BY <2>2 DEF ActivityReads
  <2>4. Pops(ready')
    BY <2>1, <2>2 DEF Pops
  <2> QED
    BY <2>1, <2>2, <2>3, <2>4, PopLoop
<1>7. CASE ActivityBegins
  BY <1>7, ActivityBeginsLoop
<1>8. CASE TimerExpires
  <2>1. /\ Handler("expired", state, "Timeout") \in HandlerSet
        /\ Handler("expired", state, "Timeout").kind # "activity"
    BY <1>8 DEF TimerExpires, TypeOK, Handler, HandlerSet
  <2> QED
    BY <1>8, <2>1, AppendLoop DEF TimerExpires
<1>9. CASE \E c \in UserCommands \cup {"EndTest"} : Room /\ Command(c) /\ Writable
  BY <1>9, CommandLoop
<1>10. CASE Arrive \/ Transmit \/ UNCHANGED vars
  BY <1>10 DEF Arrive, Transmit, vars, LoopInv, LoopOnce, LoopAlive,
               ActivityReads, ActivityHandlers
<1> QED
  BY <1>1, <1>2, <1>3, <1>4, <1>5, <1>6, <1>7, <1>8, <1>9, <1>10 DEF Next, Step, Handle

LEMMA LoopHolds == Spec => []LoopInv
<1>1. Init => LoopInv
  BY TableAssumption
  DEF Init, LoopInv, LoopOnce, LoopAlive, ActivityReads, ActivityHandlers, Read
<1> QED
  BY <1>1, LoopStep, Types, PTL DEF Spec

\* The read loop of an activity is never doubled, whichever of the machine's
\* read and the activity's gets a byte, and in whatever order exit(), the new
\* activity's thread and its handlers run (BaseFSM.h:84-103, handleReceive).
THEOREM Loop == Spec => []LoopOnce
<1>1. LoopInv => LoopOnce
  BY DEF LoopInv
<1> QED
  BY <1>1, LoopHolds, PTL

\* It does not die out while the machine is in the activity: every event that
\* makes the handler return without reading again moves the machine
\* (MasterPinger.cpp:122-130, RemotePinger.cpp, and their like).
THEOREM Alive == Spec => []LoopAlive
<1>1. LoopInv => LoopAlive
  BY DEF LoopInv
<1> QED
  BY <1>1, LoopHolds, PTL

-------------------------------------------------------------------------------
(***************************************************************************)
(* Retries.                                                                *)
(***************************************************************************)

\* A dispatch, when what is left of the timer is still awaited in the queue.
LEMMA DispatchExpiry ==
    ASSUME TypeOK, NEW event \in Events, NEW queue \in Seq(HandlerSet), NEW t \in Timers,
           t # "none" => state \in TimerStates,
           t = "expired" => \E i \in DOMAIN queue :
                                queue[i].kind = "expired" /\ queue[i].owner = state,
           Dispatch(event, queue, t)
    PROVE  ExpiryPending'
<1>1. CASE Moved
  BY <1>1 DEF Moved, ExpiryPending
<1>2. CASE Halted
  BY <1>2 DEF Halted, ExpiryPending
<1>3. CASE Ignored(event, queue, t)
  BY <1>3 DEF Ignored, ExpiryPending
<1> QED
  BY <1>1, <1>2, <1>3, DispatchFacts

\* What is awaited is not the handler at the head, if that is of another kind
\* or of another state.
LEMMA PopExpiry ==
    ASSUME TypeOK, ExpiryPending, timer = "expired", ready # <<>>,
           Head(ready).kind # "expired" \/ Head(ready).owner # state,
           NEW q, Pops(q)
    PROVE  \E i \in DOMAIN q : q[i].kind = "expired" /\ q[i].owner = state
<1>1. PICK j \in DOMAIN ready : ready[j].kind = "expired" /\ ready[j].owner = state
  BY DEF ExpiryPending
<1>2. j # 1
  BY <1>1 DEF TypeOK
<1> QED
  BY <1>1, <1>2 DEF Pops

LEMMA ReceiveExpiry ==
    ASSUME TypeOK, ExpiryPending, NEW kind \in {"activity", "dangling"}, Runs(kind), Receive(kind)
    PROVE  ExpiryPending'
<1> DEFINE h == Head(ready)
<1>1. /\ ready # <<>> /\ h.kind # "expired"
      /\ Tail(ready) \in Seq(HandlerSet)
      /\ h.byte \in Bytes /\ h.owner \in ActivityStates
      /\ Pops(Tail(ready))
  BY HeadTypes, TailPops DEF Runs
<1>2. timer = "expired" => \E i \in DOMAIN Tail(ready) :
                              Tail(ready)[i].kind = "expired" /\ Tail(ready)[i].owner = state
  BY <1>1, PopExpiry
<1>3. CASE h.byte \in Handled[h.owner]
  <2>1. h.byte \in Events
    BY <1>1, <1>3, TableAssumption DEF Events
  <2>2. Dispatch(h.byte, Tail(ready), timer)
    BY <1>3 DEF Receive
  <2> QED
    BY <1>1, <1>2, <2>1, <2>2, TimerTypes, DispatchExpiry
<1>4. CASE h.byte \notin Handled[h.owner]
  BY <1>2, <1>4 DEF Receive, ExpiryPending
<1> QED
  BY <1>3, <1>4

\* An expired timer always has its handler queued, so the retry it stands for
\* takes place: handlers of older timers may delete a timer that still runs,
\* never one that has expired (BaseFSM.h:256-266).
THEOREM Expiry == Spec => []ExpiryPending
<1>1. Init => ExpiryPending
  BY DEF Init, ExpiryPending
<1>2. TypeOK /\ ExpiryPending /\ [Next]_vars => ExpiryPending'
  <2> SUFFICES ASSUME TypeOK, ExpiryPending, [Next]_vars
               PROVE  ExpiryPending'
    OBVIOUS
  <2>1. CASE ReadCompletes
    BY <2>1, ReadCompletesFacts DEF ExpiryPending
  <2>2. CASE HandleReadEvt
    <3>1. /\ ready # <<>> /\ Head(ready).kind = "fsm"
          /\ Pops(Tail(ready)) /\ Tail(ready) \in Seq(HandlerSet)
      BY <2>2, TailPops, HeadTypes DEF HandleReadEvt, Runs
    <3>2. timer = "expired" => \E i \in DOMAIN Tail(ready) :
                                  Tail(ready)[i].kind = "expired" /\ Tail(ready)[i].owner = state
      BY <3>1, PopExpiry
    <3>3. CASE Head(ready).byte \in ControlBytes
      BY <2>2, <3>1, <3>2, <3>3, TimerTypes, DispatchExpiry DEF HandleReadEvt, Events
    <3>4. CASE Head(ready).byte \notin ControlBytes
      BY <2>2, <3>2, <3>4 DEF HandleReadEvt, ExpiryPending
    <3> QED
      BY <3>3, <3>4
  <2>3. CASE HandleReceive
    BY <2>3, ReceiveExpiry DEF HandleReceive
  <2>4. CASE HandleDangling
    <3>1. CASE Halt(<<>>)
      BY <3>1 DEF Halt, ExpiryPending
    <3> QED
      BY <2>4, <3>1, ReceiveExpiry DEF HandleDangling
  <2>5. CASE DispatchTimeout
    <3>1. /\ ready # <<>> /\ "Timeout" \in Events
          /\ Pops(QueueLeft) /\ QueueLeft \in Seq(HandlerSet)
      BY <2>5, QueueLeftPops DEF DispatchTimeout, Runs, Events, Pops
    <3>2. TimerLeft = "expired" => \E i \in DOMAIN QueueLeft :
                                      QueueLeft[i].kind = "expired" /\ QueueLeft[i].owner = state
      BY <3>1, PopExpiry DEF TimerLeft
    <3> QED
      BY <2>5, <3>1, <3>2, QueueLeftPops, DispatchExpiry DEF DispatchTimeout
  <2>6. CASE DispatchAborted
    <3>1. ready # <<>> /\ Pops(QueueLeft)
      BY <2>6, QueueLeftPops DEF DispatchAborted, Runs
    <3>2. TimerLeft = "expired" => \E i \in DOMAIN QueueLeft :
                                      QueueLeft[i].kind = "expired" /\ QueueLeft[i].owner = state
      BY <3>1, PopExpiry DEF TimerLeft
    <3> QED
      BY <2>6, <3>2 DEF DispatchAborted, ExpiryPending
  <2>7. CASE ActivityBegins
    BY <2>7 DEF ActivityBegins, ActivityCancel, ActivityRead, ExpiryPending
  <2>8. CASE TimerExpires
    <3>1. Handler("expired", state, "Timeout") \in HandlerSet
      BY <2>8 DEF TimerExpires, TypeOK, Handler, HandlerSet
    <3>2. /\ Len(ready) + 1 \in DOMAIN ready'
          /\ ready'[Len(ready) + 1] = Handler("expired", state, "Timeout")
      BY <2>8, <3>1, AppendProperties, LenProperties DEF TimerExpires, TypeOK
    <3> QED
      BY <2>8, <3>2 DEF TimerExpires, ExpiryPending, Handler
  <2>9. CASE \E c \in UserCommands \cup {"EndTest"} : Room /\ Command(c) /\ Writable
    <3>1. PICK c \in UserCommands \cup {"EndTest"} : Command(c)
      BY <2>9
    <3>2. c \in Events /\ ready \in Seq(HandlerSet)
      BY DEF Events, ControlBytes, TypeOK
    <3> QED
      BY <3>1, <3>2, TimerTypes, DispatchExpiry DEF Command, ExpiryPending
  <2>10. CASE Arrive \/ Transmit \/ UNCHANGED vars
    BY <2>10 DEF Arrive, Transmit, vars, ExpiryPending
  <2> QED
    BY <2>1, <2>2, <2>3, <2>4, <2>5, <2>6, <2>7, <2>8, <2>9, <2>10 DEF Next, Step, Handle
<1> QED
  BY <1>1, <1>2, Types, PTL DEF Spec

-------------------------------------------------------------------------------
(***************************************************************************)
(* What a step leaves of the handlers that carry bytes, and what it sends: *)
(* for proofs about machines that talk to each other.                      *)
(***************************************************************************)

Carriers == {"fsm", "activity", "results"}

\* The queue q holds no byte but those of ready without its first d handlers.
Leaves(q, d) ==
    /\ q \in Seq(HandlerSet)
    /\ \A i \in DOMAIN q :
           q[i].kind \in Carriers => i + d \in DOMAIN ready /\ q[i] = ready[i + d]

LEMMA PopsLeaves == ASSUME NEW q, Pops(q) PROVE Leaves(q, 1)
BY DEF Pops, Leaves, Carriers

\* The queue after a dispatch that moves the machine.
LEMMA MoveLeaves ==
    ASSUME NEW q, NEW d \in {0, 1}, Leaves(q, d), NEW t \in Timers,
           t # "none" => state \in TimerStates
    PROVE  Leaves(Orphan(q) \o Cancelled(t, state), d)
<1> DEFINE o == Orphan(q)
           c == Cancelled(t, state)
<1>1. /\ q \in Seq(HandlerSet) /\ o \in Seq(HandlerSet) /\ c \in Seq(HandlerSet)
      /\ \A i \in DOMAIN c : c[i].kind = "aborted"
  BY OrphanFacts, CancelledFacts DEF Leaves
<1>2. /\ DOMAIN q = 1..Len(q) /\ DOMAIN o = DOMAIN q
      /\ Len(q) \in Nat /\ Len(c) \in Nat /\ DOMAIN c = 1..Len(c)
  BY <1>1 DEF Orphan
<1>3. Len(o) = Len(q)
  BY <1>1, <1>2
<1>4. \A i \in DOMAIN q : o[i].kind \in Carriers => o[i] = q[i]
  <2> SUFFICES ASSUME NEW i \in DOMAIN q, o[i].kind \in Carriers
               PROVE  o[i] = q[i]
    OBVIOUS
  <2>1. q[i] \in HandlerSet
    BY <1>1
  <2>2. q[i].kind # "activity"
    BY <1>1, OrphanFacts, <1>2, <2>1 DEF Orphan, HandlerSet, Carriers
  <2> QED
    BY <2>2 DEF Orphan
<1>5. /\ o \o c \in Seq(HandlerSet)
      /\ DOMAIN (o \o c) = 1..(Len(q) + Len(c))
      /\ \A i \in 1..(Len(q) + Len(c)) :
             (o \o c)[i] = IF i <= Len(q) THEN o[i] ELSE c[i - Len(q)]
  <2> HIDE DEF o, c
  <2>1. Len(o) \in Nat /\ DOMAIN o = 1..Len(o)
    BY <1>2, <1>3
  <2>2. /\ o \o c \in Seq(HandlerSet)
        /\ DOMAIN (o \o c) = 1..(Len(o) + Len(c))
        /\ \A i \in 1..(Len(o) + Len(c)) :
               (o \o c)[i] = IF i <= Len(o) THEN o[i] ELSE c[i - Len(o)]
    BY <1>1, <1>2, <2>1, ConcatProperties, LenProperties
  <2> QED
    BY <1>3, <2>2
<1> DEFINE p == o \o c
<1> HIDE DEF o, c, p
<1>6. p \in Seq(HandlerSet) /\ DOMAIN p = 1..(Len(q) + Len(c))
  BY <1>5 DEF p
<1>7. \A i \in DOMAIN p : p[i].kind \in Carriers => i \in DOMAIN q /\ p[i] = q[i]
  <2> SUFFICES ASSUME NEW i \in DOMAIN p, p[i].kind \in Carriers
               PROVE  i \in DOMAIN q /\ p[i] = q[i]
    OBVIOUS
  <2>1. CASE i <= Len(q)
    <3>1. i \in DOMAIN q /\ p[i] = o[i]
      BY <1>2, <1>5, <1>6, <2>1 DEF p
    <3> QED
      BY <1>4, <3>1
  <2>2. CASE ~(i <= Len(q))
    <3>1. i - Len(q) \in DOMAIN c /\ p[i] = c[i - Len(q)]
      BY <1>2, <1>5, <1>6, <2>2 DEF p
    <3> QED
      BY <1>1, <3>1 DEF Carriers
  <2> QED
    BY <2>1, <2>2
<1>8. Leaves(p, d)
  BY <1>6, <1>7 DEF Leaves
<1> QED
  BY <1>8 DEF p, o, c

\* A transition of the table takes place: the thread of the activity that was
\* left has ended, and entry() and the case of react() have sent their bytes.
MovesBy(event) ==
    \E m \in MovesOn(event) :
        /\ state' = m.to
        /\ state \in ActivityStates => activity \in JoinAt[state]
        /\ tx' = tx \o m.sends \o EntryBytes[m.to]

Quits == Halted /\ tx' = tx \o <<"EndTest">>

Stays == UNCHANGED <<state, activity, tx>>

LEMMA DispatchEffect ==
    ASSUME TypeOK, NEW event \in Events, NEW queue, NEW d \in {0, 1}, Leaves(queue, d),
           NEW t \in Timers, t # "none" => state \in TimerStates,
           Dispatch(event, queue, t)
    PROVE  \/ MovesBy(event) /\ Moved /\ Leaves(ready', d)
           \/ event = "EndTest" /\ Quits
           \/ Stays /\ UNCHANGED reads /\ Leaves(ready', d)
<1>1. CASE event = "EndTest" /\ Halt(<<"EndTest">>)
  BY <1>1 DEF Halt, Halted, Quits
<1>2. CASE event # "EndTest" /\ \E m \in MovesOn(event) : Transit(m.to, queue, m.sends, t)
  <2>1. PICK m \in MovesOn(event) : Transit(m.to, queue, m.sends, t)
    BY <1>2
  <2>2. MovesBy(event)
    BY <2>1 DEF Transit, MovesBy
  <2>3. Leaves(ready', d)
    <3>1. ready' = Orphan(queue) \o Cancelled(t, state)
      BY <2>1 DEF Transit
    <3>2. Leaves(Orphan(queue) \o Cancelled(t, state), d)
      BY MoveLeaves
    <3> QED
      BY <3>1, <3>2 DEF Leaves
  <2>4. Moved
    <3>1. queue \in Seq(HandlerSet)
      BY DEF Leaves
    <3>2. ~Halted
      BY <2>1, TableAssumption DEF Halted, Transit, MovesOn
    <3>3. ~Ignored(event, queue, t)
      BY <2>1 DEF Ignored
    <3> QED
      BY <3>1, <3>2, <3>3, DispatchFacts
  <2> QED
    BY <2>2, <2>3, <2>4
<1>3. CASE ready' = queue /\ UNCHANGED <<state, reads, activity, tx>>
  BY <1>3 DEF Stays, Leaves
<1> QED
  BY <1>1, <1>2, <1>3 DEF Dispatch

\* A read, and the handler of an activity, belong to the state the machine is in,
\* unless the handler's activity was deleted.
Owned ==
    /\ \A i \in DOMAIN reads : reads[i].kind # "dangling" => reads[i].owner = state
    /\ \A i \in DOMAIN ready : ready[i].kind = "activity" => ready[i].owner = state

Effect(event, d) ==
    \/ MovesBy(event) /\ Moved /\ Leaves(ready', d)
    \/ event = "EndTest" /\ Quits
    \/ Stays /\ UNCHANGED reads /\ Leaves(ready', d)

\* The read handler of the activity answers and reads again.
Answers ==
    /\ state \in ActivityStates
    /\ UNCHANGED <<state, activity>>
    /\ tx' = tx \o Replies[state][Head(ready).byte]
    /\ reads' = Append(reads, Read("activity", state))
    /\ Leaves(ready', 1)

\* What a handler does, one of a deleted activity excepted.
LEMMA HandleEffect ==
    ASSUME TypeOK, Owned, Handle, ~Runs("dangling")
    PROVE  /\ ready # <<>> /\ state # "Exited" /\ rx' = rx
           /\ \/ /\ Head(ready).kind \in {"fsm", "activity"}
                 /\ Head(ready).byte \in ControlBytes
                 /\ Head(ready).kind = "activity" =>
                       state \in ActivityStates /\ Head(ready).byte \in Handled[state]
                 /\ Effect(Head(ready).byte, 1)
              \/ Head(ready).kind = "expired" /\ Effect("Timeout", 1)
              \/ Head(ready).kind = "activity" /\ Answers
              \/ Stays /\ UNCHANGED reads /\ Leaves(ready', 1)
<1> DEFINE h == Head(ready)
<1>1. ready # <<>> /\ state # "Exited" /\ rx' = rx
  BY DEF Handle, HandleReadEvt, HandleReceive, HandleDangling, DispatchTimeout, DispatchAborted,
         Runs, Receive
<1>2. Pops(Tail(ready)) /\ Leaves(Tail(ready), 1) /\ 1 \in {0, 1}
  BY <1>1, TailPops, PopsLeaves
<1>3. CASE HandleReadEvt
  <2>1. h.kind = "fsm"
    BY <1>3 DEF HandleReadEvt, Runs
  <2>2. CASE h.byte \in ControlBytes
    <3>1. Dispatch(h.byte, Tail(ready), timer) /\ h.byte \in Events
      BY <1>3, <2>2 DEF HandleReadEvt, Events
    <3>2. Effect(h.byte, 1)
      BY <1>2, <3>1, TimerTypes, DispatchEffect DEF Effect
    <3> QED
      BY <1>1, <2>1, <2>2, <3>2
  <2>3. CASE h.byte \notin ControlBytes
    BY <1>1, <1>2, <1>3, <2>3 DEF HandleReadEvt, Stays, Leaves
  <2> QED
    BY <2>2, <2>3
<1>4. CASE HandleReceive
  <2>1. h.kind = "activity" /\ h.owner \in ActivityStates /\ h.byte \in Bytes
    BY <1>1, <1>4, HeadTypes DEF HandleReceive, Runs
  <2>2. h.owner = state
    <3>1. 1 \in DOMAIN ready /\ h = ready[1]
      BY <1>1, EmptySeq DEF TypeOK
    <3> QED
      BY <2>1, <3>1 DEF Owned
  <2>3. CASE h.byte \in Handled[h.owner]
    <3>1. Dispatch(h.byte, Tail(ready), timer) /\ h.byte \in ControlBytes
      BY <1>4, <2>1, <2>3, TableAssumption DEF HandleReceive, Receive
    <3>2. h.byte \in Events
      BY <3>1 DEF Events
    <3>3. Effect(h.byte, 1)
      BY <1>2, <3>1, <3>2, TimerTypes, DispatchEffect DEF Effect
    <3> QED
      BY <1>1, <2>1, <2>2, <2>3, <3>1, <3>3
  <2>4. CASE h.byte \notin Handled[h.owner]
    <3>1. /\ tx' = tx \o Replies[h.owner][h.byte]
          /\ reads' = Append(reads, Read("activity", h.owner))
          /\ ready' = Tail(ready)
          /\ UNCHANGED <<state, timer, activity>>
      BY <1>4, <2>4 DEF HandleReceive, Receive
    <3>2. Leaves(ready', 1)
      BY <1>2, <3>1 DEF Leaves
    <3> QED
      BY <1>1, <2>1, <2>2, <3>1, <3>2 DEF Answers
  <2> QED
    BY <2>3, <2>4
<1>5. CASE DispatchTimeout
  <2>1. h.kind = "expired" /\ Dispatch("Timeout", QueueLeft, TimerLeft) /\ "Timeout" \in Events
    BY <1>5 DEF DispatchTimeout, Runs, Events
  <2>2. /\ Pops(QueueLeft) /\ TimerLeft \in Timers
        /\ TimerLeft # "none" => state \in TimerStates
    BY <1>1, QueueLeftPops
  <2>3. Leaves(QueueLeft, 1)
    BY <2>2, PopsLeaves
  <2>4. Effect("Timeout", 1)
    BY <1>2, <2>1, <2>2, <2>3, DispatchEffect DEF Effect
  <2> QED
    BY <1>1, <2>1, <2>4
<1>6. CASE DispatchAborted
  <2>1. Pops(QueueLeft)
    BY <1>1, QueueLeftPops
  <2>2. Leaves(QueueLeft, 1)
    BY <2>1, PopsLeaves
  <2>3. ready' = QueueLeft /\ UNCHANGED <<state, reads, activity, tx>>
    BY <1>6 DEF DispatchAborted
  <2> QED
    BY <1>1, <2>2, <2>3 DEF Stays, Leaves
<1>7. ~HandleDangling
  BY DEF HandleDangling
<1> QED
  BY <1>3, <1>4, <1>5, <1>6, <1>7 DEF Handle

\* A completed read, byte by byte.
LEMMA ReadEffect ==
    ASSUME TypeOK, ReadCompletes
    PROVE  /\ reads # <<>> /\ reads' = Tail(reads) /\ Head(reads) \in ReadSet
           /\ Head(reads).kind # "results"
           /\ rx # <<>> /\ rx' = Tail(rx) /\ Head(rx) \in Bytes
           /\ UNCHANGED <<state, timer, activity, tx>>
           /\ DOMAIN ready' = 1..(Len(ready) + 1)
           /\ \A i \in DOMAIN ready' :
                 \/ /\ i \in DOMAIN ready
                    /\ ready'[i].kind = ready[i].kind
                    /\ ready'[i].owner = ready[i].owner
                    /\ IF /\ Head(reads).kind = "fsm" /\ ready[i].kind = "fsm"
                          /\ Head(reads).owner = ready[i].owner
                       THEN ready'[i].byte = Head(rx)
                       ELSE ready'[i] = ready[i]
                 \/ /\ i = Len(ready) + 1
                    /\ ready'[i] = Handler(Head(reads).kind, Head(reads).owner, Head(rx))
<1> DEFINE r == Head(reads)
           b == Head(rx)
           h == Handler(r.kind, r.owner, b)
           q == IF r.kind = "fsm" THEN Overwrite(ready, r.owner, b) ELSE ready
<1>1. /\ reads # <<>> /\ reads' = Tail(reads) /\ r \in ReadSet /\ r.kind # "results"
      /\ rx # <<>> /\ rx' = Tail(rx) /\ b \in Bytes
      /\ UNCHANGED <<state, timer, activity, tx>>
      /\ ready' = Append(q, h)
      /\ ready \in Seq(HandlerSet) /\ Len(ready) \in Nat /\ DOMAIN ready = 1..Len(ready)
  BY HeadTailProperties DEF ReadCompletes, TypeOK
<1>2. r.kind = "fsm" => r.owner \in States
  BY <1>1 DEF ReadSet
<1>3. q \in Seq(HandlerSet) /\ Len(q) = Len(ready) /\ DOMAIN q = DOMAIN ready
  <2>1. q \in Seq(HandlerSet) /\ Len(q) = Len(ready)
    BY <1>1, <1>2, OverwriteFacts
  <2> QED
    BY <1>1, <2>1
<1>4. \A i \in DOMAIN ready :
          /\ q[i].kind = ready[i].kind
          /\ q[i].owner = ready[i].owner
          /\ IF r.kind = "fsm" /\ ready[i].kind = "fsm" /\ r.owner = ready[i].owner
             THEN q[i].byte = b ELSE q[i] = ready[i]
  <2> SUFFICES ASSUME NEW i \in DOMAIN ready
               PROVE  /\ q[i].kind = ready[i].kind
                      /\ q[i].owner = ready[i].owner
                      /\ IF r.kind = "fsm" /\ ready[i].kind = "fsm" /\ r.owner = ready[i].owner
                         THEN q[i].byte = b ELSE q[i] = ready[i]
    OBVIOUS
  <2>1. ready[i] \in HandlerSet
    BY <1>1
  <2>2. CASE r.kind = "fsm" /\ ready[i].kind = "fsm" /\ r.owner = ready[i].owner
    <3>1. q[i] = [ready[i] EXCEPT !.byte = b]
      BY <2>2 DEF Overwrite
    <3>2. \A x \in HandlerSet : x.kind = "fsm" => /\ [x EXCEPT !.byte = b].kind = x.kind
                                                  /\ [x EXCEPT !.byte = b].owner = x.owner
                                                  /\ [x EXCEPT !.byte = b].byte = b
      BY DEF HandlerSet
    <3> QED
      BY <2>1, <2>2, <3>1, <3>2
  <2>3. CASE ~(r.kind = "fsm" /\ ready[i].kind = "fsm" /\ r.owner = ready[i].owner)
    <3>1. q[i] = ready[i]
      BY <2>3 DEF Overwrite
    <3> QED
      BY <2>3, <3>1
  <2> QED
    BY <2>2, <2>3
<1>5. /\ DOMAIN ready' = 1..(Len(ready) + 1)
      /\ \A i \in 1..Len(ready) : ready'[i] = q[i]
      /\ ready'[Len(ready) + 1] = h
  <2>1. h \in HandlerSet
    BY <1>1 DEF Handler, HandlerSet, ReadSet
  <2> HIDE DEF q, h
  <2> QED
    BY <1>1, <1>3, <2>1, AppendProperties, LenProperties
<1> HIDE DEF q
<1>6. \A i \in DOMAIN ready' : i \in DOMAIN ready \/ i = Len(ready) + 1
  BY <1>1, <1>5
<1> QED
  BY <1>1, <1>4, <1>5, <1>6

\* Who owns what after a dispatch.
LEMMA DispatchOwned ==
    ASSUME TypeOK, Owned, NEW event \in Events, NEW queue \in Seq(HandlerSet),
           \A i \in DOMAIN queue : queue[i].kind = "activity" => queue[i].owner = state,
           NEW t \in Timers, t # "none" => state \in TimerStates,
           Dispatch(event, queue, t)
    PROVE  Owned'
<1>1. CASE Moved
  <2>1. \A i \in DOMAIN reads' : reads'[i].owner = state'
    BY <1>1 DEF Moved, Read
  <2> QED
    BY <1>1, <2>1 DEF Moved, Owned
<1>2. CASE Halted
  BY <1>2 DEF Halted, Owned
<1>3. CASE Ignored(event, queue, t)
  BY <1>3 DEF Ignored, Owned
<1> QED
  BY <1>1, <1>2, <1>3, DispatchFacts

LEMMA PopsOwned ==
    ASSUME Owned, NEW q, Pops(q)
    PROVE  \A i \in DOMAIN q : q[i].kind = "activity" => q[i].owner = state
BY DEF Owned, Pops

\* An activity reads again.
LEMMA AgainOwned ==
    ASSUME TypeOK, Owned, NEW kind, NEW owner, Read(kind, owner) \in ReadSet,
           kind = "dangling" \/ owner = state,
           reads' = Append(reads, Read(kind, owner)), state' = state,
           \A i \in DOMAIN ready' : ready'[i].kind = "activity" => ready'[i].owner = state
    PROVE  Owned'
<1>1. /\ DOMAIN reads' = 1..(Len(reads) + 1)
      /\ DOMAIN reads = 1..Len(reads) /\ Len(reads) \in Nat
      /\ \A i \in 1..Len(reads) : reads'[i] = reads[i]
      /\ reads'[Len(reads) + 1] = Read(kind, owner)
  BY AppendProperties DEF TypeOK
<1>2. \A i \in DOMAIN reads' : reads'[i].kind # "dangling" => reads'[i].owner = state
  BY <1>1 DEF Owned, Read
<1> QED
  BY <1>2 DEF Owned

LEMMA ReceiveOwned ==
    ASSUME TypeOK, Owned, NEW kind \in {"activity", "dangling"}, Runs(kind), Receive(kind)
    PROVE  Owned'
<1> DEFINE h == Head(ready)
<1>1. /\ ready # <<>> /\ h = ready[1] /\ 1 \in DOMAIN ready
      /\ Tail(ready) \in Seq(HandlerSet) /\ Pops(Tail(ready))
      /\ h.kind = kind /\ h.byte \in Bytes /\ h.owner \in ActivityStates
  BY HeadTypes, TailPops, EmptySeq DEF Runs, TypeOK
<1>2. \A i \in DOMAIN Tail(ready) :
          Tail(ready)[i].kind = "activity" => Tail(ready)[i].owner = state
  BY <1>1, PopsOwned
<1>3. CASE h.byte \in Handled[h.owner]
  <2>1. h.byte \in Events
    BY <1>1, <1>3, TableAssumption DEF Events
  <2>2. Dispatch(h.byte, Tail(ready), timer)
    BY <1>3 DEF Receive
  <2> QED
    BY <1>1, <1>2, <2>1, <2>2, TimerTypes, DispatchOwned
<1>4. CASE h.byte \notin Handled[h.owner]
  <2>1. /\ reads' = Append(reads, Read(kind, h.owner))
        /\ ready' = Tail(ready)
        /\ state' = state
    BY <1>4 DEF Receive
  <2>2. Read(kind, h.owner) \in ReadSet
    BY <1>1 DEF Read, ReadSet
  <2>3. kind = "dangling" \/ h.owner = state
    BY <1>1 DEF Owned
  <2> QED
    BY <1>2, <2>1, <2>2, <2>3, AgainOwned
<1> QED
  BY <1>3, <1>4

LEMMA HandleOwned ==
    ASSUME TypeOK, Owned, Handle
    PROVE  Owned'
<1>1. ready # <<>> /\ Pops(Tail(ready)) /\ Pops(QueueLeft)
  BY TailPops, QueueLeftPops DEF Handle, HandleReadEvt, HandleReceive, HandleDangling,
                                 DispatchTimeout, DispatchAborted, Runs
<1>2. /\ Tail(ready) \in Seq(HandlerSet) /\ QueueLeft \in Seq(HandlerSet)
      /\ \A i \in DOMAIN Tail(ready) :
             Tail(ready)[i].kind = "activity" => Tail(ready)[i].owner = state
      /\ \A i \in DOMAIN QueueLeft :
             QueueLeft[i].kind = "activity" => QueueLeft[i].owner = state
  <2>1. Tail(ready) \in Seq(HandlerSet) /\ QueueLeft \in Seq(HandlerSet)
    BY <1>1 DEF Pops
  <2> QED
    BY <1>1, <2>1, PopsOwned
<1>3. CASE HandleReadEvt
  <2>1. CASE Head(ready).byte \in ControlBytes
    <3>1. Dispatch(Head(ready).byte, Tail(ready), timer) /\ Head(ready).byte \in Events
      BY <1>3, <2>1 DEF HandleReadEvt, Events
    <3> QED
      BY <1>2, <3>1, TimerTypes, DispatchOwned
  <2>2. CASE Head(ready).byte \notin ControlBytes
    BY <1>2, <1>3, <2>2 DEF HandleReadEvt, Owned
  <2> QED
    BY <2>1, <2>2
<1>4. CASE HandleReceive
  BY <1>4, ReceiveOwned DEF HandleReceive
<1>5. CASE HandleDangling
  <2>1. CASE Halt(<<>>)
    BY <2>1 DEF Halt, Owned
  <2> QED
    BY <1>5, <2>1, ReceiveOwned DEF HandleDangling
<1>6. CASE DispatchTimeout
  <2>1. Dispatch("Timeout", QueueLeft, TimerLeft) /\ "Timeout" \in Events
    BY <1>6 DEF DispatchTimeout, Events
  <2> QED
    BY <1>1, <1>2, <2>1, QueueLeftPops, DispatchOwned
<1>7. CASE DispatchAborted
  BY <1>2, <1>7 DEF DispatchAborted, Owned
<1> QED
  BY <1>3, <1>4, <1>5, <1>6, <1>7 DEF Handle

LEMMA ReadCompletesOwned ==
    ASSUME TypeOK, Owned, ReadCompletes
    PROVE  Owned'
<1>1. \A i \in DOMAIN reads' : reads'[i].kind # "dangling" => reads'[i].owner = state'
  BY ReadCompletesFacts DEF Owned
<1>2. \A i \in DOMAIN ready' : ready'[i].kind = "activity" => ready'[i].owner = state'
  BY ReadCompletesFacts DEF Owned
<1> QED
  BY <1>1, <1>2 DEF Owned

LEMMA ActivityBeginsOwned ==
    ASSUME TypeOK, Owned, ActivityBegins
    PROVE  Owned'
<1>1. CASE ActivityCancel
  BY <1>1 DEF ActivityCancel, Owned
<1>2. CASE ActivityRead
  <2>1. Read("activity", state) \in ReadSet
    BY <1>2 DEF ActivityRead, TypeOK, Read, ReadSet
  <2>2. \A i \in DOMAIN ready' : ready'[i].kind = "activity" => ready'[i].owner = state
    BY <1>2 DEF ActivityRead, Owned
  <2> QED
    BY <1>2, <2>1, <2>2, AgainOwned DEF ActivityRead
<1> QED
  BY <1>1, <1>2 DEF ActivityBegins

LEMMA TimerExpiresOwned ==
    ASSUME TypeOK, Owned, TimerExpires
    PROVE  Owned'
<1> DEFINE h == Handler("expired", state, "Timeout")
<1>1. h \in HandlerSet /\ h.kind = "expired"
  BY DEF TimerExpires, TypeOK, Handler, HandlerSet
<1>2. /\ DOMAIN ready' = 1..(Len(ready) + 1)
      /\ DOMAIN ready = 1..Len(ready) /\ Len(ready) \in Nat
      /\ \A i \in 1..Len(ready) : ready'[i] = ready[i]
      /\ ready'[Len(ready) + 1] = h
  <2> HIDE DEF h
  <2>1. ready' = Append(ready, h)
    BY DEF TimerExpires, h
  <2> QED
    BY <1>1, <2>1, AppendProperties DEF TypeOK
<1>3. \A i \in DOMAIN ready' : ready'[i].kind = "activity" => ready'[i].owner = state
  <2> HIDE DEF h
  <2> QED
    BY <1>1, <1>2 DEF Owned
<1> QED
  BY <1>3 DEF TimerExpires, Owned

LEMMA CommandOwned ==
    ASSUME TypeOK, Owned, NEW c \in UserCommands \cup {"EndTest"}, Command(c)
    PROVE  Owned'
<1>1. /\ c \in Events /\ ready \in Seq(HandlerSet) /\ Dispatch(c, ready, timer)
  BY DEF Command, Events, ControlBytes, TypeOK
<1>2. \A i \in DOMAIN ready : ready[i].kind = "activity" => ready[i].owner = state
  BY DEF Owned
<1> QED
  BY <1>1, <1>2, TimerTypes, DispatchOwned

LEMMA CommandEffect ==
    ASSUME TypeOK, NEW c \in UserCommands \cup {"EndTest"}, Command(c)
    PROVE  state # "Exited" /\ rx' = rx /\ Effect(c, 0)
<1>1. /\ c \in Events /\ ready \in Seq(HandlerSet) /\ Dispatch(c, ready, timer) /\ 0 \in {0, 1}
      /\ state # "Exited" /\ rx' = rx
  BY DEF Command, Events, ControlBytes, TypeOK
<1>2. Leaves(ready, 0)
  <2>1. \A i \in DOMAIN ready : i + 0 = i
    BY DEF TypeOK
  <2> QED
    BY <1>1, <2>1 DEF Leaves
<1> QED
  BY <1>1, <1>2, TimerTypes, DispatchEffect DEF Effect

LEMMA InitOwned == Init => Owned
BY DEF Init, Owned, Read

LEMMA TimerEffect ==
    ASSUME TypeOK, TimerExpires
    PROVE  Stays /\ UNCHANGED <<reads, rx>> /\ Leaves(ready', 0)
<1> DEFINE h == Handler("expired", state, "Timeout")
<1>1. h \in HandlerSet /\ h.kind = "expired"
  BY DEF TimerExpires, TypeOK, Handler, HandlerSet
<1> HIDE DEF h
<1>2. ready' = Append(ready, h)
  BY DEF TimerExpires, h
<1>3. /\ ready' \in Seq(HandlerSet)
      /\ DOMAIN ready' = 1..(Len(ready) + 1)
      /\ DOMAIN ready = 1..Len(ready) /\ Len(ready) \in Nat
      /\ \A i \in 1..Len(ready) : ready'[i] = ready[i]
      /\ ready'[Len(ready) + 1] = h
  BY <1>1, <1>2, AppendProperties DEF TypeOK
<1>4. \A i \in DOMAIN ready' :
          ready'[i].kind \in Carriers => i + 0 \in DOMAIN ready /\ ready'[i] = ready[i + 0]
  BY <1>1, <1>3 DEF Carriers
<1> QED
  BY <1>3, <1>4 DEF TimerExpires, Stays, Leaves

\* The outcomes of a step of the io thread or of a command, by what they mean
\* for whoever waits in an activity: it has ended, with the machine or the
\* process, or it goes on and may have a read more.
Outcome(d) ==
    \/ Moved /\ Leaves(ready', d) /\ (state \in ActivityStates => activity \in JoinAt[state])
    \/ Halted
    \/ /\ UNCHANGED <<state, activity>>
       /\ Leaves(ready', d)
       /\ \/ UNCHANGED reads
          \/ \E kind \in {"activity", "dangling"}, a \in ActivityStates :
                 reads' = Append(reads, Read(kind, a))

LEMMA EffectOutcome == ASSUME NEW event, NEW d, Effect(event, d) PROVE Outcome(d)
<1>1. MovesBy(event) => (state \in ActivityStates => activity \in JoinAt[state])
  BY DEF MovesBy
<1> QED
  BY <1>1 DEF Effect, Outcome, Quits, Stays

LEMMA HandleOutcome ==
    ASSUME TypeOK, Owned, Handle
    PROVE  Outcome(1)
<1>1. CASE ~Runs("dangling")
  <2>1. Answers => Outcome(1)
    BY DEF Answers, Outcome
  <2>2. Stays /\ UNCHANGED reads /\ Leaves(ready', 1) => Outcome(1)
    BY DEF Stays, Outcome
  <2> QED
    BY <1>1, <2>1, <2>2, HandleEffect, EffectOutcome
<1>2. CASE Runs("dangling")
  <2> DEFINE h == Head(ready)
  <2>1. /\ ready # <<>> /\ h.kind = "dangling"
        /\ Pops(Tail(ready)) /\ Leaves(Tail(ready), 1) /\ 1 \in {0, 1}
        /\ h.byte \in Bytes /\ h.owner \in ActivityStates
    BY <1>2, HeadTypes, TailPops, PopsLeaves DEF Runs
  <2>2. Receive("dangling") \/ Halt(<<>>)
    BY <1>2 DEF Handle, HandleReadEvt, HandleReceive, HandleDangling, DispatchTimeout,
                DispatchAborted, Runs
  <2>3. CASE Halt(<<>>)
    BY <2>3 DEF Halt, Halted, Outcome
  <2>4. CASE Receive("dangling") /\ h.byte \in Handled[h.owner]
    <3>1. Dispatch(h.byte, Tail(ready), timer) /\ h.byte \in Events
      BY <2>1, <2>4, TableAssumption DEF Receive, Events
    <3>2. Effect(h.byte, 1)
      BY <2>1, <3>1, TimerTypes, DispatchEffect DEF Effect
    <3> QED
      BY <3>2, EffectOutcome
  <2>5. CASE Receive("dangling") /\ h.byte \notin Handled[h.owner]
    <3>1. /\ ready' = Tail(ready)
          /\ reads' = Append(reads, Read("dangling", h.owner))
          /\ UNCHANGED <<state, activity>>
      BY <2>5 DEF Receive
    <3>2. Leaves(ready', 1)
      BY <2>1, <3>1 DEF Leaves
    <3> QED
      BY <2>1, <3>1, <3>2 DEF Outcome
  <2> QED
    BY <2>2, <2>3, <2>4, <2>5
<1> QED
  BY <1>1, <1>2

LEMMA CommandOutcome ==
    ASSUME TypeOK, NEW c \in UserCommands \cup {"EndTest"}, Command(c)
    PROVE  Outcome(0)
BY CommandEffect, EffectOutcome

-------------------------------------------------------------------------------
(***************************************************************************)
(* What a step leaves of the handlers of timers.                           *)
(***************************************************************************)

TimerKinds == {"expired", "aborted"}
NoTimers(q) == \A i \in DOMAIN q : q[i].kind \notin TimerKinds

\* The state's timer runs, or has expired and its handler alone is queued.
OneTimer ==
    /\ timer # "none"
    /\ \A i \in DOMAIN ready : ready[i].kind \in TimerKinds =>
          /\ timer = "expired"
          /\ ready[i].kind = "expired" /\ ready[i].owner = state
          /\ \A j \in DOMAIN ready : ready[j].kind \in TimerKinds => i = j

\* The handler h is what became of g.
From(h, g) ==
    /\ h.owner = g.owner /\ h.byte = g.byte
    /\ h.kind = g.kind \/ (g.kind = "activity" /\ h.kind = "dangling")

\* The queue q is what is left of ready without its first d handlers, and the
\* handler of the timer, if that was still armed and has been deleted.
LeftOf(q, d) ==
    /\ q \in Seq(HandlerSet)
    /\ \A i \in DOMAIN q :
          \/ i + d \in DOMAIN ready /\ From(q[i], ready[i + d])
          \/ timer = "armed" /\ q[i].kind = "aborted" /\ q[i].byte = "Timeout"

\* One sequence after another.
LEMMA Joined ==
    ASSUME NEW r \in Seq(HandlerSet), NEW c \in Seq(HandlerSet)
    PROVE  /\ r \o c \in Seq(HandlerSet)
           /\ \A i \in DOMAIN (r \o c) :
                 \/ i \in DOMAIN r /\ (r \o c)[i] = r[i]
                 \/ \E j \in DOMAIN c : (r \o c)[i] = c[j]
<1> DEFINE q == r \o c
<1>1. Len(r) \in Nat /\ Len(c) \in Nat /\ DOMAIN r = 1..Len(r) /\ DOMAIN c = 1..Len(c)
  OBVIOUS
<1>2. /\ q \in Seq(HandlerSet)
      /\ DOMAIN q = 1..(Len(r) + Len(c))
      /\ \A i \in 1..(Len(r) + Len(c)) : q[i] = IF i <= Len(r) THEN r[i] ELSE c[i - Len(r)]
  BY <1>1, ConcatProperties, LenProperties
<1> HIDE DEF q
<1> SUFFICES ASSUME NEW i \in DOMAIN q
             PROVE  (i \in DOMAIN r /\ q[i] = r[i]) \/ \E j \in DOMAIN c : q[i] = c[j]
  BY <1>2 DEF q
<1>3. CASE i <= Len(r)
  BY <1>1, <1>2, <1>3
<1>4. CASE ~(i <= Len(r))
  <2>1. i - Len(r) \in DOMAIN c /\ q[i] = c[i - Len(r)]
    BY <1>1, <1>2, <1>4
  <2> QED
    BY <2>1
<1> QED
  BY <1>3, <1>4

\* The handler of a deleted timer.
LEMMA CancelledOne ==
    ASSUME NEW t \in Timers, NEW owner
    PROVE  \A j \in DOMAIN Cancelled(t, owner) :
              /\ t = "armed"
              /\ Cancelled(t, owner)[j].kind = "aborted" /\ Cancelled(t, owner)[j].byte = "Timeout"
BY DEF Cancelled, Handler

LEMMA JoinLeft ==
    ASSUME NEW q, NEW d \in {0, 1}, LeftOf(q, d), NEW t \in Timers,
           t # "none" => state \in TimerStates, t = "armed" => timer = "armed"
    PROVE  LeftOf(q \o Cancelled(t, state), d)
<1> DEFINE c == Cancelled(t, state)
           p == q \o c
<1>1. /\ q \in Seq(HandlerSet) /\ c \in Seq(HandlerSet)
      /\ \A j \in DOMAIN c : timer = "armed" /\ c[j].kind = "aborted" /\ c[j].byte = "Timeout"
  BY CancelledFacts, CancelledOne DEF LeftOf
<1> HIDE DEF c
<1>2. /\ p \in Seq(HandlerSet)
      /\ \A i \in DOMAIN p : (i \in DOMAIN q /\ p[i] = q[i]) \/ \E j \in DOMAIN c : p[i] = c[j]
  BY <1>1, Joined
<1> HIDE DEF p
<1>3. LeftOf(p, d)
  BY <1>1, <1>2 DEF LeftOf
<1> QED
  BY <1>3 DEF p, c

LEMMA TailLeft ==
    TypeOK /\ ready # <<>> =>
        /\ LeftOf(Tail(ready), 1)
        /\ \A i \in DOMAIN Tail(ready) : i + 1 \in DOMAIN ready /\ Tail(ready)[i] = ready[i + 1]
<1> SUFFICES ASSUME TypeOK, ready # <<>>
             PROVE  /\ LeftOf(Tail(ready), 1)
                    /\ \A i \in DOMAIN Tail(ready) :
                          i + 1 \in DOMAIN ready /\ Tail(ready)[i] = ready[i + 1]
  OBVIOUS
<1> DEFINE q == Tail(ready)
<1>1. ready \in Seq(HandlerSet) /\ Len(ready) \in Nat \ {0} /\ DOMAIN ready = 1..Len(ready)
  BY EmptySeq DEF TypeOK
<1>2. /\ q \in Seq(HandlerSet)
      /\ Len(q) = Len(ready) - 1
      /\ \A i \in 1..Len(q) : q[i] = ready[i + 1]
  BY <1>1, HeadTailProperties
<1>3. DOMAIN q = 1..(Len(ready) - 1)
  BY <1>1, <1>2
<1> HIDE DEF q
<1>4. \A i \in DOMAIN q : i + 1 \in DOMAIN ready /\ q[i] = ready[i + 1]
  BY <1>1, <1>2, <1>3
<1>5. LeftOf(q, 1)
  BY <1>2, <1>4 DEF LeftOf, From
<1> QED
  BY <1>4, <1>5 DEF q

LEMMA OrphanLeft ==
    ASSUME NEW q, NEW d, LeftOf(q, d)
    PROVE  LeftOf(Orphan(q), d)
<1> DEFINE o == Orphan(q)
<1>1. q \in Seq(HandlerSet) /\ o \in Seq(HandlerSet) /\ DOMAIN o = DOMAIN q
  BY OrphanFacts DEF LeftOf, Orphan
<1>2. ASSUME NEW i \in DOMAIN q
      PROVE  /\ o[i].owner = q[i].owner /\ o[i].byte = q[i].byte
             /\ o[i].kind = q[i].kind \/ (q[i].kind = "activity" /\ o[i].kind = "dangling")
             /\ q[i].kind # "activity" => o[i] = q[i]
  <2>1. q[i] \in HandlerSet
    BY <1>1
  <2>2. \A x \in HandlerSet : /\ [x EXCEPT !.kind = "dangling"].owner = x.owner
                              /\ [x EXCEPT !.kind = "dangling"].byte = x.byte
                              /\ [x EXCEPT !.kind = "dangling"].kind = "dangling"
    BY DEF HandlerSet
  <2> QED
    BY <2>1, <2>2 DEF Orphan
<1> HIDE DEF o
<1>3. LeftOf(o, d)
  BY <1>1, <1>2 DEF LeftOf, From
<1> QED
  BY <1>3 DEF o

\* A dispatch.
LEMMA DispatchLeft ==
    ASSUME TypeOK, NEW event \in Events, NEW queue, NEW d \in {0, 1}, LeftOf(queue, d),
           NEW t \in Timers, t # "none" => state \in TimerStates, t = "armed" => timer = "armed",
           Dispatch(event, queue, t)
    PROVE  \/ Quits
           \/ MovesBy(event) /\ Moved /\ LeftOf(ready', d)
           \/ /\ MovesOn(event) = {} /\ LeftOf(ready', d)
              /\ ready' = queue /\ timer' = t /\ UNCHANGED <<state, activity, tx>>
<1>1. CASE event = "EndTest" /\ Halt(<<"EndTest">>)
  BY <1>1 DEF Halt, Halted, Quits
<1>2. CASE event # "EndTest" /\ \E m \in MovesOn(event) : Transit(m.to, queue, m.sends, t)
  <2>1. PICK m \in MovesOn(event) : Transit(m.to, queue, m.sends, t)
    BY <1>2
  <2>2. MovesBy(event)
    BY <2>1 DEF Transit, MovesBy
  <2>3. LeftOf(ready', d)
    <3>1. ready' = Orphan(queue) \o Cancelled(t, state)
      BY <2>1 DEF Transit
    <3>2. LeftOf(Orphan(queue) \o Cancelled(t, state), d)
      BY OrphanLeft, JoinLeft
    <3> QED
      BY <3>1, <3>2 DEF LeftOf
  <2>4. Moved
    <3>1. queue \in Seq(HandlerSet)
      BY DEF LeftOf
    <3>2. ~Halted
      BY <2>1, TableAssumption DEF Halted, Transit, MovesOn
    <3>3. ~Ignored(event, queue, t)
      BY <2>1 DEF Ignored
    <3> QED
      BY <3>1, <3>2, <3>3, DispatchFacts
  <2> QED
    BY <2>2, <2>3, <2>4
<1>3. CASE /\ MovesOn(event) = {}
           /\ ready' = queue /\ timer' = t /\ UNCHANGED <<state, reads, activity, tx>>
  BY <1>3 DEF LeftOf
<1> QED
  BY <1>1, <1>2, <1>3 DEF Dispatch

\* What the handler at the head of the queue dispatches.
Dispatched(event) ==
    LET h == Head(ready) IN
    \/ h.kind = "expired" /\ event = "Timeout"
    \/ h.kind = "fsm" /\ event = h.byte
    \/ /\ h.kind \in {"activity", "dangling"} /\ event = h.byte
       /\ h.owner \in ActivityStates /\ event \in Handled[h.owner]

\* The machine stays where it is, and may answer.
Passes ==
    /\ UNCHANGED <<state, activity>>
    /\ Head(ready).kind = "expired" => MovesOn("Timeout") = {}
    /\ Head(ready).kind \notin TimerKinds => timer' = timer /\ ready' = Tail(ready)
    /\ \/ tx' = tx
       \/ \E a \in ActivityStates, b \in Bytes : tx' = tx \o Replies[a][b]

\* Any handler, one of a deleted activity as well.
LEMMA HandleLeft ==
    ASSUME TypeOK, Handle
    PROVE  /\ ready # <<>> /\ state # "Exited" /\ rx' = rx
           /\ \/ Halted /\ (tx' = tx \/ tx' = tx \o <<"EndTest">>)
              \/ \E event \in Events :
                    Dispatched(event) /\ MovesBy(event) /\ Moved /\ LeftOf(ready', 1)
              \/ Passes /\ LeftOf(ready', 1)
<1> DEFINE h == Head(ready)
<1>1. ready # <<>> /\ state # "Exited" /\ rx' = rx
  BY DEF Handle, HandleReadEvt, HandleReceive, HandleDangling, DispatchTimeout, DispatchAborted,
         Runs, Receive
<1>2. LeftOf(Tail(ready), 1) /\ 1 \in {0, 1} /\ tx \in Seq(Bytes)
  BY <1>1, TailLeft DEF TypeOK
<1>3. ASSUME NEW event \in Events, Dispatched(event), Dispatch(event, Tail(ready), timer),
             h.kind \notin TimerKinds
      PROVE  \/ Quits
             \/ MovesBy(event) /\ Moved /\ LeftOf(ready', 1)
             \/ Passes /\ LeftOf(ready', 1)
  <2>1. \/ Quits
        \/ MovesBy(event) /\ Moved /\ LeftOf(ready', 1)
        \/ /\ LeftOf(ready', 1)
           /\ ready' = Tail(ready) /\ timer' = timer /\ UNCHANGED <<state, activity, tx>>
    BY <1>2, <1>3, TimerTypes, DispatchLeft
  <2> QED
    BY <1>3, <2>1 DEF Passes, TimerKinds
<1>4. CASE HandleReadEvt
  <2>1. h.kind = "fsm"
    BY <1>4 DEF HandleReadEvt, Runs
  <2>2. CASE h.byte \in ControlBytes
    <3>1. Dispatch(h.byte, Tail(ready), timer) /\ h.byte \in Events /\ Dispatched(h.byte)
      BY <1>4, <2>1, <2>2 DEF HandleReadEvt, Events, Dispatched
    <3> QED
      BY <1>1, <1>3, <2>1, <3>1 DEF Quits, TimerKinds
  <2>3. CASE h.byte \notin ControlBytes
    <3>1. ready' = Tail(ready) /\ UNCHANGED <<state, timer, reads, activity, tx>>
      BY <1>4, <2>3 DEF HandleReadEvt
    <3> QED
      BY <1>1, <1>2, <2>1, <3>1 DEF Passes, LeftOf
  <2> QED
    BY <2>2, <2>3
<1>5. ASSUME NEW kind \in {"activity", "dangling"}, Runs(kind), Receive(kind)
      PROVE  \/ Quits
             \/ \E event \in Events :
                   Dispatched(event) /\ MovesBy(event) /\ Moved /\ LeftOf(ready', 1)
             \/ Passes /\ LeftOf(ready', 1)
  <2>1. h.kind = kind /\ h.owner \in ActivityStates /\ h.byte \in Bytes
    BY <1>1, <1>5, HeadTypes DEF Runs
  <2>2. CASE h.byte \in Handled[h.owner]
    <3>1. Dispatch(h.byte, Tail(ready), timer) /\ h.byte \in ControlBytes
      BY <1>5, <2>1, <2>2, TableAssumption DEF Receive
    <3>2. h.byte \in Events /\ Dispatched(h.byte)
      BY <2>1, <2>2, <3>1 DEF Events, Dispatched
    <3> QED
      BY <1>3, <2>1, <3>1, <3>2 DEF TimerKinds
  <2>3. CASE h.byte \notin Handled[h.owner]
    <3>1. /\ tx' = tx \o Replies[h.owner][h.byte]
          /\ ready' = Tail(ready)
          /\ UNCHANGED <<state, timer, activity>>
      BY <1>5, <2>3 DEF Receive
    <3> QED
      BY <1>2, <2>1, <3>1 DEF Passes, LeftOf
  <2> QED
    BY <2>2, <2>3
<1>6. CASE DispatchTimeout
  <2>1. h.kind = "expired" /\ Dispatch("Timeout", QueueLeft, TimerLeft)
    BY <1>6 DEF DispatchTimeout, Runs
  <2>2. "Timeout" \in Events /\ Dispatched("Timeout")
    BY <2>1 DEF Events, Dispatched
  <2>3. /\ TimerLeft \in Timers /\ (TimerLeft # "none" => state \in TimerStates)
        /\ TimerLeft = "armed" => timer = "armed"
    BY <1>1, QueueLeftPops DEF TimerLeft
  <2>4. LeftOf(QueueLeft, 1)
    <3>1. Tail(ready) \o <<>> = Tail(ready)
      BY <1>2 DEF LeftOf
    <3> QED
      BY <1>2, <3>1, JoinLeft, TimerTypes DEF QueueLeft
  <2>5. \/ Quits
        \/ MovesBy("Timeout") /\ Moved /\ LeftOf(ready', 1)
        \/ /\ MovesOn("Timeout") = {} /\ LeftOf(ready', 1)
           /\ UNCHANGED <<state, activity, tx>>
    BY <1>2, <2>1, <2>2, <2>3, <2>4, DispatchLeft
  <2> QED
    BY <1>1, <2>1, <2>2, <2>5 DEF Quits, Passes, TimerKinds
<1>7. CASE DispatchAborted
  <2>1. h.kind = "aborted" /\ ready' = QueueLeft /\ UNCHANGED <<state, activity, tx>>
    BY <1>7 DEF DispatchAborted, Runs
  <2>2. LeftOf(QueueLeft, 1)
    <3>1. Tail(ready) \o <<>> = Tail(ready)
      BY <1>2 DEF LeftOf
    <3> QED
      BY <1>2, <3>1, JoinLeft, TimerTypes DEF QueueLeft
  <2> QED
    BY <1>1, <2>1, <2>2 DEF Passes, TimerKinds, LeftOf
<1>8. CASE HandleReceive \/ HandleDangling
  <2>1. \/ Halt(<<>>)
        \/ \E kind \in {"activity", "dangling"} : Runs(kind) /\ Receive(kind)
    BY <1>8 DEF HandleReceive, HandleDangling
  <2>2. CASE Halt(<<>>)
    BY <1>1, <1>2, <2>2 DEF Halt, Halted
  <2> QED
    BY <1>1, <1>5, <2>1, <2>2 DEF Quits
<1> QED
  BY <1>4, <1>6, <1>7, <1>8 DEF Handle

\* No handler of a timer appears but by expiry or by deleting an armed timer.
LEMMA NoTimersLeft ==
    ASSUME NEW d, LeftOf(ready', d), NoTimers(ready), timer # "armed"
    PROVE  NoTimers(ready')
BY DEF LeftOf, From, NoTimers, TimerKinds

\* The state that is entered has its timer alone.
LEMMA TimerStarted ==
    ASSUME Moved, state' \in TimerStates, NoTimers(ready')
    PROVE  OneTimer'
BY DEF Moved, OneTimer, NoTimers

\* A handler does not take the one timer away, unless the machine moves: in a
\* state that has a move on its timeout, only its own handler deletes it.
LEMMA OneTimerHandles ==
    ASSUME TypeOK, OneTimer, MovesOn("Timeout") # {}, Handle
    PROVE  \/ Halted /\ (tx' = tx \/ tx' = tx \o <<"EndTest">>)
           \/ \E event \in Events : /\ Dispatched(event) /\ MovesBy(event) /\ Moved
                                    /\ LeftOf(ready', 1)
                                    /\ event = "Timeout" => NoTimers(ready')
           \/ Passes /\ LeftOf(ready', 1) /\ OneTimer'
<1> DEFINE h == Head(ready)
<1>1. /\ ready # <<>>
      /\ \/ Halted /\ (tx' = tx \/ tx' = tx \o <<"EndTest">>)
         \/ \E event \in Events : Dispatched(event) /\ MovesBy(event) /\ Moved /\ LeftOf(ready', 1)
         \/ Passes /\ LeftOf(ready', 1)
  BY HandleLeft
<1>2. 1 \in DOMAIN ready /\ h = ready[1] /\ \A i \in DOMAIN ready : i \in Nat \ {0}
  BY <1>1, EmptySeq DEF TypeOK
<1>3. ASSUME Dispatched("Timeout"), LeftOf(ready', 1)
      PROVE  NoTimers(ready')
  <2>1. h.kind = "expired"
    <3>1. h.kind \in {"fsm", "activity", "dangling"} => h.byte \in Bytes
      BY <1>1, HeadTypes
    <3>2. "Timeout" \notin Bytes
      BY DEF Bytes, ControlBytes, UserCommands
    <3> QED
      BY <1>3, <3>1, <3>2 DEF Dispatched
  <2>2. timer = "expired" /\ \A j \in DOMAIN ready : ready[j].kind \in TimerKinds => j = 1
    BY <1>2, <2>1 DEF OneTimer, TimerKinds
  <2>3. ASSUME NEW i \in DOMAIN ready', ready'[i].kind \in TimerKinds
        PROVE  FALSE
    <3>1. i + 1 \in DOMAIN ready /\ ready[i + 1].kind \in TimerKinds
      BY <1>3, <2>2, <2>3 DEF LeftOf, From, TimerKinds
    <3>2. i \in Nat \ {0}
      BY <1>3 DEF LeftOf
    <3> QED
      BY <2>2, <3>1, <3>2
  <2> QED
    BY <2>3 DEF NoTimers
<1>4. ASSUME Passes
      PROVE  OneTimer'
  <2>1. h.kind \notin TimerKinds
    <3>1. h.kind # "expired"
      BY <1>4 DEF Passes
    <3>2. h.kind # "aborted"
      BY <1>2 DEF OneTimer, TimerKinds
    <3> QED
      BY <3>1, <3>2 DEF TimerKinds
  <2>2. ready' = Tail(ready) /\ timer' = timer /\ state' = state
    BY <1>4, <2>1 DEF Passes
  <2>3. \A i \in DOMAIN ready' : i \in Nat /\ i + 1 \in DOMAIN ready /\ ready'[i] = ready[i + 1]
    <3>1. /\ \A i \in DOMAIN Tail(ready) : i + 1 \in DOMAIN ready /\ Tail(ready)[i] = ready[i + 1]
          /\ Tail(ready) \in Seq(HandlerSet)
      BY <1>1, TailLeft DEF LeftOf
    <3> QED
      BY <2>2, <3>1
  <2>4. timer # "none"
    BY DEF OneTimer
  <2>5. ASSUME NEW i \in DOMAIN ready', ready'[i].kind \in TimerKinds
        PROVE  /\ timer' = "expired" /\ ready'[i].kind = "expired" /\ ready'[i].owner = state'
               /\ \A j \in DOMAIN ready' : ready'[j].kind \in TimerKinds => i = j
    <3>1. /\ i + 1 \in DOMAIN ready /\ ready'[i] = ready[i + 1]
          /\ timer = "expired" /\ ready[i + 1].kind = "expired" /\ ready[i + 1].owner = state
          /\ \A j \in DOMAIN ready : ready[j].kind \in TimerKinds => i + 1 = j
      BY <2>3, <2>5 DEF OneTimer
    <3>2. ASSUME NEW j \in DOMAIN ready', ready'[j].kind \in TimerKinds PROVE i = j
      <4>1. i + 1 = j + 1
        BY <2>3, <3>1, <3>2
      <4> QED
        BY <2>3, <4>1
    <3> QED
      BY <2>2, <3>1, <3>2
  <2> QED
    BY <2>2, <2>4, <2>5 DEF OneTimer
<1> QED
  BY <1>1, <1>3, <1>4

\* Nor does a read, nor its expiry.
LEMMA ReadTimers ==
    ASSUME TypeOK, ReadCompletes
    PROVE  /\ NoTimers(ready) => NoTimers(ready')
           /\ OneTimer => OneTimer'
           /\ \A i \in DOMAIN ready' : ready'[i].kind \in TimerKinds \cup {"results"} =>
                 i \in DOMAIN ready /\ ready'[i].kind = ready[i].kind
<1>1. /\ Head(reads).kind \notin TimerKinds \cup {"results"}
      /\ UNCHANGED <<state, timer>>
      /\ \A i \in DOMAIN ready' :
            \/ /\ i \in DOMAIN ready
               /\ ready'[i].kind = ready[i].kind
               /\ ready'[i].owner = ready[i].owner
            \/ ready'[i].kind = Head(reads).kind
  <2>1. Head(reads) \in ReadSet
    BY ReadEffect
  <2>2. Head(reads).kind \notin TimerKinds \cup {"results"}
    BY <2>1, ReadEffect DEF ReadSet, TimerKinds
  <2> QED
    BY <2>2, ReadEffect DEF Handler
<1>2. \A i \in DOMAIN ready' : ready'[i].kind \in TimerKinds \cup {"results"} =>
          i \in DOMAIN ready /\ ready'[i].kind = ready[i].kind /\ ready'[i].owner = ready[i].owner
  BY <1>1
<1> QED
  BY <1>1, <1>2 DEF NoTimers, OneTimer

LEMMA ExpiresTimers ==
    ASSUME TypeOK, OneTimer, TimerExpires
    PROVE  OneTimer'
<1> DEFINE h == Handler("expired", state, "Timeout")
<1>1. h \in HandlerSet /\ h.kind = "expired" /\ h.owner = state
  BY DEF TimerExpires, TypeOK, Handler, HandlerSet
<1> HIDE DEF h
<1>2. ready' = Append(ready, h) /\ timer = "armed" /\ timer' = "expired" /\ state' = state
  BY DEF TimerExpires, h
<1>3. /\ DOMAIN ready' = 1..(Len(ready) + 1)
      /\ DOMAIN ready = 1..Len(ready) /\ Len(ready) \in Nat
      /\ \A i \in 1..Len(ready) : ready'[i] = ready[i]
      /\ ready'[Len(ready) + 1] = h
  BY <1>1, <1>2, AppendProperties DEF TypeOK
<1>4. \A i \in DOMAIN ready' : ready'[i].kind \in TimerKinds => i = Len(ready) + 1
  BY <1>2, <1>3 DEF OneTimer
<1> QED
  BY <1>1, <1>2, <1>3, <1>4 DEF OneTimer

\* A command finds every handler still queued.
LEMMA CommandLeft ==
    ASSUME TypeOK, NEW c \in UserCommands \cup {"EndTest"}, Command(c)
    PROVE  /\ rx' = rx
           /\ \/ Quits
              \/ MovesBy(c) /\ Moved /\ LeftOf(ready', 0)
              \/ UNCHANGED <<state, timer, ready, activity, tx>>
<1>1. /\ c \in Events /\ ready \in Seq(HandlerSet) /\ Dispatch(c, ready, timer) /\ 0 \in {0, 1}
      /\ rx' = rx
  BY DEF Command, Events, ControlBytes, TypeOK
<1>2. LeftOf(ready, 0)
  <2>1. \A i \in DOMAIN ready : i + 0 = i
    BY DEF TypeOK
  <2> QED
    BY <1>1, <2>1 DEF LeftOf, From
<1> QED
  BY <1>1, <1>2, TimerTypes, DispatchLeft

-------------------------------------------------------------------------------
(***************************************************************************)
(* A machine to which nothing happens: no event is under way or queued and *)
(* no timer runs.                                                          *)
(***************************************************************************)

Eventless(q) == \A i \in DOMAIN q : q[i].kind \notin TimerKinds /\ q[i].byte \notin ControlBytes
EventlessLine(s) == \A i \in DOMAIN s : s[i] \notin ControlBytes

\* Of the machine's own handlers there are only those of the current state.
Current(q) == \A i \in DOMAIN q : q[i].kind = "fsm" => q[i].owner = state

LEMMA EventlessRead ==
    ASSUME TypeOK, Owned, Eventless(ready), EventlessLine(rx), ReadCompletes
    PROVE  /\ Eventless(ready') /\ EventlessLine(rx')
           /\ Current(ready) => Current(ready')
<1>1. rx \in Seq(Bytes)
  BY DEF TypeOK
<1>2. /\ Head(reads) \in ReadSet /\ rx # <<>> /\ rx' = Tail(rx)
      /\ \A i \in DOMAIN ready' :
            \/ /\ i \in DOMAIN ready
               /\ ready'[i].kind = ready[i].kind /\ ready'[i].owner = ready[i].owner
               /\ ready'[i].byte = Head(rx) \/ ready'[i] = ready[i]
            \/ ready'[i] = Handler(Head(reads).kind, Head(reads).owner, Head(rx))
  BY ReadEffect
<1>3. Head(rx) \notin ControlBytes
  <2>1. 1 \in DOMAIN rx /\ Head(rx) = rx[1]
    BY <1>1, <1>2, EmptySeq
  <2> QED
    BY <2>1 DEF EventlessLine
<1>4. Head(reads).kind \notin TimerKinds
  BY <1>2 DEF ReadSet, TimerKinds
<1>5. Eventless(ready')
  <2>1. \A k, o, b : Handler(k, o, b).kind = k /\ Handler(k, o, b).byte = b
    BY DEF Handler
  <2> QED
    BY <1>2, <1>3, <1>4, <2>1 DEF Eventless
<1>6. EventlessLine(rx')
  <2>1. \A i \in DOMAIN Tail(rx) : i + 1 \in DOMAIN rx /\ Tail(rx)[i] = rx[i + 1]
    BY <1>1, <1>2, HeadTailProperties
  <2> QED
    BY <1>2, <2>1 DEF EventlessLine
<1>7. Current(ready) => Current(ready')
  <2>1. Head(reads).kind = "fsm" => Head(reads).owner = state
    <3>1. reads # <<>>
      BY DEF ReadCompletes
    <3>2. 1 \in DOMAIN reads /\ Head(reads) = reads[1]
      BY <3>1, EmptySeq DEF TypeOK
    <3> QED
      BY <3>2 DEF Owned
  <2>2. \A k, o, b : Handler(k, o, b).kind = k /\ Handler(k, o, b).owner = o
    BY DEF Handler
  <2> QED
    BY <1>2, <2>1, <2>2 DEF Current
<1> QED
  BY <1>5, <1>6, <1>7

\* A handler that is run answers at most, or ends a process that has used freed
\* memory.
LEMMA EventlessHandle ==
    ASSUME TypeOK, Eventless(ready), Handle
    PROVE  /\ Eventless(ready') /\ rx' = rx
           /\ Current(ready) => Current(ready')
           /\ \/ state' = "Exited" /\ tx' = tx
              \/ /\ UNCHANGED <<state, timer>>
                 /\ tx' = tx \/ \E a \in ActivityStates, b \in Bytes : tx' = tx \o Replies[a][b]
<1> DEFINE h == Head(ready)
<1>1. /\ ready # <<>> /\ rx' = rx /\ 1 \in DOMAIN ready /\ h = ready[1]
      /\ tx \in Seq(Bytes)
  <2>1. ready # <<>> /\ rx' = rx
    BY DEF Handle, HandleReadEvt, HandleReceive, HandleDangling, DispatchTimeout, DispatchAborted,
           Runs, Receive
  <2> QED
    BY <2>1, EmptySeq DEF TypeOK
<1>2. h.kind \notin TimerKinds /\ h.byte \notin ControlBytes
  BY <1>1 DEF Eventless
<1>3. Eventless(Tail(ready)) /\ (Current(ready) => Current(Tail(ready)))
  <2>1. \A i \in DOMAIN Tail(ready) : i + 1 \in DOMAIN ready /\ Tail(ready)[i] = ready[i + 1]
    BY <1>1, HeadTailProperties DEF TypeOK
  <2> QED
    BY <2>1 DEF Eventless, Current
<1>4. ~DispatchTimeout /\ ~DispatchAborted
  BY <1>2 DEF DispatchTimeout, DispatchAborted, Runs, TimerKinds
<1>5. CASE HandleReadEvt
  BY <1>1, <1>2, <1>3, <1>5 DEF HandleReadEvt
<1>6. ASSUME NEW kind \in {"activity", "dangling"}, Runs(kind), Receive(kind)
      PROVE  /\ ready' = Tail(ready) /\ UNCHANGED <<state, timer>>
             /\ \E a \in ActivityStates, b \in Bytes : tx' = tx \o Replies[a][b]
  <2>1. h.byte \in Bytes /\ h.owner \in ActivityStates
    BY <1>1, <1>6, HeadTypes DEF Runs
  <2>2. h.byte \notin Handled[h.owner]
    BY <1>2, <2>1, TableAssumption
  <2> QED
    BY <1>6, <2>1, <2>2 DEF Receive
<1>7. CASE HandleReceive
  BY <1>1, <1>3, <1>6, <1>7 DEF HandleReceive
<1>8. CASE HandleDangling
  <2>1. CASE Receive("dangling")
    BY <1>1, <1>3, <1>6, <1>8, <2>1 DEF HandleDangling
  <2>2. CASE Halt(<<>>)
    BY <1>1, <2>2 DEF Halt, Eventless, Current
  <2> QED
    BY <1>8, <2>1, <2>2 DEF HandleDangling
<1> QED
  BY <1>4, <1>5, <1>7, <1>8 DEF Handle


===============================================================================
