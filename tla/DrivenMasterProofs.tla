-------------------------- MODULE DrivenMasterProofs --------------------------
(***************************************************************************)
(* The driven machine is a script, or a controller, and a machine that is  *)
(* dispatched to: what holds of each of them holds of the whole.           *)
(***************************************************************************)
EXTENDS DrivenMaster, MasterTable, ConcurrentDispatchProofs

(***************************************************************************)
(* The script.  Its entries are posted, due or armed, in this order: each  *)
(* is in one of the three, at its place.                                   *)
(***************************************************************************)
N == Len(Script)

ScriptInv ==
    /\ armed \in Seq(1..N) /\ due \in Seq(1..N) /\ posted \in Seq(1..N)
    /\ Len(posted) + Len(due) + Len(armed) = N
    /\ \A i \in 1..Len(posted) : posted[i] = i
    /\ \A i \in 1..Len(due) : due[i] = Len(posted) + i
    /\ \A i \in 1..Len(armed) : armed[i] = Len(posted) + Len(due) + i

LEMMA ScriptLength == N \in Nat
BY ScriptAssumption DEF N

\* All entries are armed.
LEMMA AllInOrder ==
    /\ S!InOrder(N) \in Seq(1..N) /\ Len(S!InOrder(N)) = N
    /\ \A i \in 1..N : S!InOrder(N)[i] = i
    /\ <<>> \in Seq(1..N) /\ Len(<<>>) = 0
BY ScriptLength DEF S!InOrder

LEMMA Lengths == ScriptInv => Len(posted) \in Nat /\ Len(due) \in Nat /\ Len(armed) \in Nat
BY DEF ScriptInv

\* When the last entry is due it is the only one left.
LEMMA LastIsAlone ==
    ASSUME ScriptInv, due # <<>>, Head(due) = N
    PROVE  posted = S!InOrder(N - 1) /\ armed = <<>> /\ Tail(due) = <<>>
<1> USE ScriptLength
<1>1. Len(due) >= 1 /\ Head(due) = due[1] /\ due[1] = Len(posted) + 1
  BY DEF ScriptInv
<1>2. Len(posted) = N - 1 /\ Len(due) = 1 /\ Len(armed) = 0
  <2>1. Len(posted) + Len(due) + Len(armed) = N
    BY DEF ScriptInv
  <2>2. Len(posted) \in Nat /\ Len(due) \in Nat /\ Len(armed) \in Nat
    BY Lengths
  <2>3. Len(posted) + 1 = N
    BY <1>1
  <2>4. Len(due) >= 1
    BY <1>1
  <2> QED
    BY <2>1, <2>2, <2>3, <2>4
<1>3. posted = [i \in 1..(N - 1) |-> i]
  <2>1. posted = [i \in 1..Len(posted) |-> posted[i]]
    BY DEF ScriptInv
  <2> QED
    BY <2>1, <1>2 DEF ScriptInv
<1>4. armed = <<>>
  BY <1>2 DEF ScriptInv
<1>5. Tail(due) = <<>>
  <2>1. Tail(due) \in Seq(1..N) /\ Len(Tail(due)) = 0
    BY <1>2, HeadTailProperties DEF ScriptInv
  <2> QED
    BY <2>1, EmptySeq
<1> QED
  BY <1>3, <1>4, <1>5 DEF S!InOrder

LEMMA ScriptStep ==
    ASSUME ScriptInv, S!Next
    PROVE  ScriptInv'
<1> USE ScriptLength
<1>a. Len(posted) \in Nat /\ Len(due) \in Nat /\ Len(armed) \in Nat
  BY Lengths
<1>1. CASE S!TimerExpires
  <2>1. armed # <<>> /\ due' = Append(due, Head(armed)) /\ armed' = Tail(armed) /\ posted' = posted
    BY <1>1 DEF S!TimerExpires
  <2>2. /\ Head(armed) = armed[1] /\ Head(armed) \in 1..N
        /\ armed' \in Seq(1..N) /\ Len(armed') = Len(armed) - 1
        /\ \A i \in 1..Len(armed') : armed'[i] = armed[i + 1]
    BY <2>1 DEF ScriptInv
  <2>3. /\ due' \in Seq(1..N) /\ Len(due') = Len(due) + 1
        /\ due'[Len(due) + 1] = Head(armed)
        /\ \A i \in 1..Len(due) : due'[i] = due[i]
    BY <2>1, <2>2 DEF ScriptInv
  <2>4. \A i \in 1..Len(due') : due'[i] = Len(posted) + i
    <3>1. armed[1] = Len(posted) + Len(due) + 1
      BY <2>1 DEF ScriptInv
    <3>2. \A i \in 1..Len(due) : due[i] = Len(posted) + i
      BY DEF ScriptInv
    <3> SUFFICES ASSUME NEW i \in 1..(Len(due) + 1) PROVE due'[i] = Len(posted) + i
      BY <2>3
    <3>3. CASE i = Len(due) + 1
      BY <1>a, <2>2, <2>3, <3>1, <3>3
    <3>4. CASE i # Len(due) + 1
      BY <1>a, <2>3, <3>2, <3>4
    <3> QED
      BY <3>3, <3>4
  <2>5. \A i \in 1..Len(armed') : armed'[i] = Len(posted) + Len(due') + i
    BY <2>1, <2>2, <2>3 DEF ScriptInv
  <2>6. Len(posted') + Len(due') + Len(armed') = N
    <3>1. Len(posted) + Len(due) + Len(armed) = N
      BY DEF ScriptInv
    <3>2. Len(posted') = Len(posted)
      BY <2>1
    <3>3. Len(due') = Len(due) + 1 /\ Len(armed') = Len(armed) - 1
      BY <2>2, <2>3
    <3> QED
      BY <1>a, <3>1, <3>2, <3>3
  <2>7. posted' \in Seq(1..N) /\ \A i \in 1..Len(posted') : posted'[i] = i
    BY <2>1 DEF ScriptInv
  <2> QED
    BY <2>1, <2>2, <2>3, <2>4, <2>5, <2>6, <2>7 DEF ScriptInv
<1>2. CASE S!HandleTimer
  <2>1. due # <<>> /\ posted' = Append(posted, Head(due)) /\ due' = Tail(due) /\ armed' = armed
    BY <1>2 DEF S!HandleTimer
  <2>2. /\ Head(due) = Len(posted) + 1 /\ Head(due) \in 1..N
        /\ due' \in Seq(1..N) /\ Len(due') = Len(due) - 1
        /\ \A i \in 1..Len(due') : due'[i] = due[i + 1]
    BY <2>1 DEF ScriptInv
  <2>3. /\ posted' \in Seq(1..N) /\ Len(posted') = Len(posted) + 1
        /\ posted'[Len(posted) + 1] = Head(due)
        /\ \A i \in 1..Len(posted) : posted'[i] = posted[i]
    BY <2>1, <2>2 DEF ScriptInv
  <2>4. \A i \in 1..Len(posted') : posted'[i] = i
    <3>1. \A i \in 1..Len(posted) : posted[i] = i
      BY DEF ScriptInv
    <3> SUFFICES ASSUME NEW i \in 1..(Len(posted) + 1) PROVE posted'[i] = i
      BY <2>3
    <3>2. CASE i = Len(posted) + 1
      BY <2>2, <2>3, <3>2
    <3>3. CASE i # Len(posted) + 1
      BY <1>a, <2>3, <3>1, <3>3
    <3> QED
      BY <3>2, <3>3
  <2>5. \A i \in 1..Len(due') : due'[i] = Len(posted') + i
    <3>1. \A i \in 1..Len(due) : due[i] = Len(posted) + i
      BY DEF ScriptInv
    <3> QED
      BY <2>2, <2>3, <3>1
  <2>6. /\ Len(posted') + Len(due') + Len(armed') = N
        /\ \A i \in 1..Len(armed') : armed'[i] = Len(posted') + Len(due') + i
    <3>1. /\ Len(posted) + Len(due) + Len(armed) = N
          /\ \A i \in 1..Len(armed) : armed[i] = Len(posted) + Len(due) + i
      BY DEF ScriptInv
    <3>2. armed' = armed /\ Len(armed') = Len(armed)
      BY <2>1
    <3>3. Len(due') = Len(due) - 1 /\ Len(posted') = Len(posted) + 1
      BY <2>2, <2>3
    <3> QED
      BY <1>a, <3>1, <3>2, <3>3
  <2>7. armed' \in Seq(1..N)
    BY <2>1 DEF ScriptInv
  <2> QED
    BY <2>2, <2>3, <2>4, <2>5, <2>6, <2>7 DEF ScriptInv
<1>3. CASE S!RestartScript
  <2>1. due # <<>> /\ Head(due) = N
    BY <1>3 DEF S!RestartScript, S!Restarts, N
  <2>2. armed' = S!InOrder(N) /\ due' = <<>> /\ posted' = <<>>
    BY <1>3, <2>1, LastIsAlone DEF S!RestartScript, S!StartScript, N
  <2> QED
    BY <2>2, AllInOrder DEF ScriptInv
<1> QED
  BY <1>1, <1>2, <1>3 DEF S!Next

-------------------------------------------------------------------------------
(***************************************************************************)
(* The whole.                                                              *)
(***************************************************************************)

LEMMA ScriptInit == S!Init => ScriptInv
BY AllInOrder, ScriptLength DEF S!Init, S!InOrder, ScriptInv, N

LEMMA DrivenScriptStep ==
    ASSUME DrivenNext \/ UNCHANGED drivenVars
    PROVE  S!Next \/ UNCHANGED scriptVars
BY DEF DrivenNext, drivenVars, ScriptTimer, ScriptPosts, ScriptRestarts, Look, Machine, S!Next

LEMMA ScriptKept ==
    ASSUME ScriptInv, [DrivenNext]_drivenVars
    PROVE  ScriptInv'
<1>1. CASE UNCHANGED scriptVars
  BY <1>1 DEF ScriptInv, scriptVars
<1> QED
  BY <1>1, DrivenScriptStep, ScriptStep

\* Whoever drives the machine does so by dispatching to it.
LEMMA DrivenIsAnyStep ==
    ASSUME ScriptInv, [DrivenNext]_drivenVars
    PROVE  AnyStep
<1>1. CASE ScriptPosts
  <2>1. PICK t \in Workers : Dispatch(t, Script[Head(due)])
    BY <1>1 DEF ScriptPosts, Post
  <2>2. Script[Head(due)] \in Events
    <3>1. due # <<>>
      BY <1>1 DEF ScriptPosts, S!HandleTimer
    <3>2. Head(due) \in 1..N
      BY <3>1 DEF ScriptInv
    <3> QED
      BY <3>2, ScriptAssumption DEF N
  <2> QED
    BY <2>1, <2>2 DEF AnyStep, Threads
<1>2. CASE Look
  <2>1. CASE C!Commands(current) = {}
    BY <1>2, <2>1 DEF Look, AnyStep
  <2>2. CASE C!Commands(current) # {}
    <3>1. PICK e \in C!Commands(current), t \in Workers : Dispatch(t, e)
      BY <1>2, <2>2 DEF Look, Post
    <3>2. e \in Events
      BY <3>1 DEF C!Commands, Events, ControlBytes, UserCommands
    <3> QED
      BY <3>1, <3>2 DEF AnyStep, Threads
  <2> QED
    BY <2>1, <2>2
<1>3. CASE ScriptTimer \/ ScriptRestarts \/ UNCHANGED drivenVars
  BY <1>3 DEF ScriptTimer, ScriptRestarts, drivenVars, AnyStep
<1>4. CASE Machine
  BY <1>4 DEF Machine, AnyStep
<1> QED
  BY <1>1, <1>2, <1>3, <1>4 DEF DrivenNext

\* The script inside the driven machine is the script: nothing that listens to
\* it or runs beside it on the io thread makes its timers or its posts come
\* otherwise (EventsScript.h:115-168).
THEOREM Scripted == DrivenSpec => S!Spec
<1>1. DrivenInit => S!Init
  BY DEF DrivenInit
<1>2. [DrivenNext]_drivenVars => [S!Next]_(S!vars)
  BY DrivenScriptStep DEF S!vars, scriptVars
<1> QED
  BY <1>1, <1>2, PTL DEF DrivenSpec, S!Spec

\* For any script, cyclic or not: when it starts over, its round is complete
\* and no handler of it is left (EventsScript.h:119-127, 139-148, 160-168).
THEOREM Rounds == DrivenSpec => []RoundComplete
<1>1. DrivenInit => ScriptInv
  BY ScriptInit DEF DrivenInit
<1>2. ScriptInv => RoundComplete
  BY LastIsAlone DEF RoundComplete, S!RoundComplete, S!Restarts, N
<1> QED
  BY <1>1, <1>2, ScriptKept, PTL DEF DrivenSpec

\* Somebody listens, whatever dispatches and however its dispatches overlap.
THEOREM DrivenHears == DrivenSpec => []NeverDeaf
<1>1. DrivenInit => ScriptInv /\ Listening
  BY ScriptInit, ListeningInit DEF DrivenInit
<1>2. ScriptInv /\ Listening /\ [DrivenNext]_drivenVars => (ScriptInv /\ Listening)'
  BY ScriptKept, DrivenIsAnyStep, ListeningStep
<1> QED
  BY <1>1, <1>2, ListeningNeverDeaf, PTL DEF DrivenSpec

\* A runnable that is not there is stopped by dispatches that overlap only.
THEOREM DrivenStops == DrivenSpec => []StopsWhatRuns
<1>1. DrivenInit => ScriptInv /\ Solo
  BY ScriptInit, SoloInit DEF DrivenInit
<1>2. ScriptInv /\ Solo /\ [DrivenNext]_drivenVars => (ScriptInv /\ Solo)'
  BY ScriptKept, DrivenIsAnyStep, SoloStep
<1>3. Solo => StopsWhatRuns
  BY DEF Solo, StopsWhatRuns
<1> QED
  BY <1>1, <1>2, <1>3, PTL DEF DrivenSpec

\* The types of the driven machine.
THEOREM DrivenTypes == DrivenSpec => []DrivenTypeOK
<1> DEFINE Inv == /\ Typed /\ ScriptInv
                  /\ trying \in BOOLEAN /\ hasty \in BOOLEAN
                  /\ driver \in {"script", "controller"}
<1>1. DrivenInit => Inv
  BY ScriptInit, TypedInit DEF DrivenInit, C!Init
<1>2. Inv /\ [DrivenNext]_drivenVars => Inv'
  <2> SUFFICES ASSUME Inv, [DrivenNext]_drivenVars PROVE Inv'
    OBVIOUS
  <2>1. Typed' /\ ScriptInv'
    BY ScriptKept, DrivenIsAnyStep, TypedStep
  <2>2. driver' = driver
    BY DEF DrivenNext, drivenVars
  <2>3. trying' \in BOOLEAN /\ hasty' \in BOOLEAN
    BY DEF DrivenNext, drivenVars, controllerVars, ScriptTimer, ScriptPosts, ScriptRestarts,
           Look, Machine, C!PeriodicAction
  <2> QED
    BY <2>1, <2>2, <2>3
<1>3. Inv => DrivenTypeOK
  <2> SUFFICES ASSUME Inv PROVE DrivenTypeOK
    OBVIOUS
  <2>1. S!TypeOK
    BY DEF ScriptInv, N, S!TypeOK, S!Entries
  <2> QED
    BY <2>1, TypedTypeOK DEF DrivenTypeOK
<1> QED
  BY <1>1, <1>2, <1>3, PTL DEF DrivenSpec

-------------------------------------------------------------------------------
(***************************************************************************)
(* The controller's attempt.  From the look that gives the command to the  *)
(* look that finds the test under way, the command is still to be reacted  *)
(* to in the state it was given for, or it moves the machine, or the       *)
(* machine tries: and what else is dispatched then, the remote's answers   *)
(* and timeouts, leads nowhere else.  This is about the master's table.    *)
(***************************************************************************)
MastersOwn == Moves = MasterMoves /\ PeerBytes = {"RemoteAck"}

Command == "AvailabilityModeCommand"
AttemptEvents == {Command, "RemoteAck", "Timeout"}
Trials == {"SentAvailableModeCommand", "AvailabilityMode"}

\* Thread t takes the machine from a state to another.
Leaves(t) == task[t].pc \in {"exit", "stop", "cancel", "set"}
Reacts(t) == task[t].pc = "react"

Given ==
    /\ current = "Idle"
    /\ \E w \in Threads : Reacts(w) /\ task[w].event = Command
    /\ \A t \in Threads : Leaves(t) => task[t].to = "Idle"

Obeyed ==
    /\ current = "Idle"
    /\ \E w \in Threads : Leaves(w) /\ task[w].to = "SentAvailableModeCommand"

Tries ==
    /\ current \in Trials
    /\ \A t \in Threads : Leaves(t) => task[t].to \in Trials

Attempt ==
    /\ \A t \in Threads : Reacts(t) => task[t].event \in AttemptEvents
    /\ Given \/ Obeyed \/ Tries

Orderly == driver = "controller" /\ trying /\ ~hasty /\ overlaps = 0

AttemptInv == Orderly => Attempt

\* The moves of the master's table that an attempt can make.
LEMMA AttemptMoves ==
    ASSUME MastersOwn
    PROVE  /\ \A m \in Moves : m.from = "Idle" /\ m.on = Command => m.to = "SentAvailableModeCommand"
           /\ \A m \in Moves : m.from = "Idle" /\ m.on \in AttemptEvents \ {Command} => m.to = "Idle"
           /\ \A m \in Moves : m.from \in Trials /\ m.on \in AttemptEvents => m.to \in Trials
           /\ \E m \in Moves : m.from = "Idle" /\ m.on = Command
BY DEF MastersOwn, MasterMoves, MasterMove, Command, AttemptEvents, Trials

\* A thread that goes on as it did.
LEMMA AttemptGoesOn ==
    ASSUME Attempt, UNCHANGED current, NEW t \in Threads,
           ~Reacts(t), ~Reacts(t)',
           Leaves(t) <=> Leaves(t)', Leaves(t) => task'[t].to = task[t].to,
           \A u \in Threads \ {t} : task'[u] = task[u]
    PROVE  Attempt'
<1>1. \A u \in Threads : /\ Reacts(u)' <=> Reacts(u)
                         /\ Leaves(u)' <=> Leaves(u)
                         /\ Reacts(u) => task'[u] = task[u]
                         /\ Leaves(u) => task'[u].to = task[u].to
  BY DEF Reacts, Leaves
<1> QED
  BY <1>1 DEF Attempt, Given, Obeyed, Tries

\* A thread at rest begins to react to what the remote or a timer sends.
LEMMA AttemptBegins ==
    ASSUME Typed, Attempt, UNCHANGED current, NEW t \in Threads,
           NEW e \in AttemptEvents, Begin(t, e)
    PROVE  Attempt'
<1>1. e \in Events
  BY DEF AttemptEvents, Command, Events, ControlBytes, UserCommands
<1>2. [pc |-> "react", event |-> e] \in Tasks
  BY <1>1 DEF Tasks
<1>3. /\ task[t].pc = "idle" /\ task'[t] = [pc |-> "react", event |-> e]
      /\ \A u \in Threads \ {t} : task'[u] = task[u]
  BY <1>2, DoFacts DEF Begin, At
<1>4. \A u \in Threads : /\ Leaves(u)' <=> Leaves(u)
                         /\ Leaves(u) => task'[u] = task[u]
                         /\ Reacts(u) => task'[u] = task[u]
                         /\ Reacts(u)' => Reacts(u) \/ u = t
  BY <1>3 DEF Leaves, Reacts
<1>5. Reacts(t)' => task'[t].event \in AttemptEvents
  BY <1>3
<1>6. \A u \in Threads : Reacts(u)' => task'[u].event \in AttemptEvents
  BY <1>4, <1>5 DEF Attempt
<1>7. \A u \in Threads : Reacts(u) => Reacts(u)'
  BY <1>4 DEF Reacts
<1>8. (Given => Given') /\ (Obeyed => Obeyed') /\ (Tries => Tries')
  BY <1>4, <1>7 DEF Given, Obeyed, Tries
<1> QED
  BY <1>6, <1>8 DEF Attempt

\* A thread reacts, and no other moves the machine meanwhile.
LEMMA AttemptReacts ==
    ASSUME Typed, Attempt, MastersOwn, NEW t \in Threads, React(t), UNCHANGED overlaps
    PROVE  Attempt'
<1>1. task[t].pc = "react" /\ UNCHANGED current /\ overlaps \in Nat
  BY DEF React, At, Typed
<1>2. task[t].event \in AttemptEvents
  BY <1>1 DEF Attempt, Reacts
<1>3. CASE \E m \in Moves : /\ m.from = current /\ m.on = task[t].event
                            /\ Do(t, [pc |-> "exit", to |-> m.to])
                            /\ ~\E u \in Threads \ {t} : Moving(u)
  <2>1. PICK m \in Moves : /\ m.from = current /\ m.on = task[t].event
                           /\ Do(t, [pc |-> "exit", to |-> m.to])
                           /\ ~\E u \in Threads \ {t} : Moving(u)
    BY <1>3
  <2>2. [pc |-> "exit", to |-> m.to] \in Tasks
    BY DispatchAssumption DEF Tasks
  <2>3. task'[t] = [pc |-> "exit", to |-> m.to] /\ \A u \in Threads \ {t} : task'[u] = task[u]
    BY <2>1, <2>2, DoFacts
  <2>4. Leaves(t)' /\ ~Reacts(t)' /\ task'[t].to = m.to /\ ~Leaves(t)
    BY <1>1, <2>3 DEF Leaves, Reacts
  <2>5. \A u \in Threads \ {t} : ~Leaves(u) /\ ~Leaves(u)' /\ (Reacts(u)' <=> Reacts(u))
    BY <2>1, <2>3 DEF Leaves, Moving, Reacts
  <2>6. \A u \in Threads : Reacts(u)' => task'[u].event \in AttemptEvents
    BY <2>3, <2>4, <2>5 DEF Attempt
  <2>7. ~Obeyed
    BY <2>4, <2>5 DEF Obeyed
  <2>8. CASE Given
    <3>1. CASE task[t].event = Command
      <4>1. m.to = "SentAvailableModeCommand"
        BY <2>1, <2>8, <3>1, AttemptMoves DEF Given
      <4>2. Obeyed'
        BY <1>1, <2>4, <2>8, <4>1 DEF Obeyed, Given
      <4> QED
        BY <2>6, <4>2 DEF Attempt
    <3>2. CASE task[t].event # Command
      <4>1. m.to = "Idle"
        BY <1>2, <2>1, <2>8, <3>2, AttemptMoves DEF Given
      <4>2. PICK w \in Threads : Reacts(w) /\ task[w].event = Command
        BY <2>8 DEF Given
      <4>3. Reacts(w)' /\ task'[w].event = Command
        BY <2>3, <2>5, <3>2, <4>2
      <4>4. Given'
        BY <1>1, <2>4, <2>5, <2>8, <4>1, <4>3 DEF Given
      <4> QED
        BY <2>6, <4>4 DEF Attempt
    <3> QED
      BY <3>1, <3>2
  <2>9. CASE Tries
    <3>1. m.to \in Trials
      BY <1>2, <2>1, <2>9, AttemptMoves DEF Tries
    <3>2. Tries'
      BY <1>1, <2>4, <2>5, <2>9, <3>1 DEF Tries
    <3> QED
      BY <2>6, <3>2 DEF Attempt
  <2> QED
    BY <2>7, <2>8, <2>9 DEF Attempt
<1>4. CASE /\ \A m \in Moves : m.from = current => m.on # task[t].event
           /\ Do(t, Resting)
  <2>1. Resting \in Tasks
    BY DEF Resting, Tasks
  <2>2. task'[t] = Resting /\ \A u \in Threads \ {t} : task'[u] = task[u]
    BY <1>4, <2>1, DoFacts
  <2>3. ~Leaves(t) /\ ~Leaves(t)' /\ ~Reacts(t)'
    BY <1>1, <2>2 DEF Leaves, Reacts, Resting
  <2>4. \A u \in Threads \ {t} : (Leaves(u)' <=> Leaves(u)) /\ (Reacts(u)' <=> Reacts(u))
    BY <2>2 DEF Leaves, Reacts
  <2>5. \A u \in Threads : Reacts(u)' => task'[u].event \in AttemptEvents
    BY <2>2, <2>3, <2>4 DEF Attempt
  <2>6. Given => Given'
    <3> SUFFICES ASSUME Given PROVE Given'
      OBVIOUS
    <3>1. PICK w \in Threads : Reacts(w) /\ task[w].event = Command
      BY DEF Given
    <3>2. w # t
      BY <1>4, <3>1, AttemptMoves DEF Given
    <3>3. Reacts(w)' /\ task'[w].event = Command
      BY <2>2, <2>4, <3>1, <3>2
    <3> QED
      BY <1>1, <2>2, <2>3, <2>4, <3>3 DEF Given
  <2>7. Obeyed => Obeyed'
    BY <1>1, <2>2, <2>3, <2>4 DEF Obeyed
  <2>8. Tries => Tries'
    BY <1>1, <2>2, <2>3, <2>4 DEF Tries
  <2> QED
    BY <2>5, <2>6, <2>7, <2>8 DEF Attempt
<1> QED
  BY <1>1, <1>3, <1>4 DEF React

\* A thread sets the state it moves the machine to.
LEMMA AttemptSets ==
    ASSUME Typed, Single, Attempt, NEW t \in Threads, Set(t)
    PROVE  Attempt'
<1>1. task[t].pc = "set" /\ current' = task[t].to /\ Do(t, [pc |-> "entry"])
  BY DEF Set, At
<1>2. [pc |-> "entry"] \in Tasks
  BY DEF Tasks
<1>3. task'[t] = [pc |-> "entry"] /\ \A u \in Threads \ {t} : task'[u] = task[u]
  BY <1>1, <1>2, DoFacts
<1>4. Leaves(t) /\ ~Reacts(t) /\ ~Leaves(t)' /\ ~Reacts(t)'
  BY <1>1, <1>3 DEF Leaves, Reacts
<1>5. \A u \in Threads \ {t} : ~Leaves(u)
  BY <1>4 DEF Single, Moving, Leaves
<1>6. \A u \in Threads : ~Leaves(u)' /\ (Reacts(u)' <=> Reacts(u)) /\ (Reacts(u) => task'[u] = task[u])
  BY <1>3, <1>4, <1>5 DEF Leaves, Reacts
<1>7. \A u \in Threads : Reacts(u)' => task'[u].event \in AttemptEvents
  BY <1>6 DEF Attempt
<1>8. Given => Given'
  BY <1>1, <1>4, <1>6 DEF Given
<1>9. Obeyed => Tries'
  BY <1>1, <1>5, <1>6 DEF Obeyed, Tries, Trials
<1>10. Tries => Tries'
  BY <1>1, <1>4, <1>6 DEF Tries
<1> QED
  BY <1>7, <1>8, <1>9, <1>10 DEF Attempt

LEMMA AttemptDispatching ==
    ASSUME Typed, Single, Attempt, MastersOwn, NEW t \in Threads, UNCHANGED overlaps,
           React(t) \/ Exit(t) \/ Stop(t) \/ StopNone(t) \/ Cancel(t) \/ Set(t) \/ Entry(t) \/ Arm(t)
    PROVE  Attempt'
<1>0. /\ task[t].pc \in {"exit", "cancel", "set"} => task[t].to \in States
      /\ task[t].pc = "stop" => task[t].to \in States /\ task[t].at \in ActivityStates
      /\ current \in States
  BY TaskFacts DEF Typed
<1>1. CASE Exit(t)
  <2>1. PICK next : /\ Do(t, next)
                    /\ next = IF current \in ActivityStates
                              THEN [pc |-> "stop", to |-> task[t].to, at |-> current]
                              ELSE [pc |-> "cancel", to |-> task[t].to]
    BY <1>1 DEF Exit
  <2>2. task[t].pc = "exit" /\ UNCHANGED current
    BY <1>1 DEF Exit, At
  <2>3. next \in Tasks
    BY <1>0, <2>1, <2>2 DEF Tasks
  <2>4. task'[t] = next /\ \A u \in Threads \ {t} : task'[u] = task[u]
    BY <2>1, <2>3, DoFacts
  <2>5. next.pc \in {"stop", "cancel"} /\ next.to = task[t].to
    BY <2>1
  <2>6. ~Reacts(t) /\ ~Reacts(t)' /\ Leaves(t) /\ Leaves(t)'
    BY <2>2, <2>4, <2>5 DEF Reacts, Leaves
  <2> QED
    BY <2>2, <2>4, <2>5, <2>6, AttemptGoesOn
<1>2. CASE Stop(t) \/ Cancel(t)
  <2>1. /\ task[t].pc \in {"stop", "cancel"} /\ UNCHANGED current
        /\ \/ Do(t, [pc |-> "cancel", to |-> task[t].to])
           \/ Do(t, [pc |-> "set", to |-> task[t].to])
    BY <1>2 DEF Stop, Cancel, At
  <2>2. /\ [pc |-> "cancel", to |-> task[t].to] \in Tasks
        /\ [pc |-> "set", to |-> task[t].to] \in Tasks
    BY <1>0, <2>1 DEF Tasks
  <2>3. /\ task'[t].pc \in {"cancel", "set"} /\ task'[t].to = task[t].to
        /\ \A u \in Threads \ {t} : task'[u] = task[u]
    BY <2>1, <2>2, DoFacts
  <2>4. ~Reacts(t) /\ ~Reacts(t)' /\ Leaves(t) /\ Leaves(t)'
    BY <2>1, <2>3 DEF Reacts, Leaves
  <2> QED
    BY <2>1, <2>3, <2>4, AttemptGoesOn
<1>3. CASE Entry(t) \/ Arm(t)
  <2>1. /\ task[t].pc \in {"entry", "arm"} /\ UNCHANGED current
        /\ Do(t, [pc |-> "arm", at |-> current]) \/ Do(t, Resting)
    BY <1>3 DEF Entry, Arm, At
  <2>2. [pc |-> "arm", at |-> current] \in Tasks /\ Resting \in Tasks
    BY <1>0 DEF Tasks, Resting
  <2>3. /\ task'[t].pc \in {"arm", "idle"}
        /\ \A u \in Threads \ {t} : task'[u] = task[u]
    BY <2>1, <2>2, DoFacts DEF Resting
  <2>4. ~Reacts(t) /\ ~Reacts(t)' /\ ~Leaves(t) /\ ~Leaves(t)'
    BY <2>1, <2>3 DEF Reacts, Leaves
  <2> QED
    BY <2>1, <2>3, <2>4, AttemptGoesOn
<1>4. CASE StopNone(t)
  BY <1>4 DEF StopNone, Attempt, Given, Obeyed, Tries, Leaves, Reacts
<1>5. CASE React(t)
  BY <1>5, AttemptReacts
<1>6. CASE Set(t)
  BY <1>6, AttemptSets
<1> QED
  BY <1>1, <1>2, <1>3, <1>4, <1>5, <1>6

\* What the machine does by itself keeps an attempt.
LEMMA AttemptMachine ==
    ASSUME Typed, Single, Attempt, MastersOwn, Step, UNCHANGED overlaps
    PROVE  Attempt'
<1>1. CASE Dispatching
  BY <1>1, AttemptDispatching DEF Dispatching
<1>2. CASE \/ \E s \in ActivityStates : ActivityCancel(s) \/ ActivityRead(s)
           \/ ReadCompletes \/ HandleDangling
  <2>1. UNCHANGED <<task, current>>
    BY <1>2 DEF ActivityCancel, ActivityRead, ReadCompletes, HandleDangling
  <2> QED
    BY <2>1 DEF Attempt, Given, Obeyed, Tries, Leaves, Reacts
<1>3. Io \in Threads
  BY DEF Threads
<1>4. CASE HandleReadEvt
  <2>1. Head(ready).byte \in PeerBytes
    BY <1>4, PopReady DEF HandleReadEvt, Runs, HandlerSet
  <2>2. Head(ready).byte \in AttemptEvents
    BY <2>1 DEF MastersOwn, AttemptEvents
  <2> QED
    BY <1>3, <1>4, <2>2, AttemptBegins DEF HandleReadEvt
<1>5. CASE HandleReceive
  <2>1. CASE Head(ready).byte \in PeerBytes
    <3>1. Head(ready).byte \in AttemptEvents
      BY <2>1 DEF MastersOwn, AttemptEvents
    <3> QED
      BY <1>3, <1>5, <2>1, <3>1, AttemptBegins DEF HandleReceive
  <2>2. CASE Head(ready).byte \notin PeerBytes
    <3>1. UNCHANGED <<task, current>>
      BY <1>5, <2>2 DEF HandleReceive
    <3> QED
      BY <3>1 DEF Attempt, Given, Obeyed, Tries, Leaves, Reacts
  <2> QED
    BY <2>1, <2>2
<1>6. CASE DispatchTimeout
  <2>1. "Timeout" \in AttemptEvents
    BY DEF AttemptEvents
  <2> QED
    BY <1>3, <1>6, <2>1, AttemptBegins DEF DispatchTimeout
<1> QED
  BY <1>1, <1>2, <1>4, <1>5, <1>6 DEF Step

\* The controller looks while nothing is dispatched.
LEMMA AttemptLook ==
    ASSUME Typed, AttemptInv, Look, driver = "controller", Orderly'
    PROVE  Attempt'
<1>1. /\ At(Io, "idle") /\ ~hasty /\ ~\E t \in Workers : ~At(t, "idle")
      /\ trying' = (current = "Idle" \/ (trying /\ current # "AvailabilityMode"))
      /\ trying'
  BY DEF Look, Orderly, C!PeriodicAction
<1>2. \A t \in Threads : task[t].pc = "idle"
  BY <1>1 DEF Threads, At
<1>3. \A t \in Threads : ~Reacts(t) /\ ~Leaves(t)
  BY <1>2 DEF Reacts, Leaves
<1>4. CASE trying
  <2>1. C!Commands(current) = {}
    BY <1>4 DEF C!Commands
  <2>2. UNCHANGED vars
    BY <2>1 DEF Look
  <2>3. Attempt
    BY <1>1, <1>4, <2>2 DEF AttemptInv, Orderly, vars
  <2> QED
    BY <2>2, <2>3 DEF vars, Attempt, Given, Obeyed, Tries, Leaves, Reacts
<1>5. CASE ~trying
  <2>1. current = "Idle"
    BY <1>1, <1>5
  <2>2. C!Commands(current) = {Command}
    BY <1>5, <2>1 DEF C!Commands, Command
  <2>3. PICK t \in Workers : Dispatch(t, Command)
    BY <2>2 DEF Look, Post
  <2>4. [pc |-> "react", event |-> Command] \in Tasks
    BY DEF Tasks, Command, Events, ControlBytes, UserCommands
  <2>5. t \in Threads
    BY DEF Threads
  <2>6. /\ current' = current /\ task'[t] = [pc |-> "react", event |-> Command]
        /\ \A u \in Threads \ {t} : task'[u] = task[u]
    BY <2>3, <2>4, <2>5, DoFacts DEF Dispatch, Begin
  <2>7. /\ Reacts(t)' /\ task'[t].event = Command /\ ~Leaves(t)'
        /\ \A u \in Threads \ {t} : ~Reacts(u)' /\ ~Leaves(u)'
    BY <1>3, <2>6 DEF Reacts, Leaves
  <2>8. Given'
    BY <2>1, <2>5, <2>6, <2>7 DEF Given
  <2>9. \A u \in Threads : Reacts(u)' => task'[u].event \in AttemptEvents
    BY <2>7 DEF AttemptEvents
  <2> QED
    BY <2>8, <2>9 DEF Attempt
<1> QED
  BY <1>4, <1>5

LEMMA AttemptStep ==
    ASSUME MastersOwn, Solo, ScriptInv, AttemptInv, [DrivenNext]_drivenVars
    PROVE  AttemptInv'
<1> SUFFICES ASSUME Orderly' PROVE Attempt'
  BY DEF AttemptInv
<1>1. driver = "controller" /\ Typed /\ overlaps \in Nat
  BY DEF DrivenNext, drivenVars, Orderly, Solo, Typed
<1>2. overlaps' = overlaps \/ overlaps' = overlaps + 1
  <2>1. AnyStep
    BY DrivenIsAnyStep
  <2> QED
    BY <2>1, StepCases DEF React, Exit, Stop, StopNone, Cancel, Set, Entry, Arm, ActivityCancel,
       ActivityRead, ReadCompletes, HandleReadEvt, HandleReceive, HandleDangling, Dispatch, vars
<1>3. overlaps = 0 /\ overlaps' = overlaps
  BY <1>1, <1>2 DEF Orderly
<1>4. Single
  BY <1>3 DEF Solo
<1>5. CASE Look
  BY <1>1, <1>5, AttemptLook
<1>6. CASE Machine
  <2>1. Step /\ UNCHANGED <<trying, hasty>>
    BY <1>6 DEF Machine, controllerVars
  <2>2. Orderly
    BY <1>1, <1>3, <2>1 DEF Orderly
  <2> QED
    BY <1>1, <1>3, <1>4, <2>1, <2>2, AttemptMachine DEF AttemptInv
<1>7. CASE UNCHANGED drivenVars
  <2>1. Attempt
    BY <1>7 DEF AttemptInv, Orderly, drivenVars, vars, controllerVars
  <2> QED
    BY <1>7, <2>1 DEF drivenVars, vars, Attempt, Given, Obeyed, Tries, Leaves, Reacts
<1> QED
  BY <1>1, <1>5, <1>6, <1>7 DEF DrivenNext, ScriptTimer, ScriptPosts, ScriptRestarts

\* For any number of threads and any backlog of reads: with the master's table,
\* an attempt that neither overlapped another dispatch nor was looked at before
\* its command was dispatched leads to the test (MasterController.cpp:37-43,
\* 57-60).
THEOREM AttemptsLead ==
    ASSUME Moves = MasterMoves, PeerBytes = {"RemoteAck"}
    PROVE  DrivenSpec => []AttemptNotLost
<1> DEFINE Inv == ScriptInv /\ Solo /\ AttemptInv
<1>1. MastersOwn
  BY DEF MastersOwn
<1>2. DrivenInit => Inv
  <2> SUFFICES ASSUME DrivenInit PROVE Inv
    OBVIOUS
  <2>1. ~trying
    BY DEF DrivenInit, C!Init
  <2>2. ScriptInv /\ Solo
    BY ScriptInit, SoloInit DEF DrivenInit
  <2> QED
    BY <2>1, <2>2 DEF AttemptInv, Orderly
<1>3. Inv /\ [DrivenNext]_drivenVars => Inv'
  BY <1>1, ScriptKept, DrivenIsAnyStep, SoloStep, AttemptStep
<1>4. Inv => AttemptNotLost
  <2> SUFFICES ASSUME AttemptInv, driver = "controller", trying, ~hasty, overlaps = 0, Settled
               PROVE  current # "Idle"
    BY DEF AttemptNotLost
  <2>1. Attempt
    BY DEF AttemptInv, Orderly
  <2>2. \A t \in Threads : ~Reacts(t) /\ ~Leaves(t)
    BY DEF Settled, At, Reacts, Leaves
  <2>3. Tries
    BY <2>1, <2>2 DEF Attempt, Given, Obeyed
  <2> QED
    BY <2>3 DEF Tries, Trials
<1> QED
  BY <1>2, <1>3, <1>4, PTL DEF DrivenSpec


===============================================================================
