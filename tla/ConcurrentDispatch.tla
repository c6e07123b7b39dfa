-------------------------- MODULE ConcurrentDispatch --------------------------
(***************************************************************************)
(* What BaseFSM takes for one step, step by step: tinyfsm's dispatch() and *)
(* transit(), and BaseFSM's and ActivityState's exit() and entry(), run by *)
(* the io thread and by the threads of DispatchingRunnables with no lock.  *)
(* current_state_ptr is read again at every call: react(), exit() and      *)
(* entry() of one transition may be those of three different states.       *)
(*                                                                         *)
(* The timers' handlers, the receive buffers and what is sent are those of *)
(* BaseFSM and left out here: a Timeout may come whenever the io thread is *)
(* free.                                                                   *)
(***************************************************************************)
EXTENDS Events, Naturals, Sequences

CONSTANTS
    States, Start, ActivityStates, Moves,  \* see BaseFSM
    PeerBytes,   \* the bytes the peer's own machine sends
    Io,          \* the thread that runs the io service
    Workers,     \* the threads of DispatchingRunnables
    Capacity,    \* bound on the completed reads whose handlers have not run
    MaxOverlaps  \* bound on how often a dispatch begins to move while another does

Threads == {Io} \cup Workers

\* What the peer sends moves the machine in every state: true of RemoteAck and
\* the master, and of nothing and the remote.
ASSUME DispatchAssumption ==
    /\ Start \in States \ ActivityStates
    /\ ActivityStates \subseteq States
    /\ Moves \subseteq [from : States, on : Events, sends : Seq(Bytes), to : States]
    /\ PeerBytes \subseteq ControlBytes
    /\ \A s \in States, b \in PeerBytes : \E m \in Moves : m.from = s /\ m.on = b
    /\ Io \notin Workers
    /\ {Capacity, MaxOverlaps} \subseteq Nat

VARIABLES
    current,   \* current_state_ptr
    task,      \* per thread, what it does next: see Tasks
    activity,  \* per activity state: "none" (_runnable is null), or its thread's stage
    reads,     \* the stream's outstanding reads, first come first served
    ready,     \* completed reads whose handler has not run yet
    undefined, \* history: "no", or what undefined behaviour was met
    overlaps   \* history: how often a thread began to move the machine while another did

streamVars == <<reads, ready>>
vars == <<current, task, activity, streamVars, undefined, overlaps>>

\* Steps of dispatch(), with what a thread keeps from one to the next: the
\* event, the state it moves `to', and the object `at' whose member runs.
Resting == [pc |-> "idle"]
Tasks ==
    [pc : {"idle", "entry"}]
        \cup [pc : {"react"}, event : Events]
        \cup [pc : {"exit", "cancel", "set"}, to : States]
        \cup [pc : {"stop"}, to : States, at : ActivityStates]
        \cup [pc : {"arm"}, at : States]

\* The machine's own read, that of an activity, and one whose activity is deleted.
Read(kind, owner) == [kind |-> kind, owner |-> owner]
Handler(read, byte) == [kind |-> read.kind, owner |-> read.owner, byte |-> byte]

Init ==
    /\ current = Start
    /\ task = [t \in Threads |-> Resting]
    /\ activity = [s \in ActivityStates |-> "none"]
    /\ reads = <<Read("own", Start)>>
    /\ ready = <<>>
    /\ undefined = "no"
    /\ overlaps = 0

-------------------------------------------------------------------------------
At(t, pc) == task[t].pc = pc
Do(t, next) == task' = [task EXCEPT ![t] = next]

\* Thread t is between the react() that moves and the end of entry().
Moving(t) == task[t].pc \notin {"idle", "react"}

\* dispatch(e) ...
Begin(t, e) == At(t, "idle") /\ Do(t, [pc |-> "react", event |-> e])

\* ... current_state_ptr->react(e): a case that moves the machine, or none.
React(t) ==
    /\ At(t, "react")
    /\ \/ \E m \in Moves :
            /\ m.from = current /\ m.on = task[t].event
            /\ Do(t, [pc |-> "exit", to |-> m.to])
            /\ IF \E u \in Threads \ {t} : Moving(u)
               THEN overlaps < MaxOverlaps /\ overlaps' = overlaps + 1
               ELSE UNCHANGED overlaps
       \/ /\ \A m \in Moves : m.from = current => m.on # task[t].event
          /\ Do(t, Resting)
          /\ UNCHANGED overlaps
    /\ UNCHANGED <<current, activity, streamVars, undefined>>

\* transit(): current_state_ptr->exit() ...
Exit(t) ==
    /\ At(t, "exit")
    /\ Do(t, IF current \in ActivityStates
             THEN [pc |-> "stop", to |-> task[t].to, at |-> current]
             ELSE [pc |-> "cancel", to |-> task[t].to])
    /\ UNCHANGED <<current, activity, streamVars, undefined, overlaps>>

\* What was to call back a deleted activity.
Orphan(queue, s) ==
    [i \in DOMAIN queue |->
        IF queue[i].kind = "activity" /\ queue[i].owner = s
        THEN [queue[i] EXCEPT !.kind = "dangling"] ELSE queue[i]]

\* ... of an activity: stop() and delete the runnable, whose thread is joined
\* once it has armed its read ...
Stop(t) ==
    /\ At(t, "stop")
    /\ activity[task[t].at] = "reading"
    /\ activity' = [activity EXCEPT ![task[t].at] = "none"]
    /\ reads' = Orphan(reads, task[t].at)
    /\ ready' = Orphan(ready, task[t].at)
    /\ Do(t, [pc |-> "cancel", to |-> task[t].to])
    /\ UNCHANGED <<current, undefined, overlaps>>

\* ... if there still is one ...
StopNone(t) ==
    /\ At(t, "stop")
    /\ activity[task[t].at] = "none"
    /\ undefined' = "stopped"
    /\ UNCHANGED <<current, task, activity, streamVars, overlaps>>

\* ... of every state: cancel the stream's reads ...
Cancel(t) ==
    /\ At(t, "cancel")
    /\ reads' = <<>>
    /\ Do(t, [pc |-> "set", to |-> task[t].to])
    /\ UNCHANGED <<current, activity, ready, undefined, overlaps>>

Set(t) ==
    /\ At(t, "set")
    /\ current' = task[t].to
    /\ Do(t, [pc |-> "entry"])
    /\ UNCHANGED <<activity, streamVars, undefined, overlaps>>

\* Faulty: the entry() of an activity state calls that of BaseFSM.
EntryOfBase(t) ==
    /\ At(t, "entry")
    /\ Do(t, [pc |-> "arm", at |-> current])
    /\ UNCHANGED <<current, activity, streamVars, undefined, overlaps>>

\* ... and current_state_ptr->entry(): an activity is made and started unless
\* its state has one ...
Entry(t) ==
    /\ At(t, "entry")
    /\ activity' = [s \in ActivityStates |->
                       IF s = current /\ activity[s] = "none" THEN "starting" ELSE activity[s]]
    /\ Do(t, [pc |-> "arm", at |-> current])
    /\ UNCHANGED <<current, streamVars, undefined, overlaps>>

\* Faulty: only when no read is outstanding.
ArmUnlessReading(t) ==
    /\ At(t, "arm")
    /\ reads' = IF reads = <<>> THEN <<Read("own", task[t].at)>> ELSE reads
    /\ Do(t, Resting)
    /\ UNCHANGED <<current, activity, ready, undefined, overlaps>>

\* ... and the state's own read is armed.
Arm(t) ==
    /\ At(t, "arm")
    /\ reads' = Append(reads, Read("own", task[t].at))
    /\ Do(t, Resting)
    /\ UNCHANGED <<current, activity, ready, undefined, overlaps>>

Dispatching ==
    \E t \in Threads :
        \/ React(t) \/ Exit(t) \/ Stop(t) \/ StopNone(t) \/ Cancel(t)
        \/ Set(t) \/ Entry(t) \/ Arm(t)

-------------------------------------------------------------------------------
\* The thread of an activity: cancel all reads, arm its own.
ActivityCancel(s) ==
    /\ activity[s] = "starting"
    /\ activity' = [activity EXCEPT ![s] = "cancelled"]
    /\ reads' = <<>>
    /\ UNCHANGED <<current, task, ready, undefined, overlaps>>

ActivityRead(s) ==
    /\ activity[s] = "cancelled"
    /\ activity' = [activity EXCEPT ![s] = "reading"]
    /\ reads' = Append(reads, Read("activity", s))
    /\ UNCHANGED <<current, task, ready, undefined, overlaps>>

\* A byte of the peer's machine, or of the test's data while a test reads.
ReadCompletes ==
    /\ reads # <<>>
    /\ Len(ready) < Capacity
    /\ \E byte \in PeerBytes \cup (IF Head(reads).kind = "own" THEN {} ELSE {"Data"}) :
          ready' = Append(ready, Handler(Head(reads), byte))
    /\ reads' = Tail(reads)
    /\ UNCHANGED <<current, task, activity, undefined, overlaps>>

Runs(kind) == At(Io, "idle") /\ ready # <<>> /\ Head(ready).kind = kind

HandleReadEvt ==
    /\ Runs("own")
    /\ ready' = Tail(ready)
    /\ Begin(Io, Head(ready).byte)
    /\ UNCHANGED <<current, activity, reads, undefined, overlaps>>

\* An activity's handler dispatches the byte, or reads on.
HandleReceive ==
    /\ Runs("activity")
    /\ ready' = Tail(ready)
    /\ \/ /\ Head(ready).byte \in PeerBytes
          /\ Begin(Io, Head(ready).byte)
          /\ UNCHANGED reads
       \/ /\ Head(ready).byte \notin PeerBytes
          /\ reads' = Append(reads, Read("activity", Head(ready).owner))
          /\ UNCHANGED task
    /\ UNCHANGED <<current, activity, undefined, overlaps>>

HandleDangling ==
    /\ Runs("dangling")
    /\ undefined' = "freed"
    /\ UNCHANGED <<current, task, activity, streamVars, overlaps>>

DispatchTimeout ==
    /\ Begin(Io, "Timeout")
    /\ UNCHANGED <<current, activity, streamVars, undefined, overlaps>>

\* The thread of a DispatchingRunnable starts.
Dispatch(t, e) ==
    /\ Begin(t, e)
    /\ UNCHANGED <<current, activity, streamVars, undefined, overlaps>>

\* The machine by itself, without those who add runnables.
Step ==
    \/ Dispatching
    \/ \E s \in ActivityStates : ActivityCancel(s) \/ ActivityRead(s)
    \/ ReadCompletes
    \/ HandleReadEvt \/ HandleReceive \/ HandleDangling \/ DispatchTimeout

\* Nothing is promised after undefined behaviour.
Next ==
    /\ undefined = "no"
    /\ \/ Step
       \/ \E t \in Workers, e \in UserCommands : Dispatch(t, e)

Spec == Init /\ [][Next]_vars

-------------------------------------------------------------------------------
Kinds == {"own", "activity", "dangling"}

TypeOK ==
    /\ current \in States
    /\ task \in [Threads -> Tasks]
    /\ activity \in [ActivityStates -> {"none", "starting", "cancelled", "reading"}]
    /\ reads \in Seq([kind : Kinds, owner : States])
    /\ ready \in Seq([kind : Kinds, owner : States, byte : Bytes])
    /\ \A i \in DOMAIN ready : ready[i].kind = "own" => ready[i].byte \in PeerBytes
    /\ undefined \in {"no", "stopped", "freed"}
    /\ overlaps \in Nat

Settled == undefined = "no" /\ \A t \in Threads : At(t, "idle")

Waits(kind, s) == \E i \in DOMAIN reads : reads[i] = Read(kind, s)

\* Whatever overlaps, somebody listens once everything has settled: the read of
\* the state the machine is in is outstanding, or that of an activity which
\* still lives, or its thread is about to arm it.  So the peer can always move
\* the machine, even when two threads left one state and entered two others
\* (tinyfsm.hpp:134-139, BaseFSM.h:136-155).
NeverDeaf ==
    Settled /\ ready = <<>> =>
        \/ Waits("own", current)
        \/ \E s \in ActivityStates :
              activity[s] \in {"starting", "cancelled"} \/ Waits("activity", s)

\* Only dispatches that overlap stop a runnable that is not there: as long as
\* none did, the activity lives exactly while its state is the current one
\* (BaseFSM.h:85-103, DispatchingRunnable.h:16).
StopsWhatRuns == undefined = "stopped" => overlaps > 0

===============================================================================
