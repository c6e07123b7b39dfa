----------------------------- MODULE DrivenMaster -----------------------------
(***************************************************************************)
(* The master's machine with what drives it: the cyclic script of          *)
(* testMasterFSM or the MasterController.  Both run on the io thread and   *)
(* hand their events to threads of DispatchingRunnables, which dispatch    *)
(* them beside the io thread and beside each other.                        *)
(*                                                                         *)
(* The pool's mutex may keep the io thread waiting (see PooledTester); it  *)
(* orders nothing here, and the pool's runnables are threads at rest.      *)
(***************************************************************************)
EXTENDS ConcurrentDispatch

CONSTANTS Script, Cyclic  \* see EventsScript

\* EndTest, which ends the process, is only what a cyclic script does without.
ASSUME ScriptAssumption ==
    /\ Script \in Seq(Events) /\ Cyclic \in BOOLEAN
    /\ \A k \in DOMAIN Script : Script[k] = "EndTest" => Cyclic /\ k = Len(Script)

VARIABLES
    driver,              \* "script" or "controller"
    armed, due, posted,  \* see EventsScript
    trying,              \* see MasterController
    hasty                \* history: a look came before the last command was dispatched

S == INSTANCE EventsScript
C == INSTANCE MasterController

scriptVars == <<armed, due, posted>>
controllerVars == <<trying, hasty>>
drivenVars == <<vars, driver, scriptVars, controllerVars>>

DrivenInit ==
    /\ Init /\ S!Init /\ C!Init
    /\ driver \in {"script", "controller"}
    /\ hasty = FALSE

\* Someone's thread is given the event: there are as many as there are Workers.
Post(e) == \E t \in Workers : Dispatch(t, e)

\* The script's timers ...
ScriptTimer ==
    /\ driver = "script"
    /\ S!TimerExpires
    /\ UNCHANGED <<vars, controllerVars>>

\* ... and its handlers, for which the io thread must be free.
ScriptPosts ==
    /\ driver = "script" /\ At(Io, "idle")
    /\ S!HandleTimer
    /\ Post(Script[Head(due)])
    /\ UNCHANGED controllerVars

ScriptRestarts ==
    /\ driver = "script" /\ At(Io, "idle")
    /\ S!RestartScript
    /\ UNCHANGED <<vars, controllerVars>>

Look ==
    /\ driver = "controller" /\ At(Io, "idle")
    /\ C!PeriodicAction(current)
    /\ hasty' = (hasty \/ \E t \in Workers : ~At(t, "idle"))
    /\ IF C!Commands(current) = {}
       THEN UNCHANGED vars
       ELSE \E e \in C!Commands(current) : Post(e)
    /\ UNCHANGED scriptVars

Machine == Step /\ UNCHANGED <<scriptVars, controllerVars>>

DrivenNext ==
    /\ undefined = "no"
    /\ ScriptTimer \/ ScriptPosts \/ ScriptRestarts \/ Look \/ Machine
    /\ UNCHANGED driver

DrivenSpec == DrivenInit /\ [][DrivenNext]_drivenVars

-------------------------------------------------------------------------------
DrivenTypeOK ==
    /\ TypeOK /\ S!TypeOK
    /\ {trying, hasty} \subseteq BOOLEAN
    /\ driver \in {"script", "controller"}

\* See EventsScript.
RoundComplete == S!RoundComplete

\* The controller does not wait for ever for an attempt that is over: it relies
\* on the machine to try until the remote answers, and looks at a state that
\* others are changing, but as long as a command is dispatched before the next
\* look, and beside no other dispatch, its attempt leads to the test
\* (MasterController.cpp:37-43, 57-60).
AttemptNotLost ==
    driver = "controller" /\ trying /\ ~hasty /\ overlaps = 0 /\ Settled => current # "Idle"

===============================================================================
