----------------------------- MODULE PingReports -----------------------------
(***************************************************************************)
(* The pinger's life and its reports (ReportingActivity.h, operator() of   *)
(* MasterPinger.cpp): its thread makes a timer before the loop of PingStats*)
(* and deletes it after the loop; the timer's handler makes a report on    *)
(* the io thread and arms the timer again.  The report period is positive, *)
(* as main() and testMasterFSM set it.                                     *)
(*                                                                         *)
(* A report reads the accounts in one step: the loop sleeps for 100 ms     *)
(* after each ping.                                                        *)
(***************************************************************************)
EXTENDS PingStats

VARIABLES
    stage,     \* the thread: "begin", "loop", "ended", "over", or "deleted" for the pinger
    timer,     \* _reportStatsTimer: "null", "armed", "expired" (its handler is queued),
               \* "deleted", or "freed" (deleted with its handler queued)
    handling,  \* the io thread is in the handler, and has made its report
    crossed,   \* history: the timer was deleted while its handler was queued or running
    undefined  \* history: "no", or how the timer was used after its end

reportVars == <<stage, timer, handling, crossed, undefined>>
pingerVars == <<vars, reportVars>>

PingerInit ==
    /\ Init
    /\ stage = "begin"
    /\ timer = "null"
    /\ handling = FALSE
    /\ crossed = FALSE
    /\ undefined = "no"

-------------------------------------------------------------------------------
\* Faulty: there is no timer after all.
InitReportingNone ==
    /\ stage = "begin"
    /\ stage' = "loop"
    /\ UNCHANGED <<vars, timer, handling, crossed, undefined>>

InitReporting ==
    /\ stage = "begin"
    /\ stage' = "loop"
    /\ timer' = "armed"
    /\ UNCHANGED <<vars, handling, crossed, undefined>>

\* The thread's loop.
Loop ==
    /\ stage = "loop"
    /\ Write \/ Count \/ Record \/ Check \/ Stop
    /\ UNCHANGED reportVars

\* Faulty: the timer is only cancelled when it is deleted with the pinger.
EndReportingKeeps ==
    /\ stage = "loop" /\ pc = "done"
    /\ stage' = "ended"
    /\ UNCHANGED <<vars, timer, handling, crossed, undefined>>

\* endReporting() deletes the timer, and forgets to forget it.
EndReporting ==
    /\ stage = "loop" /\ pc = "done"
    /\ stage' = "ended"
    /\ timer' = IF timer = "expired" THEN "freed" ELSE "deleted"
    /\ crossed' = (timer = "expired" \/ handling)
    /\ UNCHANGED <<vars, handling, undefined>>

\* The last report, by the thread itself.
MakeReport ==
    /\ stage = "ended"
    /\ stage' = "over"
    /\ UNCHANGED <<vars, timer, handling, crossed, undefined>>

\* exit() of the availability state deletes the pinger: ~ReportingActivity()
\* deletes the timer it finds.
Delete ==
    /\ stage = "over"
    /\ stage' = "deleted"
    /\ undefined' = IF timer = "null" THEN undefined ELSE "twice"
    /\ UNCHANGED <<vars, timer, handling, crossed>>

-------------------------------------------------------------------------------
Expires ==
    /\ timer = "armed"
    /\ timer' = "expired"
    /\ UNCHANGED <<vars, stage, handling, crossed, undefined>>

\* The handlers of echoes and of reports take turns on the io thread.
Echoes ==
    /\ ~handling
    /\ HandleReceive \/ CountLost \/ Erase
    /\ UNCHANGED reportVars

\* handleTimerReportStats(): a report ...
HandleTimer ==
    /\ ~handling /\ io = "idle"
    /\ timer \in {"expired", "freed"}
    /\ handling' = TRUE
    /\ timer' = IF timer = "freed" THEN "deleted" ELSE "running"
    /\ UNCHANGED <<vars, stage, crossed, undefined>>

\* ... and the timer is armed again.
Rearm ==
    /\ handling
    /\ handling' = FALSE
    /\ timer' = IF timer = "deleted" THEN timer ELSE "armed"
    /\ undefined' = IF timer = "deleted" THEN "timer" ELSE undefined
    /\ UNCHANGED <<vars, stage, crossed>>

PingerNext ==
    /\ undefined = "no"
    /\ \/ InitReporting \/ Loop \/ EndReporting \/ MakeReport \/ Delete
       \/ Expires \/ Echoes \/ HandleTimer \/ Rearm
       \/ Lose /\ UNCHANGED reportVars

PingerSpec == PingerInit /\ [][PingerNext]_pingerVars

-------------------------------------------------------------------------------
\* Types, and: the timer exists from the beginning of the loop to its end.
ReportTypeOK ==
    /\ stage \in {"begin", "loop", "ended", "over", "deleted"}
    /\ timer = "null" <=> stage = "begin"
    /\ timer \in {"armed", "expired", "running"} <=> stage = "loop"
    /\ timer \in {"deleted", "freed"} <=> stage \in {"ended", "over", "deleted"}
    /\ timer = "running" => handling
    /\ {handling, crossed} \subseteq BOOLEAN
    /\ handling => io = "idle"
    /\ undefined \in {"no", "timer", "twice"}

\* A report is made after the loop's end, beside or after the last one, and the
\* deleted timer armed again, only if the thread deleted the timer while its
\* handler was queued or running (ReportingActivity.h:56-67, 92-99).
NoLateReport ==
    (handling /\ stage # "loop") \/ undefined = "timer" => crossed

\* A timer is deleted once: testMasterFSM goes on with a throughput test after
\* an availability test that reports every second (testMasterFSM.cpp:104, 113-114).
TimerDeletedOnce == undefined # "twice"

===============================================================================
