--------------------------- MODULE MasterController ---------------------------
(***************************************************************************)
(* The controller that runs one availability test after the other instead  *)
(* of a script (MasterController.cpp).  Once a second its timer's handler  *)
(* looks at the machine's state, without a lock, and may give a command to *)
(* a DispatchingRunnable.  (The master's main() has it commented out.)     *)
(***************************************************************************)
EXTENDS Events

VARIABLE trying  \* _tryingAvalability

Init == trying = FALSE

\* What periodicAction() posts.  It takes the remote for unreachable at every
\* look, so it never asks for a throughput test.
Commands(state) ==
    CASE state = "Idle" /\ ~trying             -> {"AvailabilityModeCommand"}
      [] state = "AvailabilityMode" /\ ~trying -> {"EndModeCommand"}
      [] OTHER                                 -> {}

\* "Only dispatch the signal the first time.  After that we wait for the FSM to
\* go in availability mode."
PeriodicAction(state) ==
    trying' = (state = "Idle" \/ (trying /\ state # "AvailabilityMode"))

===============================================================================
