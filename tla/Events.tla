-------------------------------- MODULE Events --------------------------------
(***************************************************************************)
(* What travels on the serial line and what the two state machines react   *)
(* to (Events.h).  A byte is named by its role: the standard codes 0..239  *)
(* are one value "Data", the code 240 that asks the remote for its results *)
(* is "EndData", and the eight bytes of an answer are one value "Result".  *)
(***************************************************************************)

\* The user's commands, which are also bytes of the protocol.
UserCommands == {"AvailabilityModeCommand", "ThroughputModeCommand", "EndModeCommand"}

\* The bytes above the standard codes: each is an event of its own.
ControlBytes == UserCommands \cup {"RemoteAck", "MasterAck", "EndTest"}

Bytes == ControlBytes \cup {"Data", "EndData", "Result"}

\* A timer's expiry is an event that no byte carries.
Events == ControlBytes \cup {"Timeout"}

===============================================================================
