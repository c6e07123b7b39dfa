----------------------------- MODULE TestSession -----------------------------
(***************************************************************************)
(* What the two state machines promise together: one test after another,   *)
(* each an eight-step handshake in which neither end is ever more than one *)
(* step ahead of the other, whatever is lost, late or repeated between.    *)
(* The names are those of the states of MasterFSM.h and RemoteFSM.h.       *)
(***************************************************************************)
VARIABLES
    master,  \* state of the master, or "Gone"
    remote   \* state of the remote, or "Gone"

vars == <<master, remote>>

Tests == {"Availability", "Throughput"}

\* The four states of a test of each kind.
Asking(t) ==
    IF t = "Availability" THEN "SentAvailableModeCommand" ELSE "SentThroughputModeCommand"
Accepted(t) ==
    IF t = "Availability" THEN "AvailabilityCommandReceived" ELSE "ThroughputCommandReceived"
Mode(t) ==
    IF t = "Availability" THEN "AvailabilityMode" ELSE "ThroughputMode"
Serving(t) ==
    IF t = "Availability" THEN "RemoteAvailabilityMode" ELSE "RemoteThroughputMode"

At(m, r) == master = m /\ remote = r
Become(m, r) == master' = m /\ remote' = r

Init == At("Idle", "RemoteIdle")

\* The master asks for a test and the remote accepts it; the master begins,
\* then the remote.
Ask(t)    == At("Idle", "RemoteIdle") /\ Become(Asking(t), "RemoteIdle")
Accept(t) == At(Asking(t), "RemoteIdle") /\ Become(Asking(t), Accepted(t))
Begin(t)  == At(Asking(t), Accepted(t)) /\ Become(Mode(t), Accepted(t))
Join(t)   == At(Mode(t), Accepted(t)) /\ Become(Mode(t), Serving(t))

\* The master ends it and the remote agrees; the master closes, then the remote.
End(t)       == At(Mode(t), Serving(t)) /\ Become("WaitAckAfterEndMode", Serving(t))
AcceptEnd(t) == At("WaitAckAfterEndMode", Serving(t))
                /\ Become("WaitAckAfterEndMode", "EndModeReceived")
Close        == At("WaitAckAfterEndMode", "EndModeReceived") /\ Become("Idle", "EndModeReceived")
Leave        == At("Idle", "EndModeReceived") /\ Become("Idle", "RemoteIdle")

\* Both ends agree on what they do.
Agreed == At("Idle", "RemoteIdle") \/ \E t \in Tests : At(Mode(t), Serving(t))

\* The user ends the whole test then; the remote follows, or never hears of it.
Quit == Agreed /\ Become("Gone", remote)
Follow == master = "Gone" /\ Become("Gone", "Gone")

\* A process uses freed memory: nothing is promised any more.
Break == Become("Gone", "Gone")

Next ==
    \/ \E t \in Tests : Ask(t) \/ Accept(t) \/ Begin(t) \/ Join(t) \/ End(t) \/ AcceptEnd(t)
    \/ Close \/ Leave \/ Quit \/ Follow \/ Break

Spec == Init /\ [][Next]_vars

===============================================================================
