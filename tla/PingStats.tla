------------------------------ MODULE PingStats ------------------------------
(***************************************************************************)
(* The accounts the master's pinger keeps (MasterPinger.cpp): how many     *)
(* bytes it sent, how many came back, how many it takes for lost, and      *)
(* whether it considers the remote reachable.  The pinger's thread writes  *)
(* a code, counts it and records it, in three steps; the io thread books   *)
(* an echo in three steps of its own, in between.  A ping carries nothing  *)
(* but its code, and the codes are used over and over again.               *)
(***************************************************************************)
EXTENDS Naturals, Sequences, FiniteSets

CONSTANTS
    NbCodes,    \* how many standard codes there are (240)
    Threshold,  \* AVAIL_THRESHOLD (3)
    Delay,      \* how many pings and echoes the line holds at most
    MaxSent,    \* bound on the pings of a run
    MaxLoss     \* bound on those the line loses

ASSUME PingAssumption ==
    /\ NbCodes \in Nat \ {0}
    /\ {Threshold, Delay, MaxSent, MaxLoss} \subseteq Nat

VARIABLES
    pc,         \* the pinger's thread: "write", "count", "record", "check", "done"
    code,       \* the code it sends next
    io,         \* the io thread: "idle", "found", "counted"
    echo,       \* the code it is handling (`it')
    sent, received, lost, reachable,
    sendTimes,  \* the keys of the map _sendTimes
    line,       \* pings and echoes under way, in order: [code, ping]
    losses,
    ping,       \* history: how many pings were written
    recorded,   \* history: the ping each code of _sendTimes was recorded for
    declared    \* history: the pings that were declared lost

vars == <<pc, code, io, echo, sent, received, lost, reachable, sendTimes, line, losses,
          ping, recorded, declared>>
ioVars == <<io, echo, received, lost, declared>>

Codes == 0..(NbCodes - 1)
Pings == 1..MaxSent

Init ==
    /\ pc = "write"
    /\ code = 0
    /\ io = "idle" /\ echo = 0
    /\ sent = 0 /\ received = 0 /\ lost = 0
    /\ reachable = FALSE
    /\ sendTimes = {}
    /\ line = <<>>
    /\ losses = 0
    /\ ping = 0
    /\ recorded = [c \in Codes |-> 0]
    /\ declared = {}

-------------------------------------------------------------------------------
\* One turn of the loop of operator(): write(), _sent++, _sendTimes[byte] = now,
\* and 100 ms later the verdict.
Write ==
    /\ pc = "write"
    /\ ping < MaxSent
    /\ Len(line) < Delay
    /\ pc' = "count"
    /\ ping' = ping + 1
    /\ line' = Append(line, [code |-> code, ping |-> ping + 1])
    /\ UNCHANGED <<ioVars, code, sent, reachable, sendTimes, losses, recorded>>

Count ==
    /\ pc = "count"
    /\ pc' = "record"
    /\ sent' = sent + 1
    /\ UNCHANGED <<ioVars, code, reachable, sendTimes, line, losses, ping, recorded>>

\* Faulty: the codes are not used again after the last one.
RecordNoWrap ==
    /\ pc = "record"
    /\ pc' = "check"
    /\ sendTimes' = sendTimes \cup {code}
    /\ recorded' = [recorded EXCEPT ![code] = ping]
    /\ code' = code + 1
    /\ UNCHANGED <<ioVars, sent, reachable, line, losses, ping>>

Record ==
    /\ pc = "record"
    /\ pc' = "check"
    /\ sendTimes' = sendTimes \cup {code}
    /\ recorded' = [recorded EXCEPT ![code] = ping]
    /\ code' = (code + 1) % NbCodes
    /\ UNCHANGED <<ioVars, sent, reachable, line, losses, ping>>

\* Faulty: once reachable, always reachable.
CheckOnce ==
    /\ pc = "check"
    /\ pc' = "write"
    /\ reachable' = (reachable \/ (sent <= Threshold + received + lost /\ received + lost <= sent))
    /\ UNCHANGED <<ioVars, code, sent, sendTimes, line, losses, ping, recorded>>

\* The subtraction is of unsigned numbers: sent - (received + lost) > Threshold.
Check ==
    /\ pc = "check"
    /\ pc' = "write"
    /\ reachable' = (sent <= Threshold + received + lost /\ received + lost <= sent)
    /\ UNCHANGED <<ioVars, code, sent, sendTimes, line, losses, ping, recorded>>

\* The state's exit() asks the thread to stop; echoes may still come.
Stop ==
    /\ pc = "write"
    /\ pc' = "done"
    /\ UNCHANGED <<ioVars, code, sent, reachable, sendTimes, line, losses, ping, recorded>>

\* What the map holds before the echoed code.  Its order is that of the codes.
Before(c) == {d \in sendTimes : d < c}

\* handleReceive() of an echo: find(byte) and ++_received; an echo of a code
\* that is not in the map is only logged.
HandleReceive ==
    /\ io = "idle"
    /\ line # <<>>
    /\ line' = Tail(line)
    /\ IF Head(line).code \in sendTimes
       THEN /\ io' = "found"
            /\ echo' = Head(line).code
            /\ received' = received + 1
       ELSE UNCHANGED <<io, echo, received>>
    /\ UNCHANGED <<pc, code, sent, lost, reachable, sendTimes, losses, ping, recorded, declared>>

\* Faulty: the echoed code is counted as lost too ...
CountLostAndEcho ==
    /\ io = "found"
    /\ io' = "counted"
    /\ lost' = lost + Cardinality(Before(echo) \cup {echo})
    /\ declared' = declared \cup {recorded[c] : c \in Before(echo)}
    /\ UNCHANGED <<pc, code, echo, sent, received, reachable, sendTimes, line, losses, ping,
                   recorded>>

\* ... or what is erased is not counted.
CountNone ==
    /\ io = "found"
    /\ io' = "counted"
    /\ UNCHANGED <<pc, code, echo, sent, received, lost, reachable, sendTimes, line, losses,
                   ping, recorded, declared>>

\* _lost += distance(begin, it).
CountLost ==
    /\ io = "found"
    /\ io' = "counted"
    /\ lost' = lost + Cardinality(Before(echo))
    /\ declared' = declared \cup {recorded[c] : c \in Before(echo)}
    /\ UNCHANGED <<pc, code, echo, sent, received, reachable, sendTimes, line, losses, ping,
                   recorded>>

\* Both erase() calls.
Erase ==
    /\ io = "counted"
    /\ io' = "idle"
    /\ sendTimes' = sendTimes \ (Before(echo) \cup {echo})
    /\ UNCHANGED <<pc, code, echo, sent, received, lost, reachable, line, losses, ping,
                   recorded, declared>>

\* The line loses the oldest byte on it.
Lose ==
    /\ line # <<>>
    /\ losses < MaxLoss
    /\ losses' = losses + 1
    /\ line' = Tail(line)
    /\ UNCHANGED <<ioVars, pc, code, sent, reachable, sendTimes, ping, recorded>>

Next ==
    \/ Write \/ Count \/ Record \/ Check \/ Stop
    \/ HandleReceive \/ CountLost \/ Erase
    \/ Lose

Spec == Init /\ [][Next]_vars

-------------------------------------------------------------------------------
TypeOK ==
    /\ pc \in {"write", "count", "record", "check", "done"}
    /\ {code, echo} \subseteq Codes
    /\ io \in {"idle", "found", "counted"}
    /\ {sent, received, lost, losses, ping} \subseteq Nat
    /\ reachable \in BOOLEAN
    /\ sendTimes \subseteq Codes
    /\ line \in Seq([code : Codes, ping : Nat])
    /\ recorded \in [Codes -> Nat]
    /\ declared \subseteq Nat
    /\ ping = IF pc = "count" THEN sent + 1 ELSE sent

\* The recorded pings that are neither booked as received nor as lost.
Awaited ==
    CASE io = "idle"    -> sendTimes
      [] io = "found"   -> sendTimes \ {echo}
      [] io = "counted" -> sendTimes \ (Before(echo) \cup {echo})

Recorded == IF pc = "record" THEN sent - 1 ELSE sent

\* No ping is booked twice: those received, those taken for lost and those
\* still awaited are never more than were recorded, although each thread works
\* on its accounts in the middle of the other's steps and an echo may overtake
\* the counting of its own ping (MasterPinger.cpp:58-61, 104-110).
NothingBookedTwice == received + lost + Cardinality(Awaited) <= Recorded

\* A report may be made at any time, by the timer or at the end, and says both
\* whether the remote is reachable and what was counted: the verdict is never
\* older than one ping (MasterPinger.cpp:60-73, 182-185).
VerdictFresh == reachable => sent <= received + lost + Threshold + 1

\* So the unsigned subtraction of operator() never wraps (MasterPinger.cpp:66).
NeverMoreThanSent == received + lost <= sent

Underway == {line[i].ping : i \in DOMAIN line}

\* While the codes are used for the first time the statistics are exact: what
\* is declared lost will never come, and each recorded ping is received, lost
\* or awaited (MasterPinger.cpp:104-110).
FirstRoundExact ==
    ping <= NbCodes =>
        /\ declared \cap Underway = {}
        /\ received + lost + Cardinality(Awaited) = Recorded

\* A verdict of "reachable" is never due to pings the accounts know nothing
\* of: at most Threshold of all those written neither came back nor were
\* declared lost when it was made (MasterPinger.cpp:65-73).
VerdictIsSound ==
    [][pc = "check" /\ pc' = "write" /\ reachable' =>
          Cardinality(Underway \ declared) <= Threshold]_vars

\* "We consider everything sent before 'byte' was lost" (MasterPinger.cpp:107):
\* an echo declares only pings lost that were sent before the echoed one.
OnlyEarlierLost ==
    [][\A n \in declared' \ declared : n < recorded[echo]]_vars

===============================================================================
