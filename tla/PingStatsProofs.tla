--------------------------- MODULE PingStatsProofs ---------------------------
(***************************************************************************)
(* The pinger's accounts never book a ping twice, for any number of codes, *)
(* any threshold, any delay and any losses; and its verdict is right as    *)
(* long as the codes on the line are different.                            *)
(***************************************************************************)
EXTENDS PingReports, FiniteSetTheorems, SequenceTheorems, TLAPS

-------------------------------------------------------------------------------
(***************************************************************************)
(* Facts about codes and sets of codes.                                    *)
(***************************************************************************)

\* The code after the last one is the first again.
LEMMA NextCode == \A c \in Codes : (c + 1) % NbCodes \in Codes
BY PingAssumption DEF Codes

\* _sendTimes is finite, and so is every part of it.
LEMMA CodesFinite == ASSUME NEW S \in SUBSET Codes
                     PROVE  IsFiniteSet(S) /\ Cardinality(S) \in Nat
<1>1. NbCodes \in Nat
  BY PingAssumption
<1>2. IsFiniteSet(Codes)
  BY <1>1, FS_Interval DEF Codes
<1> QED
  BY <1>2, FS_Subset, FS_CardinalityType

\* A part of a set of codes is no larger than the whole.
LEMMA SmallerPart == ASSUME NEW T \in SUBSET Codes, NEW S \in SUBSET T
                     PROVE  Cardinality(S) <= Cardinality(T)
BY CodesFinite, FS_Subset

\* What a set gains by one more code is at most one.
LEMMA OneMore == ASSUME NEW S \in SUBSET Codes, NEW c \in Codes
                 PROVE  Cardinality(S \cup {c}) <= Cardinality(S) + 1
<1>1. IsFiniteSet(S) /\ Cardinality(S) \in Nat
  BY CodesFinite
<1>2. Cardinality(S \cup {c}) \in {Cardinality(S), Cardinality(S) + 1}
  BY <1>1, FS_AddElement
<1> QED
  BY <1>1, <1>2

\* Taking a part out of a set takes its size away.
LEMMA TakenOut == ASSUME NEW T \in SUBSET Codes, NEW S \in SUBSET T
                  PROVE  Cardinality(T \ S) + Cardinality(S) = Cardinality(T)
<1>1. IsFiniteSet(T) /\ T \cap S = S
  BY CodesFinite
<1>2. /\ Cardinality(T) \in Nat
      /\ Cardinality(S) \in Nat
      /\ Cardinality(T \ S) \in Nat
  BY CodesFinite
<1>3. Cardinality(T \ S) = Cardinality(T) - Cardinality(T \cap S)
  BY <1>1, FS_Difference
<1> QED
  BY <1>1, <1>2, <1>3

-------------------------------------------------------------------------------
(***************************************************************************)
(* Types.                                                                  *)
(***************************************************************************)

LEMMA InitTypes == Init => TypeOK
<1> SUFFICES ASSUME Init PROVE TypeOK
  OBVIOUS
<1>1. 0 \in Codes
  BY PingAssumption DEF Codes
<1>2. /\ {code, echo} \subseteq Codes
      /\ sendTimes \subseteq Codes
      /\ recorded \in [Codes -> Nat]
      /\ declared \subseteq Nat
  BY <1>1 DEF Init
<1>3. line \in Seq([code : Codes, ping : Nat])
  BY DEF Init
<1> QED
  BY <1>2, <1>3 DEF Init, TypeOK

\* Taking an echo off the line keeps the types.
LEMMA EchoTypes ==
    ASSUME TypeOK, HandleReceive
    PROVE  TypeOK'
<1>1. /\ Head(line) \in [code : Codes, ping : Nat]
      /\ line' \in Seq([code : Codes, ping : Nat])
  BY HeadTailProperties DEF TypeOK, HandleReceive
<1>2. Head(line).code \in Codes
  BY <1>1
<1>3. echo' \in Codes
  BY <1>2 DEF TypeOK, HandleReceive
<1>4. io' \in {"idle", "found", "counted"}
  BY DEF TypeOK, HandleReceive
<1>5. received' \in Nat
  <2>1. received' = received \/ received' = received + 1
    BY DEF HandleReceive
  <2> QED
    BY <2>1 DEF TypeOK
<1>6. UNCHANGED <<pc, code, sent, lost, reachable, sendTimes, losses, ping, recorded, declared>>
  BY DEF HandleReceive
<1> QED
  BY <1>1, <1>3, <1>4, <1>5, <1>6 DEF TypeOK

\* The accounts, the map and the line keep their types, and _sent lags one
\* behind the pings written exactly between write() and _sent++
\* (MasterPinger.cpp:58-60).
THEOREM Types == Spec => []TypeOK
<1>1. Init => TypeOK
  BY InitTypes
<1>2. TypeOK /\ [Next]_vars => TypeOK'
  <2> SUFFICES ASSUME TypeOK, [Next]_vars
               PROVE  TypeOK'
    OBVIOUS
  <2> USE DEF TypeOK, ioVars
  <2>1. CASE Write
    <3>1. [code |-> code, ping |-> ping + 1] \in [code : Codes, ping : Nat]
      OBVIOUS
    <3>2. line' \in Seq([code : Codes, ping : Nat])
      BY <2>1, <3>1 DEF Write
    <3> QED
      BY <2>1, <3>2 DEF Write
  <2>2. CASE Count
    BY <2>2 DEF Count
  <2>3. CASE Record
    <3>1. code' \in Codes
      BY <2>3, NextCode DEF Record
    <3>2. recorded' \in [Codes -> Nat]
      BY <2>3 DEF Record
    <3> QED
      BY <2>3, <3>1, <3>2 DEF Record
  <2>4. CASE Check
    BY <2>4 DEF Check
  <2>5. CASE Stop
    BY <2>5 DEF Stop
  <2>6. CASE HandleReceive
    BY <2>6, EchoTypes
  <2>7. CASE CountLost
    <3>1. Cardinality(Before(echo)) \in Nat
      BY CodesFinite DEF Before
    <3>2. lost' \in Nat
      BY <2>7, <3>1 DEF CountLost
    <3>3. declared' \subseteq Nat
      BY <2>7 DEF CountLost, Before
    <3> QED
      BY <2>7, <3>2, <3>3 DEF CountLost
  <2>8. CASE Erase
    BY <2>8 DEF Erase
  <2>9. CASE Lose
    <3>1. line' \in Seq([code : Codes, ping : Nat])
      BY <2>9, HeadTailProperties DEF Lose
    <3>2. losses' \in Nat
      BY <2>9 DEF Lose
    <3>3. UNCHANGED <<pc, code, io, echo, sent, received, lost, reachable, sendTimes,
                      ping, recorded, declared>>
      BY <2>9 DEF Lose
    <3> QED
      BY <3>1, <3>2, <3>3
  <2>10. CASE UNCHANGED vars
    BY <2>10 DEF vars
  <2> QED
    BY <2>1, <2>2, <2>3, <2>4, <2>5, <2>6, <2>7, <2>8, <2>9, <2>10 DEF Next
<1> QED
  BY <1>1, <1>2, PTL DEF Spec

-------------------------------------------------------------------------------
(***************************************************************************)
(* The accounts.  What handleReceive() found stays in the map until it     *)
(* erases it: the pinger's thread only adds to the map.  With that, every  *)
(* step moves pings from one account to another and creates none.          *)
(***************************************************************************)
EchoKnown == io # "idle" => echo \in sendTimes

AccountsInv == TypeOK /\ EchoKnown /\ NothingBookedTwice

\* The awaited pings are codes of the map.
LEMMA AwaitedInMap == TypeOK => Awaited \in SUBSET sendTimes /\ Awaited \in SUBSET Codes
BY DEF TypeOK, Awaited, Before

\* The numbers of the accounts.
LEMMA CountTypes == TypeOK => received \in Nat /\ lost \in Nat /\ Recorded \in Int
BY DEF TypeOK, Recorded

\* A step that leaves the accounts, the map and what Recorded counts alone.
LEMMA AccountsUntouched ==
    ASSUME AccountsInv, TypeOK', UNCHANGED <<io, echo, received, lost, sendTimes>>,
           Recorded' = Recorded
    PROVE  AccountsInv'
BY DEF AccountsInv, EchoKnown, NothingBookedTwice, Awaited, Before

\* Recording a ping adds at most its own code to the awaited ones.
LEMMA RecordKeeps ==
    ASSUME AccountsInv, TypeOK', Record
    PROVE  AccountsInv'
<1> USE DEF AccountsInv
<1>1. EchoKnown'
  BY DEF Record, ioVars, EchoKnown
<1>2. Awaited' \in SUBSET (Awaited \cup {code})
  BY DEF Record, ioVars, Awaited, Before, TypeOK
<1>3. Awaited \cup {code} \in SUBSET Codes /\ Awaited \in SUBSET Codes /\ code \in Codes
  BY AwaitedInMap DEF TypeOK
<1>4. Cardinality(Awaited') <= Cardinality(Awaited) + 1
  <2>1. Cardinality(Awaited') <= Cardinality(Awaited \cup {code})
    BY <1>2, <1>3, SmallerPart
  <2>2. Cardinality(Awaited \cup {code}) <= Cardinality(Awaited) + 1
    BY <1>3, OneMore
  <2>3. /\ Cardinality(Awaited') \in Nat
        /\ Cardinality(Awaited \cup {code}) \in Nat
        /\ Cardinality(Awaited) \in Nat
    BY <1>2, <1>3, CodesFinite
  <2> QED
    BY <2>1, <2>2, <2>3
<1>5. Recorded' = Recorded + 1
  BY DEF Record, Recorded, TypeOK
<1>6. received' = received /\ lost' = lost
  BY DEF Record, ioVars
<1>7. /\ Cardinality(Awaited') \in Nat /\ Cardinality(Awaited) \in Nat
      /\ received \in Nat /\ lost \in Nat /\ Recorded \in Int
  BY <1>2, <1>3, CodesFinite, CountTypes
<1>8. NothingBookedTwice'
  BY <1>4, <1>5, <1>6, <1>7 DEF NothingBookedTwice
<1> QED
  BY <1>1, <1>8

\* An echo that is found moves its code from the awaited to the received.
LEMMA HandleReceiveKeeps ==
    ASSUME AccountsInv, TypeOK', HandleReceive
    PROVE  AccountsInv'
<1> USE DEF AccountsInv
<1>1. CASE Head(line).code \notin sendTimes
  <2>1. UNCHANGED <<io, echo, received, lost, sendTimes, sent, pc>>
    BY <1>1 DEF HandleReceive
  <2> QED
    BY <2>1, AccountsUntouched DEF Recorded
<1>2. CASE Head(line).code \in sendTimes
  <2>1. /\ io = "idle" /\ io' = "found"
        /\ echo' \in sendTimes
        /\ received' = received + 1
        /\ UNCHANGED <<lost, sendTimes, sent, pc>>
    BY <1>2 DEF HandleReceive
  <2>2. Awaited = sendTimes /\ Awaited' = sendTimes \ {echo'}
    BY <2>1 DEF Awaited
  <2>3. Cardinality(sendTimes \ {echo'}) = Cardinality(sendTimes) - 1
    BY <2>1, CodesFinite, FS_RemoveElement DEF TypeOK
  <2>4. /\ Cardinality(sendTimes) \in Nat
        /\ received \in Nat /\ lost \in Nat /\ Recorded \in Int
    BY CodesFinite, CountTypes DEF TypeOK
  <2>5. Recorded' = Recorded
    BY <2>1 DEF Recorded
  <2>6. NothingBookedTwice'
    BY <2>1, <2>2, <2>3, <2>4, <2>5 DEF NothingBookedTwice
  <2> QED
    BY <2>1, <2>6 DEF EchoKnown
<1> QED
  BY <1>1, <1>2

\* What is declared lost is taken from the awaited.
LEMMA CountLostKeeps ==
    ASSUME AccountsInv, TypeOK', CountLost
    PROVE  AccountsInv'
<1> USE DEF AccountsInv
<1>1. /\ io = "found" /\ io' = "counted"
      /\ lost' = lost + Cardinality(Before(echo))
      /\ UNCHANGED <<echo, received, sendTimes, sent, pc>>
  BY DEF CountLost
<1>2. sendTimes \in SUBSET Codes /\ echo \in sendTimes /\ echo \in Nat
  BY <1>1 DEF TypeOK, EchoKnown, Codes
<1>3. Before(echo) \in SUBSET Awaited
  BY <1>1, <1>2 DEF Awaited, Before, Codes
<1>4. Awaited' = Awaited \ Before(echo)
  BY <1>1 DEF Awaited, Before
<1>5. Cardinality(Awaited') + Cardinality(Before(echo)) = Cardinality(Awaited)
  BY <1>3, <1>4, TakenOut, AwaitedInMap
<1>6. /\ Cardinality(Awaited) \in Nat
      /\ Cardinality(Awaited') \in Nat
      /\ Cardinality(Before(echo)) \in Nat
      /\ received \in Nat /\ lost \in Nat /\ Recorded \in Int
  <2>1. Awaited \in SUBSET Codes /\ Awaited' \in SUBSET Codes /\ Before(echo) \in SUBSET Codes
    BY <1>3, <1>4, AwaitedInMap
  <2> QED
    BY <2>1, CodesFinite, CountTypes
<1>7. Recorded' = Recorded
  BY <1>1 DEF Recorded
<1>8. NothingBookedTwice'
  BY <1>1, <1>5, <1>6, <1>7 DEF NothingBookedTwice
<1>9. EchoKnown'
  BY <1>1, <1>2 DEF EchoKnown
<1> QED
  BY <1>8, <1>9

\* Erasing leaves the map with what was awaited already.
LEMMA EraseKeeps ==
    ASSUME AccountsInv, TypeOK', Erase
    PROVE  AccountsInv'
<1> USE DEF AccountsInv
<1>1. /\ io = "counted" /\ io' = "idle"
      /\ sendTimes' = sendTimes \ (Before(echo) \cup {echo})
      /\ UNCHANGED <<received, lost, sent, pc>>
  BY DEF Erase
<1>2. Awaited' = Awaited
  BY <1>1 DEF Awaited
<1> QED
  BY <1>1, <1>2 DEF EchoKnown, NothingBookedTwice, Recorded

\* Every step keeps the accounts.
LEMMA AccountsStep == AccountsInv /\ TypeOK' /\ [Next]_vars => AccountsInv'
<1> SUFFICES ASSUME AccountsInv, TypeOK', [Next]_vars
             PROVE  AccountsInv'
  OBVIOUS
<1>1. CASE Write
  BY <1>1, AccountsUntouched DEF Write, ioVars, Recorded
<1>2. CASE Count
  <2>1. Recorded' = Recorded
    BY <1>2 DEF Count, Recorded, AccountsInv, TypeOK
  <2> QED
    BY <1>2, <2>1, AccountsUntouched DEF Count, ioVars
<1>3. CASE Record
  BY <1>3, RecordKeeps
<1>4. CASE Check
  BY <1>4, AccountsUntouched DEF Check, ioVars, Recorded
<1>5. CASE Stop
  BY <1>5, AccountsUntouched DEF Stop, ioVars, Recorded
<1>6. CASE HandleReceive
  BY <1>6, HandleReceiveKeeps
<1>7. CASE CountLost
  BY <1>7, CountLostKeeps
<1>8. CASE Erase
  BY <1>8, EraseKeeps
<1>9. CASE Lose
  BY <1>9, AccountsUntouched DEF Lose, ioVars, Recorded
<1>10. CASE UNCHANGED vars
  BY <1>10, AccountsUntouched DEF vars, Recorded
<1> QED
  BY <1>1, <1>2, <1>3, <1>4, <1>5, <1>6, <1>7, <1>8, <1>9, <1>10 DEF Next

\* The accounts begin in balance.
LEMMA AccountsInit == Init => AccountsInv
<1> SUFFICES ASSUME Init PROVE AccountsInv
  OBVIOUS
<1>1. TypeOK
  BY InitTypes
<1>2. Awaited = {} /\ Recorded = 0 /\ received = 0 /\ lost = 0
  BY DEF Init, Awaited, Recorded
<1>3. NothingBookedTwice
  BY <1>2, FS_EmptySet DEF NothingBookedTwice
<1> QED
  BY <1>1, <1>3 DEF AccountsInv, EchoKnown, Init

\* No ping is ever booked twice: received, taken for lost or awaited, whatever
\* the interleaving of the two threads and however often the codes are reused
\* (MasterPinger.cpp:58-61, 104-110).
THEOREM Accounts == Spec => []NothingBookedTwice
<1>1. Init => AccountsInv
  BY AccountsInit
<1>2. Spec => []TypeOK
  BY Types
<1>3. AccountsInv => NothingBookedTwice
  BY DEF AccountsInv
<1> QED
  BY <1>1, <1>2, <1>3, AccountsStep, PTL DEF Spec

\* The unsigned subtraction of operator() never wraps round: what is booked is
\* never more than what was sent (MasterPinger.cpp:66).
THEOREM NoWrap == Spec => []NeverMoreThanSent
<1>1. TypeOK /\ NothingBookedTwice => NeverMoreThanSent
  <2> SUFFICES ASSUME TypeOK, NothingBookedTwice
               PROVE  NeverMoreThanSent
    OBVIOUS
  <2>1. Cardinality(Awaited) \in Nat
    BY AwaitedInMap, CodesFinite
  <2>2. Recorded <= sent /\ Recorded \in Int
    BY DEF Recorded, TypeOK
  <2>3. received \in Nat /\ lost \in Nat /\ sent \in Nat
    BY DEF TypeOK
  <2> QED
    BY <2>1, <2>2, <2>3 DEF NothingBookedTwice, NeverMoreThanSent
<1> QED
  BY <1>1, Types, Accounts, PTL

-------------------------------------------------------------------------------
(***************************************************************************)
(* Verdicts.                                                               *)
(***************************************************************************)
\* A ping that was counted since the last verdict may be one more.
Unjudged == IF pc \in {"record", "check"} THEN 1 ELSE 0

VerdictInv == TypeOK /\ (reachable => sent <= received + lost + Threshold + Unjudged)

\* What a report says of the remote always fits what it counts (MasterPinger.cpp:
\* 60-73, 182-185), whenever the timer or the thread makes it.
THEOREM Verdicts == Spec => []VerdictFresh
<1>1. Init => (reachable => sent <= received + lost + Threshold + Unjudged)
  BY DEF Init
<1>2. VerdictInv /\ TypeOK' /\ [Next]_vars => VerdictInv'
  <2> SUFFICES ASSUME VerdictInv, TypeOK', [Next]_vars
               PROVE  VerdictInv'
    OBVIOUS
  <2>1. {sent, received, lost, Threshold} \subseteq Nat
    BY PingAssumption DEF VerdictInv, TypeOK
  <2>2. CASE Write
    BY <2>1, <2>2 DEF VerdictInv, Write, ioVars, Unjudged
  <2>3. CASE Count
    BY <2>1, <2>3 DEF VerdictInv, Count, ioVars, Unjudged
  <2>4. CASE Record
    BY <2>1, <2>4 DEF VerdictInv, Record, ioVars, Unjudged
  <2>5. CASE Check
    <3>1. reachable' => sent <= Threshold + received + lost
      BY <2>5 DEF Check
    <3>2. pc' = "write" /\ UNCHANGED <<sent, received, lost>>
      BY <2>5 DEF Check, ioVars
    <3> QED
      BY <2>1, <3>1, <3>2 DEF VerdictInv, Unjudged
  <2>6. CASE Stop
    BY <2>1, <2>6 DEF VerdictInv, Stop, ioVars, Unjudged
  <2>7. CASE HandleReceive
    BY <2>1, <2>7 DEF VerdictInv, HandleReceive, Unjudged
  <2>8. CASE CountLost
    <3>1. Before(echo) \in SUBSET Codes
      BY DEF VerdictInv, TypeOK, Before
    <3>2. Cardinality(Before(echo)) \in Nat
      BY <3>1, CodesFinite
    <3> QED
      BY <2>1, <2>8, <3>2 DEF VerdictInv, CountLost, Unjudged
  <2>9. CASE Erase
    BY <2>1, <2>9 DEF VerdictInv, Erase, Unjudged
  <2>10. CASE Lose
    BY <2>1, <2>10 DEF VerdictInv, Lose, ioVars, Unjudged
  <2>11. CASE UNCHANGED vars
    BY <2>1, <2>11 DEF VerdictInv, vars, Unjudged
  <2> QED
    BY <2>2, <2>3, <2>4, <2>5, <2>6, <2>7, <2>8, <2>9, <2>10, <2>11 DEF Next
<1>3. VerdictInv => VerdictFresh
  BY PingAssumption DEF VerdictInv, VerdictFresh, Unjudged, TypeOK
<1>4. Spec => []TypeOK
  BY Types
<1>5. Init /\ TypeOK => VerdictInv
  BY <1>1 DEF VerdictInv
<1> QED
  BY <1>2, <1>3, <1>4, <1>5, PTL DEF Spec

-------------------------------------------------------------------------------
(***************************************************************************)
(* The first round of codes.                                               *)
(***************************************************************************)
\* Everything on the line was sent after ping n.
Later(n) == \A i \in DOMAIN line : n < line[i].ping

\* The n-th ping carries code n - 1, the pings are on the line in order, and
\* those declared lost or being booked are before them.
Ordered ==
    /\ pc \in {"count", "record"} => code = ping - 1
    /\ pc \notin {"count", "record"} /\ ping < NbCodes => code = ping
    /\ \A c \in sendTimes : recorded[c] = c + 1 /\ c < Recorded
    /\ \A i \in DOMAIN line : line[i].ping = line[i].code + 1 /\ line[i].ping <= ping
    /\ \A i, j \in DOMAIN line : i < j => line[i].ping < line[j].ping
    /\ \A d \in declared : d <= ping /\ Later(d)
    /\ io # "idle" => Later(echo + 1)

Exact == received + lost + Cardinality(Awaited) = Recorded

FirstRoundInv ==
    TypeOK /\ EchoKnown /\ (ping <= NbCodes => Ordered /\ Exact)

\* What is left of the line is still in order.
LEMMA TailOrdered ==
    ASSUME TypeOK, line # <<>>, line' = Tail(line)
    PROVE  \A i \in DOMAIN line' : i + 1 \in DOMAIN line /\ line'[i] = line[i + 1]
<1>1. line \in Seq([code : Codes, ping : Nat])
  BY DEF TypeOK
<1> QED
  BY <1>1

\* A step of the thread that records nothing leaves the count alone.
LEMMA ExactUntouched ==
    ASSUME Exact, UNCHANGED <<io, echo, received, lost, sendTimes>>, Recorded' = Recorded
    PROVE  Exact'
BY DEF Exact, Awaited, Before

LEMMA OrderedStep ==
    ASSUME FirstRoundInv, TypeOK', [Next]_vars, ping <= NbCodes, ping' <= NbCodes
    PROVE  Ordered'
<1> USE DEF FirstRoundInv
<1>1. /\ {sent, ping, code, echo} \subseteq Nat
      /\ NbCodes \in Nat \ {0}
      /\ sendTimes \subseteq Nat
      /\ declared \subseteq Nat
      /\ ping = IF pc = "count" THEN sent + 1 ELSE sent
  <2>1. Codes \subseteq Nat /\ NbCodes \in Nat \ {0}
    BY PingAssumption DEF Codes
  <2> QED
    BY <2>1 DEF TypeOK
<1>2. \A i \in DOMAIN line : line[i].ping \in Nat /\ line[i].code \in Nat
  <2>1. \A i \in DOMAIN line : line[i] \in [code : Codes, ping : Nat]
    <3>1. line \in Seq([code : Codes, ping : Nat])
      BY DEF TypeOK
    <3>2. DOMAIN line = 1..Len(line)
      BY <3>1
    <3> QED
      BY <3>1, <3>2, ElementOfSeq
  <2>2. Codes \subseteq Nat
    BY PingAssumption DEF Codes
  <2> QED
    BY <2>1, <2>2
<1>3. CASE Write
  <2>1. /\ DOMAIN line' = 1..(Len(line) + 1) /\ DOMAIN line = 1..Len(line)
        /\ Len(line) \in Nat
        /\ line'[Len(line) + 1] = [code |-> code, ping |-> ping + 1]
        /\ \A i \in DOMAIN line : line'[i] = line[i]
    <3>1. line \in Seq([code : Codes, ping : Nat])
      BY DEF TypeOK
    <3>2. line' = Append(line, [code |-> code, ping |-> ping + 1])
      BY <1>3 DEF Write
    <3> QED
      BY <3>1, <3>2
  <2>2. /\ pc = "write" /\ pc' = "count" /\ ping' = ping + 1
        /\ UNCHANGED <<code, sent, sendTimes, recorded, declared, io, echo>>
    BY <1>3 DEF Write, ioVars
  <2>3. Recorded' = Recorded /\ Recorded = ping /\ code = ping
    BY <1>1, <2>2 DEF Recorded, Ordered
  <2>4. io # "idle" => echo + 1 <= ping
    BY <1>1, <2>3 DEF EchoKnown, Ordered
  <2>5. \A n \in Nat : n <= ping /\ Later(n) => Later(n)'
    BY <1>1, <2>1, <2>2 DEF Later
  <2>6. \A i \in DOMAIN line' : line'[i].ping = line'[i].code + 1 /\ line'[i].ping <= ping'
    BY <1>1, <1>2, <2>1, <2>2, <2>3 DEF Ordered
  <2>7. \A i, j \in DOMAIN line' : i < j => line'[i].ping < line'[j].ping
    BY <1>1, <1>2, <2>1, <2>2 DEF Ordered
  <2>8. io # "idle" => Later(echo + 1)'
    BY <1>1, <2>2, <2>4, <2>5 DEF Ordered, Later
  <2>9. \A d \in declared : d <= ping' /\ Later(d)'
    BY <1>1, <2>2, <2>5 DEF Ordered
  <2> QED
    BY <1>1, <2>2, <2>3, <2>6, <2>7, <2>8, <2>9 DEF Ordered, Later
<1>4. CASE Count
  <2>1. /\ pc = "count" /\ pc' = "record" /\ sent' = sent + 1
        /\ UNCHANGED <<line, ping, code, sendTimes, recorded, declared, io, echo>>
    BY <1>4 DEF Count, ioVars
  <2>2. Recorded' = Recorded
    BY <1>1, <2>1 DEF Recorded
  <2> QED
    BY <2>1, <2>2 DEF Ordered, Later
<1>5. CASE Record
  <2>1. /\ pc = "record" /\ pc' = "check" /\ code' = (code + 1) % NbCodes
        /\ sendTimes' = sendTimes \cup {code}
        /\ recorded' = [recorded EXCEPT ![code] = ping]
        /\ UNCHANGED <<line, ping, sent, declared, io, echo>>
    BY <1>5 DEF Record, ioVars
  <2>2. code = ping - 1 /\ Recorded = ping - 1 /\ Recorded' = ping
    BY <1>1, <2>1 DEF Recorded, Ordered
  <2>3. ping < NbCodes => code' = ping
    BY <1>1, <2>1, <2>2
  <2>4. \A c \in sendTimes' : recorded'[c] = c + 1 /\ c < Recorded'
    <3>1. code \in Codes /\ DOMAIN recorded = Codes
      BY DEF TypeOK
    <3>2. \A c \in sendTimes : c # code
      BY <1>1, <2>2 DEF Ordered
    <3>3. recorded'[code] = ping /\ \A c \in sendTimes : recorded'[c] = recorded[c]
      BY <2>1, <3>1, <3>2 DEF TypeOK
    <3>4. \A c \in sendTimes : recorded[c] = c + 1 /\ c < Recorded
      BY DEF Ordered
    <3> QED
      BY <1>1, <2>1, <2>2, <3>3, <3>4
  <2> QED
    BY <2>1, <2>3, <2>4 DEF Ordered, Later
<1>6. CASE Check \/ Stop \/ UNCHANGED vars
  <2>1. /\ UNCHANGED <<line, ping, code, sent, sendTimes, recorded, declared, io, echo>>
        /\ pc \in {"count", "record"} <=> pc' \in {"count", "record"}
        /\ Recorded' = Recorded
    BY <1>6 DEF Check, Stop, vars, ioVars, Recorded
  <2> QED
    BY <2>1 DEF Ordered, Later
<1>7. CASE HandleReceive
  <2>1. /\ io = "idle" /\ line # <<>> /\ line' = Tail(line)
        /\ UNCHANGED <<pc, ping, code, sent, sendTimes, recorded, declared>>
        /\ io' # "idle" => echo' = line[1].code
    <3>1. line # <<>> => Head(line) = line[1]
      BY DEF TypeOK
    <3> QED
      BY <1>7, <3>1 DEF HandleReceive
  <2>2. \A i \in DOMAIN line' : i + 1 \in DOMAIN line /\ line'[i] = line[i + 1] /\ i \in Nat /\ 1 < i + 1
    <3>1. \A i \in DOMAIN line' : i \in Nat /\ 1 < i + 1
      <4>1. line' \in Seq([code : Codes, ping : Nat])
        BY DEF TypeOK
      <4> QED
        BY <4>1
    <3> QED
      BY <2>1, <3>1, TailOrdered
  <2>3. io' # "idle" => \A i \in DOMAIN line' : echo' + 1 < line'[i].ping
    <3>1. 1 \in DOMAIN line /\ DOMAIN line = 1..Len(line) /\ Len(line) \in Nat
      <4>1. line \in Seq([code : Codes, ping : Nat])
        BY DEF TypeOK
      <4> QED
        BY <2>1, <4>1
    <3>2. io' # "idle" => echo' + 1 = line[1].ping
      BY <1>1, <1>2, <2>1, <3>1 DEF Ordered
    <3>3. \A i \in DOMAIN line' : line[1].ping < line'[i].ping
      BY <1>2, <2>2, <3>1 DEF Ordered
    <3> QED
      BY <3>2, <3>3
  <2>4. Recorded' = Recorded
    BY <2>1 DEF Recorded
  <2> QED
    BY <1>1, <1>2, <2>1, <2>2, <2>3, <2>4 DEF Ordered, Later
<1>8. CASE CountLost
  <2>1. /\ io = "found" /\ io' = "counted"
        /\ declared' = declared \cup {recorded[c] : c \in Before(echo)}
        /\ UNCHANGED <<line, pc, ping, code, sent, sendTimes, recorded, echo>>
    BY <1>8 DEF CountLost
  <2>2. \A c \in Before(echo) : recorded[c] = c + 1 /\ c < echo /\ c < Recorded
    BY DEF Before, Ordered
  <2>3. \A c \in Before(echo) : c \in Nat /\ Recorded <= ping /\ Recorded \in Int
    BY <1>1 DEF Before, Recorded
  <2>4. \A d \in declared' : d <= ping /\ Later(d)
    BY <1>1, <1>2, <2>1, <2>2, <2>3 DEF Ordered, Later
  <2> QED
    BY <2>1, <2>4 DEF Ordered, Later, Recorded
<1>9. CASE Erase
  BY <1>9 DEF Erase, Ordered, Later, Recorded
<1>10. CASE Lose
  <2>1. /\ line # <<>> /\ line' = Tail(line)
        /\ UNCHANGED <<pc, ping, code, sent, sendTimes, recorded, declared, io, echo>>
    BY <1>10 DEF Lose, ioVars
  <2>2. \A i \in DOMAIN line' : i + 1 \in DOMAIN line /\ line'[i] = line[i + 1] /\ i \in Nat /\ 1 < i + 1
    <3>1. \A i \in DOMAIN line' : i \in Nat /\ 1 < i + 1
      <4>1. line' \in Seq([code : Codes, ping : Nat])
        BY DEF TypeOK
      <4> QED
        BY <4>1
    <3> QED
      BY <2>1, <3>1, TailOrdered
  <2>3. Recorded' = Recorded
    BY <2>1 DEF Recorded
  <2> QED
    BY <1>1, <1>2, <2>1, <2>2, <2>3 DEF Ordered, Later
<1> QED
  BY <1>3, <1>4, <1>5, <1>6, <1>7, <1>8, <1>9, <1>10 DEF Next

\* The accounts of the first round balance: each recorded ping is received,
\* lost or awaited.
LEMMA ExactStep ==
    ASSUME FirstRoundInv, TypeOK', EchoKnown', [Next]_vars, ping <= NbCodes, ping' <= NbCodes
    PROVE  Exact'
<1> USE DEF FirstRoundInv
<1>1. /\ sendTimes \in SUBSET Codes /\ Awaited \in SUBSET Codes
      /\ Cardinality(Awaited) \in Nat
      /\ received \in Nat /\ lost \in Nat /\ Recorded \in Int
      /\ echo \in Codes /\ Codes \subseteq Nat
  <2>1. /\ sendTimes \in SUBSET Codes /\ received \in Nat /\ lost \in Nat
        /\ sent \in Nat /\ echo \in Codes /\ TypeOK
    BY DEF TypeOK
  <2>2. Codes \subseteq Nat
    BY PingAssumption DEF Codes
  <2>3. Awaited \subseteq sendTimes
    BY <2>1, AwaitedInMap
  <2>4. IsFiniteSet(Awaited)
    BY <2>1, <2>3, CodesFinite, FS_Subset
  <2>5. Cardinality(Awaited) \in Nat
    BY <2>4, FS_CardinalityType
  <2>6. Recorded \in Int
    BY <2>1 DEF Recorded
  <2> QED
    BY <2>1, <2>2, <2>3, <2>5, <2>6
<1>2. CASE Write \/ Check \/ Stop \/ Lose \/ UNCHANGED vars
  BY <1>2, ExactUntouched DEF Write, Check, Stop, Lose, vars, ioVars, Recorded
<1>3. CASE Count
  <2>1. Recorded' = Recorded
    BY <1>3 DEF Count, Recorded, TypeOK
  <2> QED
    BY <1>3, <2>1, ExactUntouched DEF Count, ioVars
<1>4. CASE Record
  <2>1. /\ sendTimes' = sendTimes \cup {code} /\ code \in Codes
        /\ UNCHANGED <<io, echo, received, lost>>
        /\ Recorded' = Recorded + 1
    BY <1>4 DEF Record, ioVars, Recorded, TypeOK
  <2>2. \A c \in sendTimes : c < code
    BY <1>4 DEF Record, Recorded, Ordered, TypeOK
  <2>3. Awaited' = Awaited \cup {code} /\ code \notin Awaited
    <3>1. io # "idle" => echo < code
      BY <2>2 DEF EchoKnown
    <3>2. \A c \in sendTimes : c # code
      BY <1>1, <2>1, <2>2
    <3>3. io # "idle" => echo # code /\ code \notin Before(echo)
      BY <1>1, <2>1, <3>1 DEF Before
    <3>4. io # "idle" => Before(echo)' = Before(echo)
      BY <1>1, <2>1, <3>1 DEF Before
    <3> QED
      BY <2>1, <3>2, <3>3, <3>4 DEF Awaited, TypeOK
  <2>4. Cardinality(Awaited') = Cardinality(Awaited) + 1
    BY <1>1, <2>3, CodesFinite, FS_AddElement
  <2> QED
    BY <1>1, <2>1, <2>4 DEF Exact
<1>5. CASE HandleReceive
  <2>1. CASE Head(line).code \notin sendTimes
    BY <1>5, <2>1, ExactUntouched DEF HandleReceive, Recorded
  <2>2. CASE Head(line).code \in sendTimes
    <3>1. /\ io = "idle" /\ io' = "found" /\ echo' \in sendTimes
          /\ received' = received + 1
          /\ UNCHANGED <<lost, sendTimes, sent, pc>>
      BY <1>5, <2>2 DEF HandleReceive
    <3>2. Awaited = sendTimes /\ Awaited' = sendTimes \ {echo'} /\ Recorded' = Recorded
      BY <3>1 DEF Awaited, Recorded
    <3>3. Cardinality(sendTimes \ {echo'}) = Cardinality(sendTimes) - 1
      BY <1>1, <3>1, CodesFinite, FS_RemoveElement
    <3> QED
      BY <1>1, <3>1, <3>2, <3>3 DEF Exact
  <2> QED
    BY <2>1, <2>2
<1>6. CASE CountLost
  <2>1. /\ io = "found" /\ io' = "counted"
        /\ lost' = lost + Cardinality(Before(echo))
        /\ UNCHANGED <<echo, received, sendTimes, sent, pc>>
    BY <1>6 DEF CountLost
  <2>2. Before(echo) \in SUBSET Awaited /\ Awaited' = Awaited \ Before(echo)
    BY <1>1, <2>1 DEF Awaited, Before
  <2>3. /\ Cardinality(Awaited') + Cardinality(Before(echo)) = Cardinality(Awaited)
        /\ Cardinality(Awaited') \in Nat /\ Cardinality(Before(echo)) \in Nat
    BY <1>1, <2>2, TakenOut, CodesFinite
  <2>4. Recorded' = Recorded
    BY <2>1 DEF Recorded
  <2> QED
    BY <1>1, <2>1, <2>3, <2>4 DEF Exact
<1>7. CASE Erase
  <2>1. Awaited' = Awaited /\ Recorded' = Recorded /\ UNCHANGED <<received, lost>>
    BY <1>7 DEF Erase, Awaited, Recorded
  <2> QED
    BY <2>1 DEF Exact
<1> QED
  BY <1>2, <1>3, <1>4, <1>5, <1>6, <1>7 DEF Next

\* While no code has been used twice the statistics are exact, however many
\* codes there are and whatever the line loses (MasterPinger.cpp:104-110).
THEOREM FirstRound == Spec => []FirstRoundExact
<1>1. Init /\ TypeOK => FirstRoundInv
  <2> SUFFICES ASSUME Init, TypeOK PROVE FirstRoundInv
    OBVIOUS
  <2>1. Awaited = {} /\ Recorded = 0 /\ received = 0 /\ lost = 0
    BY DEF Init, Awaited, Recorded
  <2>2. Exact
    BY <2>1, FS_EmptySet DEF Exact
  <2>3. Ordered
    BY DEF Init, Ordered
  <2> QED
    BY <2>2, <2>3 DEF FirstRoundInv, EchoKnown, Init
<1>2. FirstRoundInv /\ AccountsInv /\ AccountsInv' /\ [Next]_vars => FirstRoundInv'
  <2> SUFFICES ASSUME FirstRoundInv, AccountsInv', [Next]_vars, ping' <= NbCodes
               PROVE  Ordered' /\ Exact'
    BY DEF FirstRoundInv, AccountsInv
  <2>1. ping <= NbCodes
    <3>1. ping' = ping \/ ping' = ping + 1
      BY DEF Next, Write, Count, Record, Check, Stop, HandleReceive, CountLost, Erase, Lose,
             vars
    <3> QED
      BY <3>1, PingAssumption DEF FirstRoundInv, TypeOK
  <2> QED
    BY <2>1, OrderedStep, ExactStep DEF AccountsInv
<1>3. FirstRoundInv => FirstRoundExact
  <2> SUFFICES ASSUME FirstRoundInv, ping <= NbCodes
               PROVE  declared \cap Underway = {} /\ Exact
    BY DEF FirstRoundExact, Exact
  <2>1. \A d \in declared, i \in DOMAIN line : d # line[i].ping
    <3>1. declared \subseteq Nat /\ \A i \in DOMAIN line : line[i] \in [code : Codes, ping : Nat]
      <4>1. line \in Seq([code : Codes, ping : Nat]) /\ declared \subseteq Nat
        BY DEF FirstRoundInv, TypeOK
      <4>2. DOMAIN line = 1..Len(line)
        BY <4>1
      <4> QED
        BY <4>1, <4>2, ElementOfSeq
    <3> QED
      BY <3>1 DEF FirstRoundInv, Ordered, Later
  <2> QED
    BY <2>1 DEF Underway, FirstRoundInv
<1>4. Spec => []AccountsInv
  <2>1. Init => AccountsInv
    BY AccountsInit
  <2>2. Spec => []TypeOK
    BY Types
  <2> QED
    BY <2>1, <2>2, AccountsStep, PTL DEF Spec
<1>5. AccountsInv => TypeOK
  BY DEF AccountsInv
<1> QED
  BY <1>1, <1>2, <1>3, <1>4, <1>5, PTL DEF Spec

-------------------------------------------------------------------------------
(***************************************************************************)
(* The verdict.  Each ping that is booked, as received or as lost, is one  *)
(* of its own: it has left the line, or is declared lost.  This needs the  *)
(* pings on the line to have different codes: the line holds no more of    *)
(* them than there are codes (with more, an old echo is booked for a ping  *)
(* that is still under way).                                               *)
(***************************************************************************)

\* The ping that is written and not yet recorded.
Unrecorded == IF pc \in {"count", "record"} THEN 1 ELSE 0

\* The code that was sent j codes before code c.
Back(c, j) == IF j <= c THEN c - j ELSE (NbCodes + c) - j

\* The pings on the line are the last that were written, each with its code.
InTurn ==
    /\ Len(line) <= Delay /\ Len(line) <= ping
    /\ \A i \in 1..Len(line) :
          /\ line[i].ping = (ping - Len(line)) + i
          /\ line[i].code = Back(code, ((Len(line) - i) + 1) - Unrecorded)
          /\ recorded[line[i].code] <= line[i].ping

\* _sendTimes knows one ping per code.
Mapped ==
    /\ \A c \in Codes : recorded[c] <= ping - Unrecorded
    /\ \A c \in sendTimes : recorded[c] >= 1
    /\ \A c, d \in sendTimes : recorded[c] = recorded[d] => c = d

\* B is a set of pings that were booked, none of them twice.
Booked(B) ==
    /\ \A b \in B : b \in 1..(ping - Unrecorded) /\ b \notin Underway \ declared
    /\ \A c \in Awaited : recorded[c] \notin B
    /\ Cardinality(B) = received + lost

SoundInv == AccountsInv /\ InTurn /\ Mapped /\ \E B \in SUBSET Nat : Booked(B)

LEMMA SoundNumbers ==
    ASSUME TypeOK
    PROVE  /\ ping \in Nat /\ Len(line) \in Nat /\ NbCodes \in Nat /\ NbCodes >= 1
           /\ code \in Nat /\ code < NbCodes /\ Delay \in Nat
           /\ DOMAIN line = 1..Len(line)
           /\ \A i \in 1..Len(line) : line[i].code \in Codes /\ line[i].ping \in Nat
           /\ \A c \in Codes : recorded[c] \in Nat
           /\ received \in Nat /\ lost \in Nat /\ sent \in Nat /\ Threshold \in Nat
           /\ line \in Seq([code : Codes, ping : Nat])
<1>1. line \in Seq([code : Codes, ping : Nat])
  BY DEF TypeOK
<1>2. /\ Len(line) \in Nat /\ DOMAIN line = 1..Len(line)
      /\ \A i \in 1..Len(line) : line[i] \in [code : Codes, ping : Nat]
  BY <1>1, LenProperties, ElementOfSeq
<1>3. \A i \in 1..Len(line) : line[i].code \in Codes /\ line[i].ping \in Nat
  BY <1>2
<1>4. NbCodes \in Nat /\ NbCodes >= 1 /\ Delay \in Nat /\ Threshold \in Nat
  BY PingAssumption
<1>5. code \in Nat /\ code < NbCodes
  BY <1>4 DEF TypeOK, Codes
<1>6. \A c \in Codes : recorded[c] \in Nat
  BY DEF TypeOK
<1>7. ping \in Nat /\ received \in Nat /\ lost \in Nat /\ sent \in Nat
  BY DEF TypeOK
<1> QED
  BY <1>1, <1>2, <1>3, <1>4, <1>5, <1>6, <1>7

\* What is under way, by its place on the line.
LEMMA UnderwayIs ==
    ASSUME TypeOK, InTurn
    PROVE  /\ \A n \in Underway : n \in Nat /\ n > ping - Len(line) /\ n <= ping
           /\ Underway \in SUBSET (1..ping)
<1>1. \A n \in Underway : \E i \in 1..Len(line) : n = (ping - Len(line)) + i
  BY SoundNumbers DEF Underway, InTurn
<1>2. Len(line) <= ping
  BY DEF InTurn
<1> QED
  BY <1>1, <1>2, SoundNumbers

\* The code after another.
LEMMA CodeAfter ==
    ASSUME NEW n \in Nat, NEW c \in Nat, c < n
    PROVE  (c + 1) % n = IF c + 1 < n THEN c + 1 ELSE 0
<1>1. CASE c + 1 < n
  BY <1>1
<1>2. CASE c + 1 = n
  BY <1>2
<1> QED
  BY <1>1, <1>2

\* A line that is shorter at its head.
LEMMA InTurnTail ==
    ASSUME TypeOK, InTurn, line # <<>>, line' = Tail(line), UNCHANGED <<pc, code, ping, recorded>>
    PROVE  InTurn'
<1>0. ping \in Nat /\ Len(line) \in Nat
  BY SoundNumbers
<1>1. Len(line') = Len(line) - 1 /\ \A i \in 1..Len(line') : line'[i] = line[i + 1]
  BY SoundNumbers, HeadTailProperties
<1>2. \A i \in 1..Len(line') :
         /\ i + 1 \in 1..Len(line)
         /\ (ping - Len(line')) + i = (ping - Len(line)) + (i + 1)
         /\ (Len(line') - i) + 1 = (Len(line) - (i + 1)) + 1
  BY <1>0, <1>1
<1>4. Unrecorded' = Unrecorded
  BY DEF Unrecorded
<1>5. Len(line') <= Delay /\ Len(line') <= ping'
  <2>1. Len(line) <= Delay /\ Len(line) <= ping
    BY DEF InTurn
  <2> QED
    BY <1>0, <1>1, <2>1, SoundNumbers
<1>6. ASSUME NEW i \in 1..Len(line')
      PROVE  /\ line'[i].ping = (ping' - Len(line')) + i
             /\ line'[i].code = Back(code', ((Len(line') - i) + 1) - Unrecorded')
             /\ recorded'[line'[i].code] <= line'[i].ping
  <2>1. /\ line[i + 1].ping = (ping - Len(line)) + (i + 1)
        /\ line[i + 1].code = Back(code, ((Len(line) - (i + 1)) + 1) - Unrecorded)
        /\ recorded[line[i + 1].code] <= line[i + 1].ping
    BY <1>2 DEF InTurn
  <2>2. line'[i] = line[i + 1]
    BY <1>1
  <2> QED
    BY <1>2, <1>4, <2>1, <2>2
<1> QED
  BY <1>5, <1>6 DEF InTurn

LEMMA InTurnStep ==
    ASSUME TypeOK, TypeOK', InTurn, Mapped, Delay <= NbCodes, [Next]_vars
    PROVE  InTurn'
<1>0. /\ ping \in Nat /\ Len(line) \in Nat /\ NbCodes \in Nat /\ NbCodes >= 1
      /\ code \in Nat /\ code < NbCodes /\ Delay \in Nat /\ code \in Codes
  BY SoundNumbers DEF TypeOK
<1>1. CASE Write
  <2>1. /\ pc = "write" /\ pc' = "count" /\ ping' = ping + 1 /\ Len(line) < Delay
        /\ line' = Append(line, [code |-> code, ping |-> ping + 1])
        /\ UNCHANGED <<code, recorded>>
    BY <1>1 DEF Write
  <2>2. Unrecorded = 0 /\ Unrecorded' = 1
    BY <2>1 DEF Unrecorded
  <2>3. /\ Len(line') = Len(line) + 1
        /\ \A i \in 1..Len(line) : line'[i] = line[i]
        /\ line'[Len(line) + 1] = [code |-> code, ping |-> ping + 1]
    BY <1>0, <2>1, SoundNumbers, AppendProperties
  <2>4. code' = code
    BY <2>1
  <2>5. ASSUME NEW i \in 1..Len(line)
        PROVE  /\ line'[i].ping = (ping' - Len(line')) + i
               /\ line'[i].code = Back(code', ((Len(line') - i) + 1) - Unrecorded')
               /\ recorded'[line'[i].code] <= line'[i].ping
    <3>1. /\ (ping' - Len(line')) + i = (ping - Len(line)) + i
          /\ ((Len(line') - i) + 1) - Unrecorded' = ((Len(line) - i) + 1) - Unrecorded
      <4>1. Len(line') = Len(line) + 1 /\ ping' = ping + 1
        BY <2>1, <2>3
      <4> QED
        BY <1>0, <2>2, <4>1
    <3>2. /\ line[i].ping = (ping - Len(line)) + i
          /\ line[i].code = Back(code, ((Len(line) - i) + 1) - Unrecorded)
          /\ recorded[line[i].code] <= line[i].ping
      BY DEF InTurn
    <3>3. line'[i] = line[i] /\ recorded' = recorded
      BY <2>1, <2>3
    <3> QED
      BY <2>4, <3>1, <3>2, <3>3
  <2>6. ASSUME NEW i \in 1..Len(line'), i \notin 1..Len(line)
        PROVE  /\ line'[i].ping = (ping' - Len(line')) + i
               /\ line'[i].code = Back(code', ((Len(line') - i) + 1) - Unrecorded')
               /\ recorded'[line'[i].code] <= line'[i].ping
    <3>1. i = Len(line) + 1 /\ ((Len(line') - i) + 1) - Unrecorded' = 0
      BY <1>0, <2>2, <2>3, <2>6
    <3>2. line'[i].ping = ping + 1 /\ line'[i].code = code /\ Back(code, 0) = code
      BY <1>0, <2>3, <3>1 DEF Back
    <3>3. recorded[code] <= ping
      BY <1>0, <2>2 DEF Mapped
    <3>4. recorded[code] \in Nat
      BY <1>0, SoundNumbers
    <3>5. line'[i].ping = (ping' - Len(line')) + i
      BY <1>0, <2>1, <2>3, <3>1, <3>2
    <3>6. recorded'[line'[i].code] <= line'[i].ping
      BY <1>0, <2>1, <3>2, <3>3, <3>4
    <3> QED
      BY <2>4, <3>1, <3>2, <3>5, <3>6
  <2>7. Len(line') <= Delay /\ Len(line') <= ping'
    <3>1. Len(line) <= ping
      BY DEF InTurn
    <3> QED
      BY <1>0, <2>1, <2>3, <3>1
  <2> QED
    BY <2>5, <2>6, <2>7 DEF InTurn
<1>2. CASE Record
  <2>1. /\ pc = "record" /\ pc' = "check" /\ code' = (code + 1) % NbCodes
        /\ recorded' = [recorded EXCEPT ![code] = ping]
        /\ UNCHANGED <<line, ping>>
    BY <1>2 DEF Record
  <2>2. Unrecorded = 1 /\ Unrecorded' = 0
    BY <2>1 DEF Unrecorded
  <2>3. \A j \in 0..(NbCodes - 1) : Back(code', j + 1) = Back(code, j)
    <3>1. code' = IF code + 1 < NbCodes THEN code + 1 ELSE 0
      BY <1>0, <2>1, CodeAfter
    <3>2. CASE code + 1 < NbCodes
      BY <1>0, <3>1, <3>2 DEF Back
    <3>3. CASE code + 1 = NbCodes
      BY <1>0, <3>1, <3>3 DEF Back
    <3> QED
      BY <1>0, <3>2, <3>3
  <2>4. ASSUME NEW i \in 1..Len(line)
        PROVE  /\ line'[i].ping = (ping' - Len(line')) + i
               /\ line'[i].code = Back(code', ((Len(line') - i) + 1) - Unrecorded')
               /\ recorded'[line'[i].code] <= line'[i].ping
    <3> DEFINE j == Len(line) - i
    <3>1. /\ j \in 0..(NbCodes - 1)
          /\ ((Len(line) - i) + 1) - Unrecorded = j
          /\ ((Len(line) - i) + 1) - Unrecorded' = j + 1
      <4>1. Len(line) <= Delay
        BY DEF InTurn
      <4> QED
        BY <1>0, <2>2, <4>1
    <3>2. line[i].code = Back(code, j) /\ line[i].ping = (ping - Len(line)) + i
      BY <3>1 DEF InTurn
    <3> HIDE DEF j
    <3>3. recorded'[line[i].code] <= line[i].ping
      <4>1. CASE line[i].code = code
        <5>1. j = 0
          BY <1>0, <3>1, <3>2, <4>1 DEF Back
        <5>2. line[i].ping = ping
          BY <1>0, <3>2, <5>1 DEF j
        <5>3. recorded'[code] = ping
          BY <1>0, <2>1 DEF TypeOK
        <5> QED
          BY <1>0, <4>1, <5>2, <5>3
      <4>2. CASE line[i].code # code
        <5>1. recorded'[line[i].code] = recorded[line[i].code]
          BY <2>1, <4>2 DEF TypeOK
        <5> QED
          BY <5>1 DEF InTurn
      <4> QED
        BY <4>1, <4>2
    <3> QED
      BY <2>1, <2>3, <3>1, <3>2, <3>3
  <2>5. Len(line') <= Delay /\ Len(line') <= ping'
    BY <2>1 DEF InTurn
  <2> QED
    BY <2>1, <2>4, <2>5 DEF InTurn
<1>3. CASE HandleReceive
  BY <1>3, InTurnTail DEF HandleReceive
<1>4. CASE Lose
  BY <1>4, InTurnTail DEF Lose
<1>5. CASE Count \/ Check \/ Stop \/ CountLost \/ Erase \/ UNCHANGED vars
  <2>1. UNCHANGED <<line, code, ping, recorded>>
    BY <1>5 DEF Count, Check, Stop, CountLost, Erase, vars, ioVars
  <2>2. Unrecorded' = Unrecorded
    BY <1>5 DEF Count, Check, Stop, CountLost, Erase, vars, Unrecorded
  <2> QED
    BY <2>1, <2>2 DEF InTurn
<1> QED
  BY <1>1, <1>2, <1>3, <1>4, <1>5 DEF Next

LEMMA MappedStep ==
    ASSUME TypeOK, TypeOK', Mapped, [Next]_vars
    PROVE  Mapped'
<1>0. /\ ping \in Nat /\ Len(line) \in Nat /\ NbCodes \in Nat /\ NbCodes >= 1
      /\ code \in Nat /\ code < NbCodes /\ Delay \in Nat /\ code \in Codes
  BY SoundNumbers DEF TypeOK
<1>a. \A c \in Codes : recorded[c] \in Nat
  BY SoundNumbers
<1>1. CASE Record
  <2>1. /\ pc = "record" /\ pc' = "check" /\ sendTimes' = sendTimes \cup {code}
        /\ recorded' = [recorded EXCEPT ![code] = ping]
        /\ UNCHANGED ping
    BY <1>1 DEF Record
  <2>2. Unrecorded = 1 /\ Unrecorded' = 0
    BY <2>1 DEF Unrecorded
  <2>3. code \in Codes /\ sendTimes \subseteq Codes
    BY DEF TypeOK
  <2>a. ping' = ping
    BY <2>1
  <2>4. recorded'[code] = ping /\ \A c \in Codes : c # code => recorded'[c] = recorded[c]
    BY <2>1, <2>3 DEF TypeOK
  <2>5. \A c \in Codes : recorded[c] <= ping - 1
    BY <2>2 DEF Mapped
  <2>6. ping >= 1
    <3>1. ping = sent
      BY <2>1 DEF TypeOK
    <3>2. recorded[code] <= ping - 1 /\ recorded[code] \in Nat
      BY <1>0, <1>a, <2>5
    <3> QED
      BY <1>0, <3>2
  <2>7. \A c \in Codes : recorded'[c] <= ping
    <3>1. \A c \in Codes : recorded[c] <= ping
      BY <1>0, <1>a, <2>5
    <3> QED
      BY <1>0, <2>4, <3>1
  <2>8. \A c \in sendTimes' : recorded'[c] >= 1
    <3>1. \A c \in sendTimes : recorded[c] >= 1
      BY DEF Mapped
    <3> QED
      BY <2>1, <2>3, <2>4, <2>6, <3>1
  <2>9. \A c, d \in sendTimes' : recorded'[c] = recorded'[d] => c = d
    <3> SUFFICES ASSUME NEW c \in sendTimes', NEW d \in sendTimes', recorded'[c] = recorded'[d], c # d
                 PROVE  FALSE
      OBVIOUS
    <3>0. c \in Codes /\ d \in Codes
      BY <2>1, <2>3
    <3>1. CASE c = code
      BY <1>0, <1>a, <2>4, <2>5, <3>0, <3>1
    <3>2. CASE d = code
      BY <1>0, <1>a, <2>4, <2>5, <3>0, <3>2
    <3>3. CASE c # code /\ d # code
      BY <2>1, <2>4, <3>0, <3>3 DEF Mapped
    <3> QED
      BY <3>1, <3>2, <3>3
  <2>10. ping' - Unrecorded' = ping
    BY <1>0, <2>1, <2>2
  <2> QED
    BY <2>7, <2>8, <2>9, <2>10 DEF Mapped
<1>2. CASE Write
  <2>1. pc = "write" /\ pc' = "count" /\ ping' = ping + 1 /\ UNCHANGED <<sendTimes, recorded>>
    BY <1>2 DEF Write
  <2>2. Unrecorded = 0 /\ Unrecorded' = 1
    BY <2>1 DEF Unrecorded
  <2>3. ping' - Unrecorded' = ping - Unrecorded
    BY <1>0, <2>1, <2>2
  <2> QED
    BY <2>1, <2>3 DEF Mapped
<1>3. CASE Erase
  <2>1. sendTimes' \subseteq sendTimes /\ UNCHANGED <<pc, ping, recorded>>
    BY <1>3 DEF Erase
  <2> QED
    BY <2>1 DEF Mapped, Unrecorded
<1>4. CASE Count \/ Check \/ Stop \/ CountLost \/ HandleReceive \/ Lose \/ UNCHANGED vars
  <2>1. UNCHANGED <<ping, recorded, sendTimes>>
    BY <1>4 DEF Count, Check, Stop, CountLost, HandleReceive, Lose, vars, ioVars
  <2>2. Unrecorded' = Unrecorded
    BY <1>4 DEF Count, Check, Stop, CountLost, HandleReceive, Lose, vars, Unrecorded
  <2> QED
    BY <2>1, <2>2 DEF Mapped
<1> QED
  BY <1>1, <1>2, <1>3, <1>4 DEF Next

\* Finitely many pings are booked.
LEMMA BookedSize ==
    ASSUME TypeOK, NEW B \in SUBSET Nat, Booked(B)
    PROVE  /\ B \in SUBSET (1..ping)
           /\ IsFiniteSet(B) /\ Cardinality(B) \in Nat
<1>1. ping \in Nat
  BY SoundNumbers
<1>2. B \in SUBSET (1..ping)
  <2>1. ping - Unrecorded <= ping /\ ping - Unrecorded \in Int
    BY <1>1 DEF Unrecorded
  <2>2. \A b \in B : b \in 1..(ping - Unrecorded)
    BY DEF Booked
  <2> QED
    BY <1>1, <2>1, <2>2
<1>3. IsFiniteSet(1..ping)
  BY <1>1, FS_Interval
<1> QED
  BY <1>2, <1>3, FS_Subset, FS_CardinalityType

\* A step that changes neither the accounts nor the map, and adds nothing to
\* what is under way that could be booked.
LEMMA BookedKept ==
    ASSUME NEW B \in SUBSET Nat, Booked(B),
           UNCHANGED <<received, lost, declared, recorded>>, Awaited' = Awaited,
           ping' - Unrecorded' = ping - Unrecorded,
           \A b \in B : b \in Underway' => b \in Underway
    PROVE  Booked(B)'
BY DEF Booked

\* What has left the line is under way no more.
LEMMA UnderwayTail ==
    ASSUME TypeOK, InTurn, line # <<>>, line' = Tail(line)
    PROVE  /\ Underway' \in SUBSET Underway
           /\ Head(line).code \in Codes
           /\ recorded[Head(line).code] \notin Underway'
<1>0. ping \in Nat /\ Len(line) \in Nat
  BY SoundNumbers
<1>1. \A i \in DOMAIN line' : i + 1 \in DOMAIN line /\ line'[i] = line[i + 1]
  BY TailOrdered
<1>2. Underway' \in SUBSET Underway
  BY <1>1 DEF Underway
<1>3. /\ Len(line) >= 1 /\ Head(line) = line[1]
      /\ DOMAIN line = 1..Len(line) /\ DOMAIN line' = 1..(Len(line) - 1)
  BY SoundNumbers, HeadTailProperties
<1>4. 1 \in 1..Len(line)
  BY <1>0, <1>3
<1>5. /\ line[1].ping = (ping - Len(line)) + 1 /\ recorded[line[1].code] <= line[1].ping
      /\ line[1].code \in Codes /\ recorded[line[1].code] \in Nat
  <2>1. line[1].code \in Codes
    BY <1>4, SoundNumbers
  <2> QED
    BY <1>4, <2>1, SoundNumbers DEF InTurn
<1>6. ASSUME NEW i \in 1..(Len(line) - 1)
      PROVE  line'[i].ping # recorded[line[1].code]
  <2>1. i + 1 \in 1..Len(line) /\ line'[i] = line[i + 1]
    BY <1>1, <1>3
  <2>2. line[i + 1].ping = (ping - Len(line)) + (i + 1)
    BY <2>1 DEF InTurn
  <2> QED
    BY <1>0, <1>5, <2>1, <2>2
<1>7. recorded[Head(line).code] \notin Underway'
  BY <1>3, <1>6 DEF Underway
<1> QED
  BY <1>2, <1>3, <1>5, <1>7

\* The pinger's thread books nothing.
LEMMA BookedLoop ==
    ASSUME TypeOK, TypeOK', InTurn, NEW B \in SUBSET Nat, Booked(B),
           Write \/ Count \/ Record \/ Check \/ Stop
    PROVE  Booked(B)'
<1>0. ping \in Nat /\ Len(line) \in Nat /\ DOMAIN line = 1..Len(line) /\ code \in Codes
  BY SoundNumbers DEF TypeOK
<1>a. B \in SUBSET (1..ping)
  BY BookedSize
<1>1. CASE Write
  <2>1. /\ pc = "write" /\ pc' = "count" /\ ping' = ping + 1
        /\ line' = Append(line, [code |-> code, ping |-> ping + 1])
        /\ UNCHANGED <<io, echo, sendTimes, received, lost, declared, recorded>>
    BY <1>1 DEF Write, ioVars
  <2>2. ping' - Unrecorded' = ping - Unrecorded
    BY <1>0, <2>1 DEF Unrecorded
  <2>3. Awaited' = Awaited
    BY <2>1 DEF Awaited, Before
  <2>4. \A b \in B : b \in Underway' => b \in Underway
    <3>1. /\ DOMAIN line' = 1..(Len(line) + 1)
          /\ \A i \in 1..Len(line) : line'[i] = line[i]
          /\ line'[Len(line) + 1] = [code |-> code, ping |-> ping + 1]
      BY <1>0, <2>1, SoundNumbers, AppendProperties
    <3> SUFFICES ASSUME NEW i \in 1..(Len(line) + 1), line'[i].ping \in B
                 PROVE  line'[i].ping \in Underway
      BY <3>1 DEF Underway
    <3>2. CASE i \in 1..Len(line)
      BY <1>0, <3>1, <3>2 DEF Underway
    <3>3. CASE i = Len(line) + 1
      BY <1>0, <1>a, <3>1, <3>3
    <3> QED
      BY <1>0, <3>2, <3>3
  <2> QED
    BY <2>1, <2>2, <2>3, <2>4, BookedKept
<1>2. CASE Count \/ Check \/ Stop
  <2>1. UNCHANGED <<io, echo, sendTimes, received, lost, declared, recorded, line, ping>>
    BY <1>2 DEF Count, Check, Stop, ioVars
  <2>2. Unrecorded' = Unrecorded
    BY <1>2 DEF Count, Check, Stop, Unrecorded
  <2>3. Awaited' = Awaited /\ Underway' = Underway
    BY <2>1 DEF Awaited, Before, Underway
  <2> QED
    BY <2>1, <2>2, <2>3, BookedKept
<1>3. CASE Record
  <2>1. /\ pc = "record" /\ pc' = "check" /\ sendTimes' = sendTimes \cup {code}
        /\ recorded' = [recorded EXCEPT ![code] = ping]
        /\ UNCHANGED <<io, echo, received, lost, declared, line, ping>>
    BY <1>3 DEF Record, ioVars
  <2>2. Unrecorded = 1 /\ Unrecorded' = 0
    BY <2>1 DEF Unrecorded
  <2>3. recorded'[code] = ping /\ \A c : c # code => recorded'[c] = recorded[c]
    <3>1. recorded \in [Codes -> Nat]
      BY DEF TypeOK
    <3> QED
      BY <1>0, <2>1, <3>1
  <2>4. \A b \in B : b \in 1..(ping - 1) /\ b \notin Underway \ declared
    BY <2>2 DEF Booked
  <2>5. Underway' = Underway
    BY <2>1 DEF Underway
  <2>6. \A c \in Awaited' : recorded'[c] \notin B
    <3> SUFFICES ASSUME NEW c \in Awaited' PROVE recorded'[c] \notin B
      OBVIOUS
    <3>1. CASE c = code
      BY <1>0, <2>3, <2>4, <3>1
    <3>2. CASE c # code
      <4>1. c \in Awaited
        BY <2>1, <3>2 DEF Awaited, Before, TypeOK
      <4> QED
        BY <2>3, <3>2, <4>1 DEF Booked
    <3> QED
      BY <3>1, <3>2
  <2>7. \A b \in B : b \in 1..(ping' - Unrecorded') /\ b \notin Underway' \ declared'
    BY <1>0, <2>1, <2>2, <2>4, <2>5
  <2>8. Cardinality(B) = received' + lost'
    BY <2>1 DEF Booked
  <2> QED
    BY <2>6, <2>7, <2>8 DEF Booked
<1> QED
  BY <1>1, <1>2, <1>3

\* An echo books the ping that its code is recorded for, which is not under way:
\* it is the echoed one or an earlier one.
LEMMA BookedEcho ==
    ASSUME TypeOK, TypeOK', InTurn, Mapped, NEW B \in SUBSET Nat, Booked(B), HandleReceive
    PROVE  \E C \in SUBSET Nat : Booked(C)'
<1>1. /\ io = "idle" /\ line # <<>> /\ line' = Tail(line)
      /\ UNCHANGED <<pc, lost, sendTimes, ping, recorded, declared>>
  BY DEF HandleReceive
<1>2. /\ Underway' \in SUBSET Underway
      /\ Head(line).code \in Codes
      /\ recorded[Head(line).code] \notin Underway'
  BY <1>1, UnderwayTail
<1>3. Unrecorded' = Unrecorded
  BY <1>1 DEF Unrecorded
<1>4. CASE Head(line).code \notin sendTimes
  <2>1. UNCHANGED <<io, echo, received>>
    BY <1>4 DEF HandleReceive
  <2>2. Awaited' = Awaited
    BY <1>1, <2>1 DEF Awaited, Before
  <2>3. Booked(B)'
    BY <1>1, <1>2, <1>3, <2>1, <2>2, BookedKept
  <2> QED
    BY <2>3
<1>5. CASE Head(line).code \in sendTimes
  <2>1. io' = "found" /\ echo' = Head(line).code /\ received' = received + 1
    BY <1>5 DEF HandleReceive
  <2>2. PICK r : r = recorded[Head(line).code]
    OBVIOUS
  <2>3. r \in Nat /\ r >= 1 /\ r <= ping - Unrecorded /\ r \notin B
    <3>1. Head(line).code \in Awaited
      BY <1>1, <1>5 DEF Awaited
    <3>2. r \in Nat
      BY <1>2, <2>2, SoundNumbers
    <3> QED
      BY <1>2, <1>5, <2>2, <3>1, <3>2 DEF Mapped, Booked
  <2>4. PICK C : C = B \cup {r}
    OBVIOUS
  <2>5. C \in SUBSET Nat
    BY <2>3, <2>4
  <2>6. Cardinality(C) = received' + lost'
    <3>1. Cardinality(C) = Cardinality(B) + 1
      BY <2>3, <2>4, BookedSize, FS_AddElement
    <3>2. Cardinality(B) = received + lost
      BY DEF Booked
    <3> QED
      BY <1>1, <2>1, <3>1, <3>2, SoundNumbers
  <2>7. \A b \in C : b \in 1..(ping' - Unrecorded') /\ b \notin Underway' \ declared'
    <3>1. r \in 1..(ping - Unrecorded)
      BY <2>3, SoundNumbers DEF Unrecorded
    <3>2. r \notin Underway'
      BY <1>2, <2>2
    <3>3. \A b \in B : b \in 1..(ping - Unrecorded) /\ b \notin Underway \ declared
      BY DEF Booked
    <3> QED
      BY <1>1, <1>2, <1>3, <2>4, <3>1, <3>2, <3>3
  <2>8. \A c \in Awaited' : recorded'[c] \notin C
    <3> SUFFICES ASSUME NEW c \in Awaited' PROVE recorded'[c] \notin C
      OBVIOUS
    <3>1. c \in sendTimes /\ c # Head(line).code
      BY <1>1, <2>1 DEF Awaited
    <3>2. recorded[c] \notin B
      BY <1>1, <3>1 DEF Awaited, Booked
    <3>3. recorded[c] # r
      BY <1>5, <2>2, <3>1 DEF Mapped
    <3> QED
      BY <1>1, <2>4, <3>2, <3>3
  <2>9. Booked(C)'
    BY <2>6, <2>7, <2>8 DEF Booked
  <2> QED
    BY <2>5, <2>9
<1> QED
  BY <1>4, <1>5

\* What is erased with an echo is booked as lost, each ping once.
LEMMA BookedLost ==
    ASSUME AccountsInv, TypeOK', Mapped, NEW B \in SUBSET Nat, Booked(B), CountLost
    PROVE  \E C \in SUBSET Nat : Booked(C)'
<1>0. TypeOK
  BY DEF AccountsInv
<1>1. /\ io = "found" /\ io' = "counted"
      /\ lost' = lost + Cardinality(Before(echo))
      /\ declared' = declared \cup {recorded[c] : c \in Before(echo)}
      /\ UNCHANGED <<pc, echo, received, sendTimes, line, ping, recorded>>
  BY DEF CountLost
<1>2. /\ Before(echo) \in SUBSET Codes /\ Before(echo) \in SUBSET sendTimes
      /\ Before(echo) \in SUBSET Awaited
  <2>1. sendTimes \in SUBSET Codes /\ echo \in Codes
    BY <1>0 DEF TypeOK
  <2>2. \A c \in Before(echo) : c \in sendTimes /\ c < echo
    BY DEF Before
  <2>3. \A c \in Codes : ~(c < c)
    BY SoundNumbers, <1>0 DEF Codes
  <2>4. echo \notin Before(echo)
    BY <2>1, <2>2, <2>3
  <2> QED
    BY <1>1, <2>1, <2>2, <2>4 DEF Awaited
<1>3. PICK R : R = {recorded[c] : c \in Before(echo)}
  OBVIOUS
<1>4. IsFiniteSet(R) /\ Cardinality(R) = Cardinality(Before(echo))
  <2> DEFINE f == [c \in Before(echo) |-> recorded[c]]
  <2>1. f \in [Before(echo) -> R]
    BY <1>3
  <2>2. \A c, d \in Before(echo) : f[c] = f[d] => c = d
    BY <1>2 DEF Mapped
  <2>3. \A r \in R : \E c \in Before(echo) : f[c] = r
    BY <1>3
  <2> HIDE DEF f
  <2>4. f \in Bijection(Before(echo), R)
    BY <2>1, <2>2, <2>3 DEF Bijection, Injection, Surjection, IsInjective
  <2>5. ExistsBijection(Before(echo), R)
    BY <2>4 DEF ExistsBijection
  <2>6. IsFiniteSet(Before(echo))
    BY <1>2, CodesFinite
  <2> QED
    BY <2>5, <2>6, FS_Bijection
<1>5. PICK C : C = B \cup R
  OBVIOUS
<1>6. B \cap R = {}
  BY <1>2, <1>3 DEF Booked
<1>7. \A r \in R : r \in Nat /\ r \in 1..(ping - Unrecorded)
  <2> SUFFICES ASSUME NEW c \in Before(echo)
               PROVE  recorded[c] \in Nat /\ recorded[c] \in 1..(ping - Unrecorded)
    BY <1>3
  <2>1. recorded[c] \in Nat
    BY <1>0, <1>2, SoundNumbers
  <2>2. recorded[c] >= 1 /\ recorded[c] <= ping - Unrecorded
    BY <1>2 DEF Mapped
  <2>3. ping - Unrecorded \in Int
    BY <1>0, SoundNumbers DEF Unrecorded
  <2> QED
    BY <2>1, <2>2, <2>3
<1>8. C \in SUBSET Nat
  BY <1>5, <1>7
<1>9. Cardinality(C) = received' + lost'
  <2>1. Cardinality(C) = Cardinality(B) + Cardinality(R) - Cardinality(B \cap R)
    BY <1>0, <1>4, <1>5, BookedSize, FS_Union
  <2>2. Cardinality(B \cap R) = 0
    BY <1>6, FS_EmptySet
  <2>3. Cardinality(B) = received + lost
    BY DEF Booked
  <2>4. Cardinality(Before(echo)) \in Nat
    BY <1>2, CodesFinite
  <2> QED
    BY <1>0, <1>1, <1>4, <2>1, <2>2, <2>3, <2>4, SoundNumbers
<1>10. \A b \in C : b \in 1..(ping' - Unrecorded') /\ b \notin Underway' \ declared'
  <2>1. Underway' = Underway /\ Unrecorded' = Unrecorded
    BY <1>1 DEF Underway, Unrecorded
  <2>2. \A b \in B : b \in 1..(ping - Unrecorded) /\ b \notin Underway \ declared
    BY DEF Booked
  <2>3. R \in SUBSET declared'
    BY <1>1, <1>3
  <2>4. declared \in SUBSET declared'
    BY <1>1
  <2> QED
    BY <1>1, <1>5, <1>7, <2>1, <2>2, <2>3, <2>4
<1>11. \A c \in Awaited' : recorded'[c] \notin C
  <2> SUFFICES ASSUME NEW c \in Awaited' PROVE recorded'[c] \notin C
    OBVIOUS
  <2>1. c \in sendTimes /\ c \in Awaited /\ c \notin Before(echo)
    BY <1>1 DEF Awaited, Before
  <2>2. recorded[c] \notin B
    BY <2>1 DEF Booked
  <2>3. recorded[c] \notin R
    BY <1>2, <1>3, <2>1 DEF Mapped
  <2> QED
    BY <1>1, <1>5, <2>2, <2>3
<1>12. Booked(C)'
  BY <1>9, <1>10, <1>11 DEF Booked
<1> QED
  BY <1>8, <1>12

LEMMA BookedStep ==
    ASSUME SoundInv, TypeOK', [Next]_vars
    PROVE  \E C \in SUBSET Nat : Booked(C)'
<1>0. TypeOK /\ InTurn /\ Mapped /\ AccountsInv
  BY DEF SoundInv, AccountsInv
<1>1. PICK B \in SUBSET Nat : Booked(B)
  BY DEF SoundInv
<1>2. CASE Write \/ Count \/ Record \/ Check \/ Stop
  <2>1. Booked(B)'
    BY <1>0, <1>1, <1>2, BookedLoop
  <2> QED
    BY <2>1
<1>3. CASE HandleReceive
  BY <1>0, <1>1, <1>3, BookedEcho
<1>4. CASE CountLost
  BY <1>0, <1>1, <1>4, BookedLost
<1>5. CASE Erase
  <2>1. /\ io = "counted" /\ io' = "idle"
        /\ sendTimes' = sendTimes \ (Before(echo) \cup {echo})
        /\ UNCHANGED <<pc, received, lost, line, ping, recorded, declared>>
    BY <1>5 DEF Erase
  <2>2. Awaited' = Awaited /\ Underway' = Underway /\ Unrecorded' = Unrecorded
    BY <2>1 DEF Awaited, Underway, Unrecorded
  <2>3. Booked(B)'
    BY <1>1, <2>1, <2>2, BookedKept
  <2> QED
    BY <2>3
<1>6. CASE Lose
  <2>1. /\ line # <<>> /\ line' = Tail(line)
        /\ UNCHANGED <<pc, io, echo, received, lost, sendTimes, ping, recorded, declared>>
    BY <1>6 DEF Lose, ioVars
  <2>2. Awaited' = Awaited /\ Unrecorded' = Unrecorded
    BY <2>1 DEF Awaited, Before, Unrecorded
  <2>3. Underway' \in SUBSET Underway
    BY <1>0, <2>1, UnderwayTail
  <2>4. Booked(B)'
    BY <1>1, <2>1, <2>2, <2>3, BookedKept
  <2> QED
    BY <2>4
<1>7. CASE UNCHANGED vars
  <2>1. Awaited' = Awaited /\ Underway' = Underway /\ Unrecorded' = Unrecorded
    BY <1>7 DEF vars, Awaited, Before, Underway, Unrecorded
  <2>2. Booked(B)'
    BY <1>1, <1>7, <2>1, BookedKept DEF vars
  <2> QED
    BY <2>2
<1> QED
  BY <1>2, <1>3, <1>4, <1>5, <1>6, <1>7 DEF Next

LEMMA SoundInit == Init => SoundInv
<1> SUFFICES ASSUME Init PROVE SoundInv
  OBVIOUS
<1>1. TypeOK /\ AccountsInv
  BY InitTypes, AccountsInit
<1>2. /\ Len(line) = 0 /\ ping = 0 /\ pc = "write" /\ sendTimes = {} /\ received + lost = 0
      /\ io = "idle" /\ \A c \in Codes : recorded[c] = 0
  BY DEF Init
<1>3. InTurn
  BY <1>1, <1>2, SoundNumbers DEF InTurn
<1>4. Mapped
  BY <1>2 DEF Mapped, Unrecorded
<1>5. Booked({})
  BY <1>2, FS_EmptySet DEF Booked, Awaited
<1> QED
  BY <1>1, <1>3, <1>4, <1>5 DEF SoundInv

LEMMA SoundStep ==
    ASSUME SoundInv, TypeOK', Delay <= NbCodes, [Next]_vars
    PROVE  SoundInv'
<1>0. TypeOK /\ InTurn /\ Mapped /\ AccountsInv
  BY DEF SoundInv, AccountsInv
<1>1. AccountsInv' /\ InTurn' /\ Mapped'
  BY <1>0, AccountsStep, InTurnStep, MappedStep
<1>2. \E C \in SUBSET Nat : Booked(C)'
  BY BookedStep
<1> QED
  BY <1>1, <1>2 DEF SoundInv

\* What is booked is neither under way nor unsent: the rest bounds what is.
LEMMA SoundVerdict ==
    ASSUME SoundInv, Check, reachable'
    PROVE  Cardinality(Underway \ declared) <= Threshold
<1>0. TypeOK /\ InTurn
  BY DEF SoundInv, AccountsInv
<1>1. PICK B \in SUBSET Nat : Booked(B)
  BY DEF SoundInv
<1>2. /\ pc = "check" /\ sent <= Threshold + received + lost
  BY DEF Check
<1>3. ping = sent
  BY <1>0, <1>2 DEF TypeOK
<1>4. ping \in Nat /\ received \in Nat /\ lost \in Nat /\ Threshold \in Nat
  BY <1>0, SoundNumbers
<1> DEFINE U == Underway \ declared
<1>5. U \in SUBSET (1..ping)
  BY <1>0, UnderwayIs
<1>6. IsFiniteSet(1..ping) /\ Cardinality(1..ping) = ping
  BY <1>4, FS_Interval
<1>7. IsFiniteSet(U) /\ Cardinality(U) \in Nat
  BY <1>5, <1>6, FS_Subset, FS_CardinalityType
<1>8. B \in SUBSET (1..ping) /\ IsFiniteSet(B) /\ Cardinality(B) \in Nat
  BY <1>0, <1>1, BookedSize
<1>9. U \cap B = {} /\ Cardinality(B) = received + lost
  BY <1>1 DEF Booked
<1> HIDE DEF U
<1>10. Cardinality(U \cup B) = Cardinality(U) + Cardinality(B) - Cardinality(U \cap B)
  BY <1>7, <1>8, FS_Union
<1>11. Cardinality(U \cup B) <= ping
  <2>1. U \cup B \in SUBSET (1..ping)
    BY <1>5, <1>8
  <2> QED
    BY <1>6, <2>1, FS_Subset
<1>12. Cardinality(U \cap B) = 0
  BY <1>9, FS_EmptySet
<1>13. Cardinality(U) <= Threshold
  BY <1>2, <1>3, <1>4, <1>7, <1>9, <1>10, <1>11, <1>12
<1> QED
  BY <1>13 DEF U

\* A verdict of "reachable" is right about what is under way, for any number of
\* codes, any threshold and any losses, as long as the line never holds more
\* pings than there are codes (MasterPinger.cpp:65-73).
THEOREM VerdictsSound ==
    ASSUME Delay <= NbCodes
    PROVE  Spec => VerdictIsSound
<1>1. SoundInv /\ TypeOK' /\ [Next]_vars => SoundInv'
  BY SoundStep
<1>2. SoundInv /\ [Next]_vars =>
         [pc = "check" /\ pc' = "write" /\ reachable' =>
             Cardinality(Underway \ declared) <= Threshold]_vars
  <2> SUFFICES ASSUME SoundInv, [Next]_vars, pc = "check", pc' = "write", reachable'
               PROVE  Cardinality(Underway \ declared) <= Threshold
    OBVIOUS
  <2>1. Check
    BY DEF Next, Write, Count, Record, Check, Stop, HandleReceive, CountLost, Erase, Lose, vars
  <2> QED
    BY <2>1, SoundVerdict
<1>3. Spec => []TypeOK
  BY Types
<1> QED
  BY <1>1, <1>2, <1>3, SoundInit, PTL DEF Spec, VerdictIsSound


-------------------------------------------------------------------------------
(***************************************************************************)
(* The pinger with its reports is the pinger of PingStats: whatever is     *)
(* proved of the accounts holds beside the report timer.  And the timer's  *)
(* life: it is used after its end only by a handler it was deleted under.  *)
(***************************************************************************)

\* Reports change no account: each step of the pinger is one of PingStats, or
\* leaves its variables alone (ReportingActivity.h:56-99).
THEOREM Accounting == PingerSpec => Spec
<1>1. PingerInit => Init
  BY DEF PingerInit
<1>2. [PingerNext]_pingerVars => [Next]_vars
  <2> SUFFICES ASSUME [PingerNext]_pingerVars PROVE [Next]_vars
    OBVIOUS
  <2>1. CASE Loop
    BY <2>1 DEF Loop, Next
  <2>2. CASE Echoes
    BY <2>2 DEF Echoes, Next
  <2>3. CASE Lose
    BY <2>3 DEF Next
  <2>4. CASE UNCHANGED vars
    BY <2>4
  <2>5. UNCHANGED vars \/ Loop \/ Echoes \/ Lose
    BY DEF PingerNext, pingerVars, InitReporting, EndReporting, MakeReport, Delete, Expires,
           HandleTimer, Rearm
  <2> QED
    BY <2>1, <2>2, <2>3, <2>4, <2>5
<1> QED
  BY <1>1, <1>2, PTL DEF PingerSpec, Spec

\* So a report is made of accounts that are right (MasterPinger.cpp:182-185).
THEOREM Reported ==
    PingerSpec => [](NothingBookedTwice /\ NeverMoreThanSent /\ FirstRoundExact /\ VerdictFresh)
BY Accounting, Accounts, NoWrap, FirstRound, Verdicts, PTL

\* And with the reports, too, the verdict is right about what is under way, as
\* long as the line holds no more pings than there are codes.
THEOREM ReportedSound ==
    ASSUME Delay <= NbCodes
    PROVE  PingerSpec => VerdictIsSound
<1>1. Spec => VerdictIsSound
  BY VerdictsSound
<1> QED
  BY <1>1, Accounting, PTL

-------------------------------------------------------------------------------
\* The timer's types and NoLateReport, with what has to be known of a deleted
\* timer: its handler is queued or running only if it was deleted under it.
TimerInv ==
    /\ ReportTypeOK
    /\ timer = "freed" => crossed
    /\ handling /\ timer = "deleted" => crossed
    /\ undefined = "timer" => crossed
    /\ handling /\ timer # "deleted" => timer = "running"

LEMMA TimerInit == PingerInit => TimerInv
BY DEF PingerInit, Init, TimerInv, ReportTypeOK

\* A step of the accounts that the reports do not see.
LEMMA TimerUntouched ==
    ASSUME TimerInv, UNCHANGED reportVars, handling => io' = "idle"
    PROVE  TimerInv'
BY DEF TimerInv, ReportTypeOK, reportVars

LEMMA TimerStep ==
    ASSUME TimerInv, [PingerNext]_pingerVars
    PROVE  TimerInv'
<1> USE DEF TimerInv, ReportTypeOK
<1>1. CASE InitReporting
  BY <1>1 DEF InitReporting, vars
<1>2. CASE Loop
  <2>1. UNCHANGED <<reportVars, io>>
    BY <1>2 DEF Loop, Write, Count, Record, Check, Stop, ioVars
  <2> QED
    BY <2>1, TimerUntouched
<1>3. CASE EndReporting
  <2>1. /\ stage = "loop" /\ stage' = "ended"
        /\ timer' = IF timer = "expired" THEN "freed" ELSE "deleted"
        /\ UNCHANGED <<io, handling, undefined>>
    BY <1>3 DEF EndReporting, vars
  <2>2. crossed' = TRUE <=> timer = "expired" \/ handling
    BY <1>3 DEF EndReporting
  <2>3. crossed' \in BOOLEAN
    BY <1>3 DEF EndReporting
  <2>4. undefined = "no"
    BY <1>3, <2>1 DEF PingerNext, pingerVars, reportVars
  <2> QED
    BY <2>1, <2>2, <2>3, <2>4
<1>4. CASE MakeReport
  BY <1>4 DEF MakeReport, vars
<1>5. CASE Delete
  BY <1>5 DEF Delete, vars
<1>6. CASE Expires
  BY <1>6 DEF Expires, vars
<1>7. CASE Echoes
  <2>1. UNCHANGED reportVars /\ ~handling
    BY <1>7 DEF Echoes
  <2> QED
    BY <2>1, TimerUntouched
<1>8. CASE HandleTimer
  BY <1>8 DEF HandleTimer, vars
<1>9. CASE Rearm
  BY <1>9 DEF Rearm, vars
<1>10. CASE Lose /\ UNCHANGED reportVars
  <2>1. UNCHANGED <<reportVars, io>>
    BY <1>10 DEF Lose, ioVars
  <2> QED
    BY <2>1, TimerUntouched
<1>11. CASE UNCHANGED pingerVars
  <2>1. UNCHANGED <<reportVars, io>>
    BY <1>11 DEF pingerVars, vars
  <2> QED
    BY <2>1, TimerUntouched
<1> QED
  BY <1>1, <1>2, <1>3, <1>4, <1>5, <1>6, <1>7, <1>8, <1>9, <1>10, <1>11 DEF PingerNext

\* The report timer exists exactly while the thread's loop runs.
THEOREM TimerLives == PingerSpec => []ReportTypeOK
<1>1. TimerInv => ReportTypeOK
  BY DEF TimerInv
<1> QED
  BY <1>1, TimerInit, TimerStep, PTL DEF PingerSpec

\* Nothing but a deletion under a queued or running handler makes a report late
\* or arms a deleted timer (ReportingActivity.h:56-67, 92-99).
THEOREM Crossing == PingerSpec => []NoLateReport
<1>1. TimerInv => NoLateReport
  BY DEF TimerInv, ReportTypeOK, NoLateReport
<1> QED
  BY <1>1, TimerInit, TimerStep, PTL DEF PingerSpec

===============================================================================
