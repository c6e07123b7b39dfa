----------------------- MODULE ThroughputResultsProofs -----------------------
(***************************************************************************)
(* The results of a throughput test, for answers and floods of any length, *)
(* any losses and any number of requests.                                  *)
(***************************************************************************)
EXTENDS ThroughputResults, FiniteSetTheorems, SequenceTheorems, TLAPS

LEMMA Sizes == Width \in Nat /\ Flood \in Nat /\ Width >= 1 /\ Flood >= 1
BY ResultsAssumption

-------------------------------------------------------------------------------
(***************************************************************************)
(* What is taken from a line, and what is left of it.                      *)
(***************************************************************************)
LEMMA FirstPart ==
    ASSUME NEW S, NEW s \in Seq(S), NEW n \in 0..Len(s)
    PROVE  /\ SubSeq(s, 1, n) \in Seq(S) /\ Len(SubSeq(s, 1, n)) = n
           /\ \A i \in 1..n : SubSeq(s, 1, n)[i] = s[i]
<1>1. Len(s) \in Nat /\ \A i \in 1..n : s[i] \in S
  BY LenProperties
<1>2. /\ SubSeq(s, 1, n) \in Seq(S)
      /\ Len(SubSeq(s, 1, n)) = IF 1 <= n THEN n - 1 + 1 ELSE 0
      /\ \A i \in 1..(n - 1 + 1) : SubSeq(s, 1, n)[i] = s[1 + i - 1]
  BY <1>1, SubSeqProperties
<1> QED
  BY <1>1, <1>2

LEMMA RestOf ==
    ASSUME NEW S, NEW s \in Seq(S), NEW n \in 0..Len(s)
    PROVE  /\ SubSeq(s, n + 1, Len(s)) \in Seq(S)
           /\ Len(SubSeq(s, n + 1, Len(s))) = Len(s) - n
           /\ \A i \in 1..(Len(s) - n) : SubSeq(s, n + 1, Len(s))[i] = s[n + i]
<1>1. Len(s) \in Nat /\ \A i \in (n + 1)..Len(s) : s[i] \in S
  BY LenProperties
<1>2. /\ SubSeq(s, n + 1, Len(s)) \in Seq(S)
      /\ Len(SubSeq(s, n + 1, Len(s))) = IF n + 1 <= Len(s) THEN Len(s) - (n + 1) + 1 ELSE 0
      /\ \A i \in 1..(Len(s) - (n + 1) + 1) :
            SubSeq(s, n + 1, Len(s))[i] = s[(n + 1) + i - 1]
  BY <1>1, SubSeqProperties
<1> QED
  BY <1>1, <1>2

LEMMA WithoutTyped ==
    ASSUME NEW S, NEW s \in Seq(S), NEW i \in DOMAIN s
    PROVE  /\ Without(s, i) \in Seq(S)
           /\ Len(Without(s, i)) \in Nat /\ Len(Without(s, i)) <= Len(s)
<1>1. i \in 1..Len(s) /\ Len(s) \in Nat
  BY LenProperties
<1>2. SubSeq(s, 1, i - 1) \in Seq(S) /\ Len(SubSeq(s, 1, i - 1)) = i - 1
  BY <1>1, FirstPart
<1>3. SubSeq(s, i + 1, Len(s)) \in Seq(S) /\ Len(SubSeq(s, i + 1, Len(s))) = Len(s) - i
  BY <1>1, RestOf
<1> QED
  <2> DEFINE a == SubSeq(s, 1, i - 1)
             b == SubSeq(s, i + 1, Len(s))
  <2>1. a \o b \in Seq(S) /\ Len(a \o b) = Len(a) + Len(b)
    BY <1>2, <1>3, ConcatProperties
  <2>2. Len(a) + Len(b) \in Nat /\ Len(a) + Len(b) <= Len(s)
    BY <1>1, <1>2, <1>3
  <2> HIDE DEF a, b
  <2>3. Without(s, i) = a \o b
    BY DEF Without, a, b
  <2> QED
    BY <2>1, <2>2, <2>3

\* What is left of a line that lost a byte.
LEMMA WithoutIs ==
    ASSUME NEW S, NEW s \in Seq(S), NEW j \in 1..Len(s)
    PROVE  /\ Len(Without(s, j)) = Len(s) - 1
           /\ \A i \in 1..(j - 1) : Without(s, j)[i] = s[i]
           /\ \A i \in j..(Len(s) - 1) : Without(s, j)[i] = s[i + 1]
<1>1. Len(s) \in Nat /\ j - 1 \in 0..Len(s) /\ j \in 0..Len(s)
  BY LenProperties
<1> DEFINE a == SubSeq(s, 1, j - 1)
           b == SubSeq(s, j + 1, Len(s))
<1>2. a \in Seq(S) /\ Len(a) = j - 1 /\ \A i \in 1..(j - 1) : a[i] = s[i]
  BY <1>1, FirstPart
<1>3. b \in Seq(S) /\ Len(b) = Len(s) - j /\ \A i \in 1..(Len(s) - j) : b[i] = s[j + i]
  BY <1>1, RestOf
<1>4. Without(s, j) = a \o b
  BY DEF Without
<1> HIDE DEF a, b
<1>5. /\ Len(a \o b) = Len(a) + Len(b)
      /\ \A i \in 1..(Len(a) + Len(b)) : (a \o b)[i] = IF i <= Len(a) THEN a[i] ELSE b[i - Len(a)]
  BY <1>2, <1>3, ConcatProperties
<1>6. ASSUME NEW i \in 1..(j - 1) PROVE Without(s, j)[i] = s[i]
  <2>1. i \in 1..(Len(a) + Len(b)) /\ i <= Len(a)
    BY <1>1, <1>2, <1>3
  <2> QED
    BY <1>2, <1>4, <1>5, <2>1
<1>7. ASSUME NEW i \in j..(Len(s) - 1) PROVE Without(s, j)[i] = s[i + 1]
  <2>1. i \in 1..(Len(a) + Len(b)) /\ ~(i <= Len(a)) /\ i - Len(a) = i - (j - 1)
    BY <1>1, <1>2, <1>3
  <2>2. i - (j - 1) \in 1..(Len(s) - j) /\ j + (i - (j - 1)) = i + 1
    BY <1>1
  <2>3. b[i - (j - 1)] = s[j + (i - (j - 1))]
    BY <1>3, <2>2
  <2> QED
    BY <1>4, <1>5, <2>1, <2>2, <2>3
<1>8. Len(Without(s, j)) = Len(s) - 1
  BY <1>1, <1>2, <1>3, <1>4, <1>5
<1> QED
  BY <1>6, <1>7, <1>8


\* A block holds finitely many requests.
LEMMA RequestsFinite ==
    ASSUME NEW n \in Nat
    PROVE  RequestsIn(n) \in Nat
<1>1. IsFiniteSet(1..n)
  BY FS_Interval
<1>2. {i \in 1..n : toRemote[i] = "request"} \in SUBSET (1..n)
  OBVIOUS
<1> QED
  BY <1>1, <1>2, FS_Subset, FS_CardinalityType DEF RequestsIn

\* The answers to a block's requests.
LEMMA AnswersTyped ==
    ASSUME totals \in Seq(Nat), NEW count \in Nat
    PROVE  /\ Answers(count) \in Seq(ToMaster) /\ Len(Answers(count)) = count * Width
           /\ \A i \in 1..(count * Width) : Answers(count)[i] = Result(Len(totals) * Width + i)
<1>1. count * Width \in Nat /\ Len(totals) * Width \in Nat
  BY Sizes
<1>2. \A i \in 1..(count * Width) : Result(Len(totals) * Width + i) \in ToMaster
  BY <1>1 DEF Result, ToMaster
<1> QED
  BY <1>1, <1>2 DEF Answers

-------------------------------------------------------------------------------
(***************************************************************************)
(* Types.                                                                  *)
(***************************************************************************)
Entries == [kind : {"one", "block", "expiry"}, taken : Seq(ToMaster)]

LEMMA Popped ==
    ASSUME TypeOK, queue # <<>>
    PROVE  Head(queue) \in Entries /\ Tail(queue) \in Seq(Entries)
<1>1. queue \in Seq(Entries)
  BY DEF TypeOK, Entries
<1> QED
  BY <1>1, HeadTailProperties

LEMMA PutInQueue ==
    ASSUME TypeOK, NEW entry \in Entries, queue' = Append(queue, entry)
    PROVE  queue' \in Seq(Entries)
<1>1. queue \in Seq(Entries)
  BY DEF TypeOK, Entries
<1> QED
  BY <1>1

LEMMA TypesInit == Init => TypeOK
<1> SUFFICES ASSUME Init PROVE TypeOK
  OBVIOUS
<1>1. PICK n \in 0..1 : toMaster = [i \in 1..n |-> Stray("echo")] /\ strays = n
  BY DEF Init
<1>2. Stray("echo") \in ToMaster
  BY DEF Stray, ToMaster
<1>3. toMaster \in Seq(ToMaster) /\ strays \in Nat
  BY <1>1, <1>2
<1>4. /\ queue \in Seq([kind : {"one", "block", "expiry"}, taken : Seq(ToMaster)])
      /\ results \in Seq(ToMaster) /\ toRemote \in Seq(ToRemote) /\ totals \in Seq(Nat)
  BY DEF Init
<1>5. {received, last, requests, losses, strays} \subseteq Nat /\ last <= received
  BY <1>3 DEF Init
<1>6. singles \in Nat /\ block \in BOOLEAN /\ resultsReady \in BOOLEAN
  BY DEF Init
<1>7. early \in BOOLEAN /\ phantom \in BOOLEAN /\ undefined \in {"no", "timer", "map"}
  BY DEF Init
<1>8. /\ pc = "flood" /\ io = "handling" /\ timer = "none"
      /\ remote \in {"throughput", "retrying"}
  BY DEF Init
<1> QED
  BY <1>3, <1>4, <1>5, <1>6, <1>7, <1>8 DEF TypeOK

LEMMA TestThreadTypes == ASSUME TypeOK, TestThread PROVE TypeOK'
<1>1. CASE WriteFlood
  <2>1. PICK n \in 1..Flood : toRemote' = [i \in 1..n |-> "data"]
    BY <1>1 DEF WriteFlood
  <2>2. toRemote' \in Seq(ToRemote)
    BY <2>1, Sizes DEF ToRemote
  <2> QED
    BY <1>1, <2>2 DEF WriteFlood, TypeOK, remoteVars, history
<1>2. CASE Ask
  BY <1>2 DEF Ask, TypeOK, remoteVars, history
<1>3. CASE Request
  <2>1. toRemote' \in Seq(ToRemote)
    BY <1>3 DEF Request, TypeOK, ToRemote
  <2> QED
    BY <1>3, <2>1 DEF Request, TypeOK, remoteVars, history
<1>4. CASE StartTimer
  BY <1>4 DEF StartTimer, TypeOK, remoteVars, history
<1>5. CASE Waited
  BY <1>5 DEF Waited, TypeOK, remoteVars, history
<1> QED
  BY <1>1, <1>2, <1>3, <1>4, <1>5 DEF TestThread

LEMMA StreamTypes == ASSUME TypeOK, Stream PROVE TypeOK'
<1> USE DEF remoteVars, history
<1>1. CASE SingleRead
  <2>1. Head(toMaster) \in ToMaster /\ Tail(toMaster) \in Seq(ToMaster)
    BY <1>1, HeadTailProperties DEF SingleRead, TypeOK
  <2>2. One(Head(toMaster)) \in Entries
    BY <2>1 DEF One, Entries
  <2>3. queue' \in Seq(Entries)
    BY <1>1, <2>2, PutInQueue DEF SingleRead
  <2> QED
    BY <1>1, <2>1, <2>3 DEF SingleRead, Entries, TypeOK
<1>2. CASE BlockRead
  <2>0. toMaster \in Seq(ToMaster) /\ Len(toMaster) \in Nat
    BY DEF TypeOK
  <2>1. Width \in 0..Len(toMaster)
    BY <1>2, <2>0, Sizes DEF BlockRead
  <2>2. SubSeq(toMaster, 1, Width) \in Seq(ToMaster)
    BY <2>0, <2>1, FirstPart
  <2>3. SubSeq(toMaster, Width + 1, Len(toMaster)) \in Seq(ToMaster)
    BY <2>0, <2>1, RestOf
  <2>4. Whole(SubSeq(toMaster, 1, Width)) \in Entries
    BY <2>2 DEF Whole, Entries
  <2>5. queue' \in Seq(Entries)
    BY <1>2, <2>4, PutInQueue DEF BlockRead
  <2>6. toMaster' \in Seq(ToMaster) /\ block' \in BOOLEAN
    BY <1>2, <2>3 DEF BlockRead
  <2>7. UNCHANGED <<pc, singles, io, timer, resultsReady, results, received, last, remote, totals,
                    toRemote, requests, losses, strays, early, undefined, phantom>>
    BY <1>2 DEF BlockRead
  <2> QED
    BY <2>5, <2>6, <2>7 DEF Entries, TypeOK
<1> QED
  BY <1>1, <1>2 DEF Stream

LEMMA IoThreadTypes == ASSUME TypeOK, IoThread \/ TimerExpires PROVE TypeOK'
<1> USE DEF TypeOK, remoteVars, history
<1>1. CASE TimerExpires
  <2>1. Expiry \in Entries
    BY DEF Expiry, Entries
  <2>2. queue' \in Seq(Entries)
    BY <1>1, <2>1, PutInQueue DEF TimerExpires
  <2>3. early' \in BOOLEAN
    BY <1>1 DEF TimerExpires
  <2> QED
    BY <1>1, <2>2, <2>3 DEF TimerExpires, Entries
<1>2. CASE IoThread
  <2>1. Head(queue) \in Entries /\ queue' \in Seq(Entries)
    BY <1>2, Popped DEF IoThread, ReceiveResults, DispatchByte, IgnoreByte,
                        TimeoutReceiveResults, Runs
  <2>2. Head(queue).taken \in Seq(ToMaster)
    BY <2>1 DEF Entries
  <2>3. CASE ReceiveResults
    <3>1. early' \in BOOLEAN
      BY <2>3 DEF ReceiveResults
    <3> QED
      BY <2>1, <2>2, <2>3, <3>1 DEF ReceiveResults, Entries
  <2>4. CASE DispatchByte
    <3>1. phantom' \in BOOLEAN
      BY <2>4 DEF DispatchByte
    <3> QED
      BY <2>1, <2>4, <3>1 DEF DispatchByte, Entries
  <2>5. CASE IgnoreByte
    BY <2>1, <2>5 DEF IgnoreByte, Entries
  <2>6. CASE TimeoutReceiveResults
    <3> HIDE DEF TypeOK
    <3>1. toRemote' \in Seq(ToRemote)
      BY <2>6 DEF TimeoutReceiveResults, ToRemote, TypeOK
    <3>2. requests' \in Nat /\ timer' = "armed" /\ undefined' \in {"no", "timer", "map"}
      BY <2>6 DEF TimeoutReceiveResults, TypeOK
    <3>3. UNCHANGED <<pc, singles, block, io, resultsReady, results, remote, received, last, totals,
                      toMaster, losses, strays, early, phantom>>
      BY <2>6 DEF TimeoutReceiveResults
    <3> QED
      BY <2>1, <3>1, <3>2, <3>3 DEF TypeOK, Entries
  <2> QED
    BY <1>2, <2>3, <2>4, <2>5, <2>6 DEF IoThread
<1> QED
  BY <1>1, <1>2

\* What the remote does with a block.
LEMMA Received ==
    ASSUME TypeOK, RemoteReceives
    PROVE  \E n \in 1..Len(toRemote) :
              /\ ReadTakes(n) /\ RequestsIn(n) \in Nat
              /\ toRemote' = SubSeq(toRemote, n + 1, Len(toRemote))
              /\ toMaster' = toMaster \o Answers(RequestsIn(n))
              /\ totals' = totals \o [i \in 1..RequestsIn(n) |-> Total]
              /\ undefined' = IF RequestsIn(n) > 0 /\ last = 0 THEN "map" ELSE undefined
              /\ last' = n /\ received' = received + n
<1>1. Len(toRemote) \in Nat
  BY DEF TypeOK
<1>2. \A n \in 1..Len(toRemote) : RequestsIn(n) \in Nat
  BY <1>1, RequestsFinite
<1> QED
  BY <1>2 DEF RemoteReceives, Store

LEMMA ManyTotals ==
    ASSUME NEW total \in Nat, NEW count \in Nat
    PROVE  [i \in 1..count |-> total] \in Seq(Nat) /\ Len([i \in 1..count |-> total]) = count
OBVIOUS

LEMMA RemoteTypes ==
    ASSUME TypeOK, RemoteReceives \/ RemoteIgnores \/ RemoteRetries \/ Lose
    PROVE  TypeOK'
<1> USE DEF masterVars, remoteVars, history
<1>0. /\ toMaster \in Seq(ToMaster) /\ toRemote \in Seq(ToRemote) /\ totals \in Seq(Nat)
      /\ Len(toRemote) \in Nat
      /\ received \in Nat /\ last \in Nat /\ last <= received
      /\ undefined \in {"no", "timer", "map"}
  BY DEF TypeOK
<1>1. CASE RemoteReceives
  <2>1. PICK n \in 1..Len(toRemote) :
           /\ RequestsIn(n) \in Nat
           /\ toRemote' = SubSeq(toRemote, n + 1, Len(toRemote))
           /\ toMaster' = toMaster \o Answers(RequestsIn(n))
           /\ totals' = totals \o [i \in 1..RequestsIn(n) |-> Total]
           /\ undefined' = IF RequestsIn(n) > 0 /\ last = 0 THEN "map" ELSE undefined
           /\ last' = n /\ received' = received + n
    BY <1>1, Received
  <2>a. n \in 0..Len(toRemote) /\ n \in Nat
    BY <1>0
  <2>2. toRemote' \in Seq(ToRemote)
    <3>1. SubSeq(toRemote, n + 1, Len(toRemote)) \in Seq(ToRemote)
      BY <1>0, <2>a, RestOf
    <3> QED
      BY <2>1, <3>1
  <2>3. Answers(RequestsIn(n)) \in Seq(ToMaster)
    BY <1>0, <2>1, AnswersTyped
  <2>4. toMaster' \in Seq(ToMaster)
    <3>1. toMaster \o Answers(RequestsIn(n)) \in Seq(ToMaster)
      BY <1>0, <2>3, ConcatProperties
    <3> QED
      BY <2>1, <3>1
  <2>5. Total \in Nat
    BY <1>0 DEF Total
  <2>6. [i \in 1..RequestsIn(n) |-> Total] \in Seq(Nat)
    BY <2>1, <2>5, ManyTotals
  <2>7. totals' \in Seq(Nat)
    <3>1. totals \o [i \in 1..RequestsIn(n) |-> Total] \in Seq(Nat)
      BY <1>0, <2>6, ConcatProperties
    <3> QED
      BY <2>1, <3>1
  <2>8. last' \in Nat /\ received' \in Nat /\ last' <= received'
    BY <1>0, <2>1, <2>a
  <2>9. undefined' \in {"no", "timer", "map"}
    BY <1>0, <2>1
  <2>10. UNCHANGED <<pc, singles, block, queue, io, timer, resultsReady, results, remote, requests,
                     losses, strays, early, phantom>>
    BY <1>1 DEF RemoteReceives
  <2> QED
    BY <2>2, <2>4, <2>7, <2>8, <2>9, <2>10 DEF TypeOK
<1>2. CASE RemoteIgnores
  BY <1>2 DEF RemoteIgnores, TypeOK
<1>3. CASE RemoteRetries
  <2>1. toMaster' \in Seq(ToMaster)
    BY <1>0, <1>3 DEF RemoteRetries, Stray, ToMaster
  <2> QED
    BY <1>3, <2>1 DEF RemoteRetries, TypeOK
<1>4. CASE Lose
  <2>1. toMaster' \in Seq(ToMaster) /\ toRemote' \in Seq(ToRemote)
    BY <1>0, <1>4, WithoutTyped DEF Lose
  <2> QED
    BY <1>4, <2>1 DEF Lose, TypeOK
<1> QED
  BY <1>1, <1>2, <1>3, <1>4

LEMMA TypesStep == ASSUME TypeOK, [Next]_vars PROVE TypeOK'
<1>1. CASE UNCHANGED vars
  BY <1>1 DEF TypeOK, vars, masterVars, remoteVars, history
<1> QED
  BY <1>1, TestThreadTypes, StreamTypes, IoThreadTypes, RemoteTypes DEF Next, Step

\* Types, and that no block is larger than what was received.
THEOREM Types == Spec => []TypeOK
BY TypesInit, TypesStep, PTL DEF Spec

-------------------------------------------------------------------------------
(***************************************************************************)
(* The timer.  As long as nothing missed anything, it exists from its      *)
(* making to the answer, at most one answer is under way, and when it      *)
(* expires nothing is on its way but single bytes that no one waits for.   *)
(***************************************************************************)
None(kind) == \A i \in 1..Len(queue) : queue[i].kind # kind

Lonely ==
    /\ Len(queue) >= 1 /\ queue[1].kind = "expiry"
    /\ \A i \in 2..Len(queue) : queue[i].kind = "one"
    /\ toRemote = <<>> /\ remote = "throughput"
    /\ block => Len(toMaster) < Width

InTime ==
    /\ timer = "none" <=> pc \in {"flood", "ask", "request", "time"}
    /\ block \/ pc \in {"flood", "ask"} \/ timer \in {"deleted", "freed"} => None("block")
    /\ pc \in {"flood", "ask"} \/ timer \in {"deleted", "freed"} => ~block
    /\ \A i, j \in 1..Len(queue) : queue[i].kind = "block" /\ queue[j].kind = "block" => i = j
    /\ timer # "expired" => None("expiry")
    /\ timer = "expired" => Lonely

TimerInv == TypeOK /\ (undefined = "timer" => early) /\ (~early => InTime)

LEMMA PutFacts ==
    ASSUME TypeOK, NEW e \in Entries, queue' = Append(queue, e)
    PROVE  /\ Len(queue) \in Nat /\ Len(queue') = Len(queue) + 1
           /\ queue'[Len(queue) + 1] = e
           /\ \A i \in 1..Len(queue) : queue'[i] = queue[i]
           /\ \A kind : None(kind) /\ e.kind # kind => None(kind)'
<1>1. queue \in Seq(Entries)
  BY DEF TypeOK, Entries
<1>2. /\ Len(queue) \in Nat /\ Len(queue') = Len(queue) + 1
      /\ queue'[Len(queue) + 1] = e
      /\ \A i \in 1..Len(queue) : queue'[i] = queue[i]
  BY <1>1
<1>3. ASSUME NEW kind, None(kind), e.kind # kind, NEW i \in 1..Len(queue')
      PROVE  queue'[i].kind # kind
  <2>1. CASE i = Len(queue) + 1
    BY <1>2, <1>3, <2>1
  <2>2. CASE i # Len(queue) + 1
    BY <1>2, <1>3, <2>2 DEF None
  <2> QED
    BY <2>1, <2>2
<1> QED
  BY <1>2, <1>3 DEF None

LEMMA PopFacts ==
    ASSUME TypeOK, queue # <<>>, queue' = Tail(queue)
    PROVE  /\ Len(queue) \in Nat /\ Len(queue) >= 1 /\ Len(queue') = Len(queue) - 1
           /\ Head(queue) = queue[1]
           /\ \A i \in 1..Len(queue') : queue'[i] = queue[i + 1]
           /\ \A kind : None(kind) => None(kind)'
<1>1. queue \in Seq(Entries)
  BY DEF TypeOK, Entries
<1>2. /\ Len(queue) \in Nat /\ Len(queue) >= 1 /\ Len(queue') = Len(queue) - 1
      /\ Head(queue) = queue[1]
      /\ \A i \in 1..Len(queue') : queue'[i] = queue[i + 1]
  BY <1>1, HeadTailProperties
<1> QED
  BY <1>2 DEF None

LEMMA TimerInit == Init => TimerInv
BY TypesInit DEF Init, TimerInv, InTime, None

\* Steps that leave the queue and the timer alone.
LEMMA TimerUntouched ==
    ASSUME TimerInv, TypeOK', UNCHANGED <<queue, timer, early>>,
           undefined' = "timer" => undefined = "timer",
           ~early => /\ (timer = "none" <=> pc' \in {"flood", "ask", "request", "time"})
                     /\ block' => block \/ pc = "ask"
                     /\ pc' \in {"flood", "ask"} => pc \in {"flood", "ask"} /\ ~block'
                     /\ timer \in {"deleted", "freed"} => ~block'
                     /\ Lonely => Lonely'
    PROVE  TimerInv'
BY DEF TimerInv, InTime, None

LEMMA TimerTestThread == ASSUME TimerInv, TypeOK', TestThread PROVE TimerInv'
<1> USE DEF TimerInv, InTime, Lonely, None, history, remoteVars
<1>1. CASE WriteFlood
  BY <1>1 DEF WriteFlood
<1>2. CASE Ask
  BY <1>2 DEF Ask
<1>3. CASE Request
  BY <1>3 DEF Request
<1>4. CASE StartTimer
  BY <1>4 DEF StartTimer
<1>5. CASE Waited
  BY <1>5 DEF Waited
<1> QED
  BY <1>1, <1>2, <1>3, <1>4, <1>5 DEF TestThread

LEMMA TimerStream == ASSUME TimerInv, TypeOK', Stream PROVE TimerInv'
<1>1. CASE SingleRead
  <2>1. /\ toMaster # <<>> /\ toMaster' = Tail(toMaster)
        /\ queue' = Append(queue, One(Head(toMaster)))
        /\ UNCHANGED <<pc, block, timer, remote, toRemote, early, undefined>>
    BY <1>1 DEF SingleRead, remoteVars, history
  <2>2. One(Head(toMaster)) \in Entries /\ One(Head(toMaster)).kind = "one"
    <3>1. Head(toMaster) \in ToMaster
      BY <2>1, HeadTailProperties DEF TimerInv, TypeOK
    <3> QED
      BY <3>1 DEF One, Entries
  <2>3. /\ Len(queue) \in Nat /\ Len(queue') = Len(queue) + 1
        /\ queue'[Len(queue) + 1].kind = "one"
        /\ \A i \in 1..Len(queue) : queue'[i] = queue[i]
        /\ \A kind : None(kind) /\ kind # "one" => None(kind)'
    BY <2>1, <2>2, PutFacts DEF TimerInv
  <2>4. Len(toMaster) \in Nat /\ Len(toMaster') = Len(toMaster) - 1
    BY <2>1, HeadTailProperties DEF TimerInv, TypeOK
  <2>5. Lonely => Lonely'
    BY <2>1, <2>3, <2>4, Sizes DEF Lonely
  <2>6. \A i \in 1..Len(queue') : queue'[i].kind = "block" => i \in 1..Len(queue)
    BY <2>3
  <2>7. ~early => InTime'
    BY <2>1, <2>3, <2>5, <2>6 DEF TimerInv, InTime
  <2> QED
    BY <2>1, <2>7 DEF TimerInv
<1>2. CASE BlockRead
  <2>1. /\ block /\ ~block' /\ Len(toMaster) >= Width
        /\ queue' = Append(queue, Whole(SubSeq(toMaster, 1, Width)))
        /\ UNCHANGED <<pc, timer, remote, toRemote, early, undefined>>
    BY <1>2 DEF BlockRead, remoteVars, history, TimerInv, TypeOK
  <2>2. Whole(SubSeq(toMaster, 1, Width)) \in Entries
    <3>1. Width \in 0..Len(toMaster) /\ toMaster \in Seq(ToMaster)
      BY <2>1, Sizes DEF TimerInv, TypeOK
    <3>2. SubSeq(toMaster, 1, Width) \in Seq(ToMaster)
      BY <3>1, FirstPart
    <3> QED
      BY <3>2 DEF Whole, Entries
  <2>3. Whole(SubSeq(toMaster, 1, Width)).kind = "block"
    BY DEF Whole
  <2>4. /\ Len(queue) \in Nat /\ Len(queue') = Len(queue) + 1
        /\ \A i \in 1..Len(queue) : queue'[i] = queue[i]
        /\ None("expiry") => None("expiry")'
    BY <2>1, <2>2, <2>3, PutFacts DEF TimerInv
  <2>5. ASSUME ~early PROVE InTime'
    <3>1. None("block") /\ pc \notin {"flood", "ask"} /\ timer \notin {"deleted", "freed"}
      BY <2>1, <2>5 DEF TimerInv, InTime
    <3>2. timer # "expired"
      <4>1. Len(toMaster) \in Nat
        BY DEF TimerInv, TypeOK
      <4> QED
        BY <2>1, <2>5, <4>1, Sizes DEF TimerInv, InTime, Lonely
    <3>3. \A i \in 1..Len(queue') : queue'[i].kind = "block" => i = Len(queue) + 1
      BY <2>4, <3>1 DEF None
    <3> QED
      BY <2>1, <2>4, <2>5, <3>1, <3>2, <3>3 DEF TimerInv, InTime
  <2> QED
    BY <2>1, <2>5 DEF TimerInv
<1> QED
  BY <1>1, <1>2 DEF Stream

LEMMA TimerIoThread == ASSUME TimerInv, TypeOK', IoThread \/ TimerExpires PROVE TimerInv'
<1>1. CASE TimerExpires
  <2>1. /\ timer = "armed" /\ timer' = "expired" /\ queue' = Append(queue, Expiry)
        /\ early' = (early \/ ~Quiet)
        /\ UNCHANGED <<pc, block, remote, toRemote, toMaster, undefined>>
    BY <1>1 DEF TimerExpires, remoteVars
  <2>2. Expiry \in Entries /\ Expiry.kind = "expiry"
    BY DEF Expiry, Entries
  <2>3. ASSUME ~early' PROVE InTime'
    <3>1. ~early /\ Quiet
      BY <2>1, <2>3
    <3>2. queue' = <<Expiry>>
      BY <2>1, <3>1 DEF Quiet
    <3>3. Len(queue') = 1 /\ queue'[1].kind = "expiry"
      BY <2>2, <3>2
    <3>4. Len(toMaster) \in Nat
      BY DEF TimerInv, TypeOK
    <3>5. Lonely'
      BY <2>1, <3>1, <3>3, <3>4, Sizes DEF Quiet, Lonely
    <3>6. \A kind : kind # "expiry" => None(kind)'
      BY <3>3 DEF None
    <3>7. pc \in {"wait", "done"}
      BY <3>1 DEF Quiet
    <3> QED
      BY <2>1, <3>1, <3>3, <3>5, <3>6, <3>7 DEF InTime
  <2>4. undefined' = "timer" => early'
    BY <2>1 DEF TimerInv
  <2> QED
    BY <2>3, <2>4 DEF TimerInv
<1>2. CASE ReceiveResults
  <2>1. /\ queue # <<>> /\ Head(queue).kind = "block" /\ queue' = Tail(queue)
        /\ timer' = IF timer = "expired" THEN "freed" ELSE "deleted"
        /\ undefined' = IF timer \in {"armed", "expired"} THEN undefined ELSE "timer"
        /\ early' = (early \/ timer = "none")
        /\ UNCHANGED <<pc, block, remote, toRemote, toMaster>>
    BY <1>2 DEF ReceiveResults, Runs, remoteVars
  <2>2. /\ Len(queue) \in Nat /\ Len(queue) >= 1 /\ Len(queue') = Len(queue) - 1
        /\ Head(queue) = queue[1]
        /\ \A i \in 1..Len(queue') : queue'[i] = queue[i + 1]
        /\ \A kind : None(kind) => None(kind)'
    BY <2>1, PopFacts DEF TimerInv
  <2>3. ~early => timer \in {"none", "armed"}
    <3> SUFFICES ASSUME ~early PROVE timer \in {"none", "armed"}
      OBVIOUS
    <3>1. queue[1].kind = "block"
      BY <2>1, <2>2
    <3>2. timer # "expired"
      BY <3>1 DEF TimerInv, InTime, Lonely
    <3>3. timer \notin {"deleted", "freed"}
      BY <2>2, <3>1 DEF TimerInv, InTime, None
    <3> QED
      BY <3>2, <3>3 DEF TimerInv, TypeOK
  <2>4. ASSUME ~early' PROVE InTime'
    <3>1. ~early /\ timer = "armed" /\ timer' = "deleted"
      BY <2>1, <2>3, <2>4
    <3>2. queue[1].kind = "block" /\ ~None("block")
      BY <2>1, <2>2 DEF None
    <3>3. None("block")'
      <4>1. \A i \in 1..Len(queue) : queue[i].kind = "block" => i = 1
        BY <2>2, <3>1, <3>2 DEF TimerInv, InTime
      <4> QED
        BY <2>2, <4>1 DEF None
    <3> QED
      BY <2>1, <2>2, <3>1, <3>2, <3>3 DEF TimerInv, InTime, None
  <2>5. undefined' = "timer" => early'
    BY <2>1, <2>3 DEF TimerInv
  <2> QED
    BY <2>4, <2>5 DEF TimerInv
<1>3. CASE DispatchByte \/ IgnoreByte
  <2>1. /\ queue # <<>> /\ Head(queue).kind = "one" /\ queue' = Tail(queue)
        /\ UNCHANGED <<pc, block, timer, remote, toRemote, toMaster, early, undefined>>
    BY <1>3 DEF DispatchByte, IgnoreByte, Runs, remoteVars, history
  <2>2. /\ Len(queue) \in Nat /\ Len(queue) >= 1 /\ Len(queue') = Len(queue) - 1
        /\ Head(queue) = queue[1]
        /\ \A i \in 1..Len(queue') : queue'[i] = queue[i + 1]
        /\ \A kind : None(kind) => None(kind)'
    BY <2>1, PopFacts DEF TimerInv
  <2>3. ASSUME ~early PROVE InTime'
    <3>1. timer # "expired"
      BY <2>1, <2>2, <2>3 DEF TimerInv, InTime, Lonely
    <3>2. \A i, j \in 1..Len(queue') :
             queue'[i].kind = "block" /\ queue'[j].kind = "block" => i + 1 = j + 1
      BY <2>2, <2>3 DEF TimerInv, InTime
    <3> QED
      BY <2>1, <2>2, <2>3, <3>1, <3>2 DEF TimerInv, InTime
  <2> QED
    BY <2>1, <2>3 DEF TimerInv
<1>4. CASE TimeoutReceiveResults
  <2>1. /\ queue # <<>> /\ Head(queue).kind = "expiry" /\ queue' = Tail(queue)
        /\ timer' = "armed"
        /\ undefined' = IF timer = "expired" THEN undefined ELSE "timer"
        /\ UNCHANGED <<pc, block, early>>
    BY <1>4 DEF TimeoutReceiveResults, Runs
  <2>2. /\ Len(queue) \in Nat /\ Len(queue) >= 1 /\ Len(queue') = Len(queue) - 1
        /\ Head(queue) = queue[1]
        /\ \A i \in 1..Len(queue') : queue'[i] = queue[i + 1]
    BY <2>1, PopFacts DEF TimerInv
  <2>3. ~early => timer = "expired"
    BY <2>1, <2>2 DEF TimerInv, InTime, None
  <2>4. ASSUME ~early PROVE InTime'
    <3>1. \A i \in 1..Len(queue') : queue'[i].kind = "one"
      BY <2>2, <2>3, <2>4 DEF TimerInv, InTime, Lonely
    <3>2. \A kind : kind # "one" => None(kind)'
      BY <3>1 DEF None
    <3>3. pc \notin {"flood", "ask", "request", "time"}
      BY <2>3, <2>4 DEF TimerInv, InTime
    <3> QED
      BY <2>1, <3>1, <3>2, <3>3 DEF InTime
  <2>5. undefined' = "timer" => early'
    BY <2>1, <2>3 DEF TimerInv
  <2> QED
    BY <2>1, <2>4, <2>5 DEF TimerInv
<1> QED
  BY <1>1, <1>2, <1>3, <1>4 DEF IoThread

LEMMA TimerRemote ==
    ASSUME TimerInv, TypeOK', RemoteReceives \/ RemoteIgnores \/ RemoteRetries \/ Lose
    PROVE  TimerInv'
<1>1. CASE RemoteReceives
  <2>1. /\ UNCHANGED <<pc, block, queue, timer, remote, early>>
        /\ undefined' \in {undefined, "map"}
    BY <1>1, Received DEF TimerInv, RemoteReceives, masterVars
  <2>2. toRemote # <<>>
    BY <1>1 DEF RemoteReceives
  <2> QED
    BY <2>1, <2>2, TimerUntouched DEF TimerInv, InTime, Lonely
<1>2. CASE RemoteIgnores
  BY <1>2, TimerUntouched DEF TimerInv, InTime, Lonely, RemoteIgnores, masterVars, remoteVars,
                              history
<1>3. CASE RemoteRetries
  BY <1>3, TimerUntouched DEF TimerInv, InTime, Lonely, RemoteRetries, masterVars, remoteVars
<1>4. CASE Lose
  <2>1. UNCHANGED <<pc, block, queue, timer, remote, early, undefined>>
    BY <1>4 DEF Lose, masterVars, remoteVars
  <2>2. Lonely => Lonely'
    <3> SUFFICES ASSUME Lonely PROVE Lonely'
      OBVIOUS
    <3>1. toRemote' = <<>>
      BY <1>4 DEF Lose, Lonely
    <3>2. Len(toMaster) \in Nat /\ Len(toMaster') \in Nat /\ Len(toMaster') <= Len(toMaster)
      <4>1. toMaster \in Seq(ToMaster) /\ Len(toMaster) \in Nat
        BY DEF TimerInv, TypeOK
      <4>2. toMaster' = toMaster \/ \E i \in DOMAIN toMaster : toMaster' = Without(toMaster, i)
        BY <1>4 DEF Lose
      <4> QED
        BY <4>1, <4>2, WithoutTyped
    <3> QED
      BY <2>1, <3>1, <3>2, Sizes DEF Lonely
  <2> QED
    BY <2>1, <2>2, TimerUntouched DEF TimerInv, InTime
<1> QED
  BY <1>1, <1>2, <1>3, <1>4

LEMMA TimerStep == ASSUME TimerInv, [Next]_vars PROVE TimerInv'
<1>1. TypeOK'
  BY TypesStep DEF TimerInv
<1>2. CASE UNCHANGED vars
  BY <1>1, <1>2 DEF TimerInv, InTime, Lonely, None, vars, masterVars, remoteVars, history
<1> QED
  BY <1>1, <1>2, TimerTestThread, TimerStream, TimerIoThread, TimerRemote DEF Next, Step

\* For any losses and strays: the timer is used before its beginning or after
\* its end only if an answer and a thread or an expiry missed each other
\* (MasterThroughput.cpp:84, 96-106, 112).
THEOREM TimerUsed == Spec => []TimerInUse
<1>1. TimerInv => TimerInUse
  BY DEF TimerInv, TimerInUse
<1> QED
  BY <1>1, TimerInit, TimerStep, PTL DEF Spec

-------------------------------------------------------------------------------
(***************************************************************************)
(* Before its test's thread asks, nothing is under way but single bytes.   *)
(***************************************************************************)
Unasked == pc \in {"flood", "ask"}

FloodInv ==
    /\ TypeOK
    /\ Unasked => timer = "none" /\ ~block /\ None("block") /\ None("expiry")

LEMMA FloodInit == Init => FloodInv
BY TypesInit DEF Init, FloodInv, None

LEMMA FloodStep == ASSUME FloodInv, [Next]_vars PROVE FloodInv'
<1>1. TypeOK'
  BY TypesStep DEF FloodInv
<1> SUFFICES ASSUME Unasked'
             PROVE  (timer = "none" /\ ~block /\ None("block") /\ None("expiry"))'
  BY <1>1 DEF FloodInv
<1>2. CASE SingleRead
  <2>1. /\ toMaster # <<>> /\ queue' = Append(queue, One(Head(toMaster)))
        /\ UNCHANGED <<pc, block, timer>>
    BY <1>2 DEF SingleRead
  <2>2. One(Head(toMaster)) \in Entries /\ One(Head(toMaster)).kind = "one"
    <3>1. Head(toMaster) \in ToMaster
      BY <2>1, HeadTailProperties DEF FloodInv, TypeOK
    <3> QED
      BY <3>1 DEF One, Entries
  <2> QED
    BY <2>1, <2>2, PutFacts DEF FloodInv, Unasked
<1>3. CASE IoThread
  <2>1. /\ queue # <<>> /\ queue' = Tail(queue) /\ UNCHANGED <<pc, block>>
        /\ Head(queue).kind \notin {"block", "expiry"} => UNCHANGED timer
    BY <1>3 DEF IoThread, ReceiveResults, DispatchByte, IgnoreByte, TimeoutReceiveResults, Runs
  <2>2. /\ Len(queue) \in Nat /\ Len(queue) >= 1 /\ Head(queue) = queue[1]
        /\ \A kind : None(kind) => None(kind)'
    BY <2>1, PopFacts DEF FloodInv
  <2>3. Unasked
    BY <2>1 DEF Unasked
  <2>4. Head(queue).kind \notin {"block", "expiry"}
    BY <2>2, <2>3 DEF FloodInv, None
  <2> QED
    BY <2>1, <2>2, <2>3, <2>4 DEF FloodInv
<1>4. CASE TestThread
  <2>1. /\ UNCHANGED <<queue, block, timer>> /\ Unasked
    BY <1>4 DEF TestThread, WriteFlood, Ask, Request, StartTimer, Waited, Unasked
  <2> QED
    BY <2>1 DEF FloodInv, None
<1>5. CASE BlockRead \/ TimerExpires
  BY <1>5 DEF BlockRead, TimerExpires, FloodInv, Unasked
<1>6. CASE RemoteReceives \/ RemoteIgnores \/ RemoteRetries \/ Lose \/ UNCHANGED vars
  <2>1. UNCHANGED <<pc, queue, block, timer>>
    BY <1>6 DEF RemoteReceives, RemoteIgnores, RemoteRetries, Lose, vars, masterVars
  <2> QED
    BY <2>1 DEF FloodInv, None, Unasked
<1> QED
  BY <1>2, <1>3, <1>4, <1>5, <1>6 DEF Next, Step, Stream

-------------------------------------------------------------------------------
(***************************************************************************)
(* The map of received blocks.  On a line without losses its first entry   *)
(* is a byte of the flood: the first read takes one byte, and nothing is   *)
(* sent before the flood.                                                  *)
(***************************************************************************)
FilledInv ==
    /\ TypeOK
    /\ undefined = "map" => losses > 0
    /\ losses = 0 /\ pc = "flood" => toRemote = <<>>
    /\ losses = 0 /\ pc # "flood" /\ remote = "throughput" /\ last = 0 =>
          toRemote # <<>> /\ toRemote[1] = "data"

LEMMA FilledInit == Init => FilledInv
BY TypesInit DEF Init, FilledInv

LEMMA Appended ==
    ASSUME TypeOK, toRemote # <<>>, NEW b \in ToRemote, toRemote' = Append(toRemote, b)
    PROVE  toRemote' # <<>> /\ toRemote'[1] = toRemote[1]
BY DEF TypeOK

LEMMA FilledReceives == ASSUME FilledInv, TypeOK', RemoteReceives PROVE FilledInv'
<1>1. PICK n \in 1..Len(toRemote) :
         /\ ReadTakes(n)
         /\ undefined' = IF RequestsIn(n) > 0 /\ last = 0 THEN "map" ELSE undefined
         /\ last' = n
  BY Received DEF FilledInv
<1>2. UNCHANGED <<pc, losses, remote>> /\ remote = "throughput" /\ toRemote # <<>>
  BY DEF RemoteReceives, masterVars
<1>3. last' > 0 /\ n \in Nat
  <2>1. Len(toRemote) \in Nat
    BY DEF FilledInv, TypeOK
  <2> QED
    BY <1>1, <2>1
<1>4. undefined' = "map" => losses > 0
  <2>a. losses \in Nat /\ (undefined = "map" => losses > 0)
    BY DEF FilledInv, TypeOK
  <2> SUFFICES ASSUME losses = 0, last = 0 PROVE RequestsIn(n) = 0
    BY <1>1, <2>a
  <2>1. n = 1 /\ toRemote[1] = "data"
    BY <1>1, <1>2 DEF ReadTakes, FilledInv
  <2>2. {i \in 1..n : toRemote[i] = "request"} = {}
    BY <2>1
  <2> QED
    BY <2>2, FS_EmptySet DEF RequestsIn
<1> QED
  BY <1>2, <1>3, <1>4 DEF FilledInv

LEMMA FilledStep == ASSUME FilledInv, FloodInv, [Next]_vars PROVE FilledInv'
<1> USE DEF remoteVars, history
<1>0. TypeOK'
  BY TypesStep DEF FilledInv
<1>1. CASE RemoteReceives
  BY <1>0, <1>1, FilledReceives
<1>2. CASE WriteFlood
  <2>1. PICK n \in 1..Flood : toRemote' = [i \in 1..n |-> "data"]
    BY <1>2 DEF WriteFlood
  <2>2. toRemote' # <<>> /\ toRemote'[1] = "data"
    BY <2>1, Sizes
  <2> QED
    BY <1>0, <1>2, <2>2 DEF WriteFlood, FilledInv
<1>3. CASE Request \/ TimeoutReceiveResults
  <2>1. toRemote' = Append(toRemote, "request") /\ UNCHANGED <<remote, last, losses>>
    BY <1>3 DEF Request, TimeoutReceiveResults
  <2>2. toRemote # <<>> => toRemote' # <<>> /\ toRemote'[1] = toRemote[1]
    BY <2>1, Appended DEF ToRemote, FilledInv
  <2>3. (undefined' = "map" => undefined = "map") /\ (pc' = "flood" <=> pc = "flood")
    BY <1>3 DEF Request, TimeoutReceiveResults
  <2>4. pc # "flood"
    <3>1. CASE Request
      BY <3>1 DEF Request
    <3>2. CASE TimeoutReceiveResults
      <4>1. queue # <<>> /\ queue' = Tail(queue) /\ Head(queue).kind = "expiry"
        BY <3>2 DEF TimeoutReceiveResults, Runs
      <4>2. Len(queue) \in Nat /\ Len(queue) >= 1 /\ Head(queue) = queue[1]
        BY <4>1, PopFacts DEF FilledInv
      <4> QED
        BY <4>1, <4>2 DEF FloodInv, None, Unasked
    <3> QED
      BY <1>3, <3>1, <3>2
  <2> QED
    BY <1>0, <2>1, <2>2, <2>3, <2>4 DEF FilledInv
<1>4. CASE Lose
  <2>1. losses' > 0
    BY <1>4 DEF Lose, FilledInv, TypeOK
  <2> QED
    BY <1>0, <2>1 DEF FilledInv
<1>5. CASE RemoteIgnores
  BY <1>0, <1>5 DEF RemoteIgnores, FilledInv, masterVars
<1>6. CASE \/ Ask \/ StartTimer \/ Waited \/ SingleRead \/ BlockRead \/ ReceiveResults
           \/ DispatchByte \/ IgnoreByte \/ TimerExpires \/ RemoteRetries
  <2>1. /\ UNCHANGED <<toRemote, remote, last, losses>>
        /\ undefined' = "map" => undefined = "map"
        /\ pc' = "flood" <=> pc = "flood"
    BY <1>6 DEF Ask, StartTimer, Waited, SingleRead, BlockRead, ReceiveResults, DispatchByte,
                IgnoreByte, TimerExpires, RemoteRetries, masterVars
  <2> QED
    BY <1>0, <2>1 DEF FilledInv
<1>7. CASE UNCHANGED vars
  BY <1>0, <1>7 DEF FilledInv, vars, masterVars
<1> QED
  BY <1>1, <1>2, <1>3, <1>4, <1>5, <1>6, <1>7 DEF Next, Step, TestThread, Stream, IoThread

\* For answers and floods of any length: the map is empty when it is asked only
\* if the line has lost bytes (RemoteThroughput.cpp:39, 107).
THEOREM MapFilled == Spec => []MapNotEmpty
<1>1. FilledInv => MapNotEmpty
  BY DEF FilledInv, MapNotEmpty
<1> QED
  BY <1>1, FilledInit, FilledStep, FloodInit, FloodStep, PTL DEF Spec

-------------------------------------------------------------------------------
(***************************************************************************)
(* Where the results lie.  On a line that loses nothing and brings no      *)
(* strays, the master takes nothing from it before it reads a whole answer *)
(* and nothing while it does: the bytes on the line are those of the       *)
(* answers, from the first on.                                             *)
(***************************************************************************)
Clean == losses = 0 /\ strays = 0

First == [i \in 1..Width |-> Result(i)]

InLine ==
    /\ Len(toMaster) = Len(totals) * Width
    /\ \A i \in 1..Len(toMaster) : toMaster[i] = Result(i)

Aligned ==
    /\ Unasked => /\ queue = <<>> /\ toMaster = <<>> /\ totals = <<>> /\ ~resultsReady
                  /\ \A i \in 1..Len(toRemote) : toRemote[i] # "request"
    /\ block => /\ ~resultsReady /\ singles = 0 /\ InLine
                /\ \A i \in 1..Len(queue) : queue[i].kind = "expiry"
    /\ \A i \in 1..Len(queue) : queue[i].kind = "block" => queue[i].taken = First
    /\ resultsReady => results = First

AlignedInv == TypeOK /\ (Clean => Aligned)

LEMMA AlignedInit == Init => AlignedInv
<1> SUFFICES ASSUME Init, Clean PROVE Aligned
  BY TypesInit DEF AlignedInv
<1>1. toMaster = <<>>
  BY DEF Init, Clean
<1> QED
  BY <1>1 DEF Init, Aligned

\* The bytes of further answers follow those that lie on the line.
LEMMA AnswersInLine ==
    ASSUME TypeOK, InLine, NEW count \in Nat,
           toMaster' = toMaster \o Answers(count),
           totals' = totals \o [i \in 1..count |-> Total]
    PROVE  InLine'
<1>0. totals \in Seq(Nat) /\ toMaster \in Seq(ToMaster) /\ Len(totals) \in Nat
  BY DEF TypeOK
<1>1. /\ Answers(count) \in Seq(ToMaster) /\ Len(Answers(count)) = count * Width
      /\ \A i \in 1..(count * Width) : Answers(count)[i] = Result(Len(totals) * Width + i)
  BY <1>0, AnswersTyped
<1>2. Len(totals') = Len(totals) + count
  <2>1. Total \in Nat
    BY DEF Total, TypeOK
  <2>2. [i \in 1..count |-> Total] \in Seq(Nat) /\ Len([i \in 1..count |-> Total]) = count
    BY <2>1, ManyTotals
  <2> QED
    BY <1>0, <2>2, ConcatProperties
<1>3. /\ Len(toMaster') = Len(toMaster) + count * Width
      /\ \A i \in 1..(Len(toMaster) + count * Width) :
            toMaster'[i] = IF i <= Len(toMaster) THEN toMaster[i]
                           ELSE Answers(count)[i - Len(toMaster)]
  <2> DEFINE further == Answers(count)
  <2>1. further \in Seq(ToMaster) /\ Len(further) = count * Width /\ toMaster' = toMaster \o further
    BY <1>1
  <2> HIDE DEF further
  <2>2. /\ Len(toMaster \o further) = Len(toMaster) + Len(further)
        /\ \A i \in 1..Len(toMaster) + Len(further) :
              (toMaster \o further)[i] = IF i <= Len(toMaster) THEN toMaster[i]
                                        ELSE further[i - Len(toMaster)]
    <3>1. toMaster \in Seq(ToMaster) /\ further \in Seq(ToMaster)
      BY <1>0, <2>1
    <3> QED
      BY ONLY <3>1, ConcatProperties
  <2> QED
    BY <2>1, <2>2 DEF further
<1>4. /\ Len(totals) * Width \in Nat /\ count * Width \in Nat
      /\ (Len(totals) + count) * Width = Len(totals) * Width + count * Width
  BY <1>0, Sizes
<1>5. Len(toMaster) = Len(totals) * Width /\ \A i \in 1..Len(toMaster) : toMaster[i] = Result(i)
  BY DEF InLine
<1>6. ASSUME NEW i \in 1..Len(toMaster') PROVE toMaster'[i] = Result(i)
  <2>1. CASE i <= Len(toMaster)
    BY <1>3, <1>4, <1>5, <2>1
  <2>2. CASE i > Len(toMaster)
    <3>1. i - Len(toMaster) \in 1..(count * Width)
      BY <1>3, <1>4, <1>5, <2>2
    <3>2. toMaster'[i] = Answers(count)[i - Len(toMaster)]
      BY <1>3, <1>4, <1>5, <2>2
    <3>3. Answers(count)[i - Len(toMaster)] = Result(Len(totals) * Width + (i - Len(toMaster)))
      BY <1>1, <3>1
    <3>4. Len(totals) * Width + (i - Len(toMaster)) = i
      BY <1>3, <1>4, <1>5
    <3> QED
      BY <3>2, <3>3, <3>4
  <2> QED
    BY <1>3, <1>4, <1>5, <2>1, <2>2
<1>7. Len(toMaster') = Len(totals') * Width
  BY <1>2, <1>3, <1>4, <1>5
<1> QED
  BY <1>6, <1>7 DEF InLine

\* What a whole read takes from the line.
LEMMA TakesFirst ==
    ASSUME TypeOK, InLine, Len(toMaster) >= Width
    PROVE  SubSeq(toMaster, 1, Width) = First
<1>1. Width \in 0..Len(toMaster) /\ toMaster \in Seq(ToMaster) /\ Len(toMaster) \in Nat
  BY Sizes DEF TypeOK
<1>2. /\ SubSeq(toMaster, 1, Width) \in Seq(ToMaster) /\ Len(SubSeq(toMaster, 1, Width)) = Width
      /\ \A i \in 1..Width : SubSeq(toMaster, 1, Width)[i] = toMaster[i]
  BY <1>1, FirstPart
<1>3. \A i \in 1..Width : SubSeq(toMaster, 1, Width)[i] = Result(i)
  BY <1>1, <1>2 DEF InLine
<1>4. First \in Seq(ToMaster) /\ Len(First) = Width /\ \A i \in 1..Width : First[i] = Result(i)
  BY Sizes DEF First, Result, ToMaster
<1> QED
  BY <1>2, <1>3, <1>4, SeqEqual

\* A block without requests gets no answer.
LEMMA Unanswered ==
    ASSUME TypeOK, NEW n \in Nat, \A i \in 1..n : toRemote[i] # "request"
    PROVE  /\ RequestsIn(n) = 0
           /\ toMaster \o Answers(0) = toMaster
           /\ totals \o [i \in 1..0 |-> Total] = totals
<1>1. {i \in 1..n : toRemote[i] = "request"} = {}
  OBVIOUS
<1>2. RequestsIn(n) = 0
  BY <1>1, FS_EmptySet DEF RequestsIn
<1>3. Answers(0) = <<>>
  <2>1. 0 * Width = 0
    BY Sizes
  <2> QED
    BY <2>1 DEF Answers
<1>4. [i \in 1..0 |-> Total] = <<>>
  OBVIOUS
<1> QED
  BY <1>2, <1>3, <1>4, ConcatEmptySeq DEF TypeOK

LEMMA AlignedTestThread ==
    ASSUME AlignedInv, Clean, TestThread
    PROVE  Aligned'
<1> USE DEF remoteVars, history
<1>0. Aligned
  BY DEF AlignedInv
<1>1. CASE WriteFlood
  <2>1. PICK n \in 1..Flood : toRemote' = [i \in 1..n |-> "data"]
    BY <1>1 DEF WriteFlood
  <2>2. \A i \in 1..Len(toRemote') : toRemote'[i] # "request"
    BY <2>1, Sizes
  <2> QED
    BY <1>0, <1>1, <2>2 DEF WriteFlood, Aligned, Unasked, InLine
<1>2. CASE Ask
  <2>1. Unasked /\ ~Unasked'
    BY <1>2 DEF Ask, Unasked
  <2>2. InLine'
    <3>1. toMaster' = <<>> /\ totals' = <<>>
      BY <1>0, <1>2, <2>1 DEF Ask, Aligned
    <3> QED
      BY <3>1, Sizes DEF InLine
  <2> QED
    BY <1>0, <1>2, <2>1, <2>2 DEF Ask, Aligned
<1>3. CASE Request \/ StartTimer
  BY <1>0, <1>3 DEF Request, StartTimer, Aligned, Unasked, InLine
<1>4. CASE Waited
  BY <1>0, <1>4 DEF Waited, Aligned, Unasked, InLine
<1> QED
  BY <1>1, <1>2, <1>3, <1>4 DEF TestThread

LEMMA AlignedStream ==
    ASSUME AlignedInv, Clean, Stream
    PROVE  Aligned'
<1>0. Aligned /\ TypeOK
  BY DEF AlignedInv
<1>1. CASE SingleRead
  <2>1. /\ singles > 0 /\ toMaster # <<>> /\ queue' = Append(queue, One(Head(toMaster)))
        /\ UNCHANGED <<pc, block, resultsReady, results>>
    BY <1>1 DEF SingleRead
  <2>2. ~block /\ ~Unasked
    BY <1>0, <2>1 DEF Aligned, TypeOK
  <2>3. One(Head(toMaster)) \in Entries /\ One(Head(toMaster)).kind = "one"
    <3>1. Head(toMaster) \in ToMaster
      BY <1>0, <2>1, HeadTailProperties DEF TypeOK
    <3> QED
      BY <3>1 DEF One, Entries
  <2>4. \A i \in 1..Len(queue') : queue'[i].kind = "block" =>
           i \in 1..Len(queue) /\ queue'[i] = queue[i]
    BY <1>0, <2>1, <2>3, PutFacts
  <2> QED
    BY <1>0, <2>1, <2>2, <2>4 DEF Aligned, Unasked
<1>2. CASE BlockRead
  <2>1. /\ block /\ ~block' /\ Len(toMaster) >= Width
        /\ queue' = Append(queue, Whole(SubSeq(toMaster, 1, Width)))
        /\ UNCHANGED <<pc, resultsReady, results, toRemote, totals>>
    BY <1>0, <1>2 DEF BlockRead, remoteVars, TypeOK
  <2>2. /\ SubSeq(toMaster, 1, Width) = First
        /\ First \in Seq(ToMaster)
    BY <1>0, <2>1, TakesFirst, Sizes DEF Aligned, First, Result, ToMaster
  <2>3. Whole(First) \in Entries /\ Whole(First).taken = First
    BY <2>2 DEF Whole, Entries
  <2>4. \A i \in 1..Len(queue') : \/ queue'[i] = Whole(First)
                                  \/ i \in 1..Len(queue) /\ queue'[i] = queue[i]
    <3>1. queue' = Append(queue, Whole(First))
      BY <2>1, <2>2
    <3> QED
      BY <1>0, <2>3, <3>1, PutFacts
  <2>5. ~Unasked
    <3>1. Len(toMaster) # 0
      BY <2>1, Sizes
    <3> QED
      BY <1>0, <3>1 DEF Aligned
  <2> QED
    BY <1>0, <2>1, <2>3, <2>4, <2>5 DEF Aligned, Unasked
<1> QED
  BY <1>1, <1>2 DEF Stream

LEMMA AlignedIoThread ==
    ASSUME AlignedInv, FloodInv, Clean, IoThread \/ TimerExpires
    PROVE  Aligned'
<1>0. Aligned /\ TypeOK
  BY DEF AlignedInv
<1>1. CASE TimerExpires
  <2>1. /\ queue' = Append(queue, Expiry) /\ timer = "armed"
        /\ UNCHANGED <<pc, singles, block, resultsReady, results, toRemote, toMaster, totals>>
    BY <1>1 DEF TimerExpires, remoteVars
  <2>2. Expiry \in Entries /\ Expiry.kind = "expiry"
    BY DEF Expiry, Entries
  <2>3. \A i \in 1..Len(queue') : \/ queue'[i].kind = "expiry"
                                  \/ i \in 1..Len(queue) /\ queue'[i] = queue[i]
    BY <1>0, <2>1, <2>2, PutFacts
  <2>4. ~Unasked
    BY <2>1 DEF FloodInv
  <2> QED
    BY <1>0, <2>1, <2>3, <2>4 DEF Aligned, Unasked, InLine
<1>2. CASE IoThread
  <2>1. /\ queue # <<>> /\ queue' = Tail(queue)
        /\ UNCHANGED <<pc, block, toMaster, totals>>
        /\ singles' = singles \/ Head(queue).kind = "one"
        /\ \/ UNCHANGED <<resultsReady, results>>
           \/ Head(queue).kind = "block" /\ results' = Head(queue).taken
    <3>1. CASE ReceiveResults
      BY <3>1 DEF ReceiveResults, Runs, remoteVars
    <3>2. CASE DispatchByte
      BY <3>2 DEF DispatchByte, Runs, remoteVars
    <3>3. CASE IgnoreByte
      BY <3>3 DEF IgnoreByte, Runs, remoteVars
    <3>4. CASE TimeoutReceiveResults
      BY <3>4 DEF TimeoutReceiveResults, Runs, remoteVars
    <3> QED
      BY <1>2, <3>1, <3>2, <3>3, <3>4 DEF IoThread
  <2>2. /\ Len(queue) \in Nat /\ Len(queue) >= 1 /\ Len(queue') = Len(queue) - 1
        /\ Head(queue) = queue[1]
        /\ \A i \in 1..Len(queue') : queue'[i] = queue[i + 1]
    BY <1>0, <2>1, PopFacts
  <2>3. ~Unasked
    BY <1>0, <2>1 DEF Aligned
  <2>4. block => Head(queue).kind = "expiry"
    BY <1>0, <2>2 DEF Aligned
  <2>5. Head(queue).kind = "block" => Head(queue).taken = First
    BY <1>0, <2>2 DEF Aligned
  <2>6. resultsReady' => results' = First
    <3>1. CASE UNCHANGED <<resultsReady, results>>
      BY <1>0, <3>1 DEF Aligned
    <3>2. CASE Head(queue).kind = "block" /\ results' = Head(queue).taken
      BY <2>5, <3>2
    <3> QED
      BY <2>1, <3>1, <3>2
  <2>7. block' => ~resultsReady' /\ singles' = 0 /\ InLine'
    BY <1>0, <2>1, <2>4 DEF Aligned, InLine
  <2>8. /\ \A i \in 1..Len(queue') : queue'[i].kind = "block" => queue'[i].taken = First
        /\ block' => \A i \in 1..Len(queue') : queue'[i].kind = "expiry"
    BY <1>0, <2>1, <2>2 DEF Aligned
  <2> QED
    BY <2>1, <2>3, <2>6, <2>7, <2>8 DEF Aligned, Unasked
<1> QED
  BY <1>1, <1>2

LEMMA AlignedRemote ==
    ASSUME AlignedInv, Clean, RemoteReceives \/ RemoteIgnores
    PROVE  Aligned'
<1>0. Aligned /\ TypeOK
  BY DEF AlignedInv
<1>1. CASE RemoteReceives
  <2>1. PICK n \in 1..Len(toRemote) :
           /\ RequestsIn(n) \in Nat
           /\ toRemote' = SubSeq(toRemote, n + 1, Len(toRemote))
           /\ toMaster' = toMaster \o Answers(RequestsIn(n))
           /\ totals' = totals \o [i \in 1..RequestsIn(n) |-> Total]
    BY <1>0, <1>1, Received
  <2>2. UNCHANGED <<pc, singles, block, queue, resultsReady, results>>
    BY <1>1 DEF RemoteReceives, masterVars
  <2>3. InLine => InLine'
    BY <1>0, <2>1, AnswersInLine
  <2>4. ASSUME Unasked
        PROVE  /\ toMaster' = <<>> /\ totals' = <<>>
               /\ \A i \in 1..Len(toRemote') : toRemote'[i] # "request"
    <3>1. n \in Nat /\ n <= Len(toRemote) /\ Len(toRemote) \in Nat /\ toRemote \in Seq(ToRemote)
      BY <1>0 DEF TypeOK
    <3>2. \A i \in 1..Len(toRemote) : toRemote[i] # "request"
      BY <1>0, <2>4 DEF Aligned
    <3>3. toMaster' = toMaster /\ totals' = totals
      <4>1. /\ RequestsIn(n) = 0 /\ toMaster \o Answers(0) = toMaster
            /\ totals \o [i \in 1..0 |-> Total] = totals
        BY <1>0, <3>1, <3>2, Unanswered
      <4> QED
        BY <2>1, <4>1
    <3>4. /\ Len(toRemote') = Len(toRemote) - n
          /\ \A i \in 1..(Len(toRemote) - n) : toRemote'[i] = toRemote[n + i]
      BY <2>1, <3>1, RestOf
    <3> QED
      BY <1>0, <2>4, <3>1, <3>2, <3>3, <3>4 DEF Aligned
  <2> QED
    BY <1>0, <2>2, <2>3, <2>4 DEF Aligned, Unasked
<1>2. CASE RemoteIgnores
  <2>1. /\ toRemote # <<>> /\ toRemote' = Tail(toRemote)
        /\ UNCHANGED <<pc, singles, block, queue, resultsReady, results, toMaster, totals>>
    BY <1>2 DEF RemoteIgnores, masterVars, remoteVars
  <2>2. /\ Len(toRemote) \in Nat /\ Len(toRemote') = Len(toRemote) - 1
        /\ \A i \in 1..Len(toRemote') : toRemote'[i] = toRemote[i + 1]
    BY <1>0, <2>1, HeadTailProperties DEF TypeOK
  <2> QED
    BY <1>0, <2>1, <2>2 DEF Aligned, Unasked, InLine
<1> QED
  BY <1>1, <1>2

LEMMA AlignedStep == ASSUME AlignedInv, FloodInv, [Next]_vars PROVE AlignedInv'
<1>1. TypeOK'
  BY TypesStep DEF AlignedInv
<1> SUFFICES ASSUME Clean' PROVE Aligned'
  BY <1>1 DEF AlignedInv
<1>2. CASE UNCHANGED vars
  BY <1>2 DEF AlignedInv, Aligned, Clean, Unasked, InLine, vars, masterVars, remoteVars, history
<1>3. CASE RemoteRetries \/ Lose
  BY <1>3 DEF RemoteRetries, Lose, Clean, AlignedInv, TypeOK
<1>4. CASE TestThread \/ Stream \/ IoThread \/ TimerExpires \/ RemoteReceives \/ RemoteIgnores
  <2>1. Clean
    BY <1>4 DEF Clean, TestThread, WriteFlood, Ask, Request, StartTimer, Waited, Stream, SingleRead,
           BlockRead, IoThread, ReceiveResults, DispatchByte, IgnoreByte, TimeoutReceiveResults,
           TimerExpires, RemoteReceives, RemoteIgnores, history
  <2> QED
    BY <1>4, <2>1, AlignedTestThread, AlignedStream, AlignedIoThread, AlignedRemote
<1> QED
  BY <1>2, <1>3, <1>4 DEF Next, Step

\* For answers of any length and any number of requests: on a clean line the
\* results are the first answer, whoever else reads from the stream
\* (MasterThroughput.cpp:79-81, 108-137).
THEOREM ResultsInPlace == Spec => []ResultsAligned
<1>1. AlignedInv => ResultsAligned
  BY DEF AlignedInv, Aligned, Clean, First, ResultsAligned
<1> QED
  BY <1>1, AlignedInit, AlignedStep, FloodInit, FloodStep, PTL DEF Spec

-------------------------------------------------------------------------------
(***************************************************************************)
(* Phantoms.  On a clean line where nothing missed anything, there is one  *)
(* request and one answer: it is read as a whole, and no byte of it is     *)
(* left for a read of one.                                                 *)
(***************************************************************************)
Asked(i) == toRemote[i] = "request"

Once ==
    /\ timer # "expired" /\ None("one") /\ None("expiry")
    /\ \A i, j \in 1..Len(toRemote) : Asked(i) /\ Asked(j) => i = j
    /\ Unasked \/ pc = "request" \/ totals # <<>> => \A i \in 1..Len(toRemote) : ~Asked(i)
    /\ Unasked \/ pc = "request" => totals = <<>>
    /\ Len(totals) <= 1
    /\ pc \in {"time", "wait", "done"} /\ remote = "throughput" /\ totals = <<>> =>
          \E i \in 1..Len(toRemote) : Asked(i)
    /\ ~block /\ ~Unasked => /\ toMaster = <<>> /\ Len(totals) = 1
                             /\ timer = "deleted" \/ ~None("block")

OnceInv == TypeOK /\ (phantom \/ ~Once => early \/ ~Clean)

\* All that is known.
Known == FloodInv /\ TimerInv /\ AlignedInv /\ OnceInv

LEMMA OnceInit == Init => OnceInv
<1> SUFFICES ASSUME Init PROVE OnceInv
  OBVIOUS
<1>1. /\ timer = "none" /\ queue = <<>> /\ toRemote = <<>> /\ totals = <<>> /\ pc = "flood"
      /\ ~phantom
  BY DEF Init
<1>2. Len(queue) = 0 /\ Len(toRemote) = 0 /\ Len(totals) = 0
  BY <1>1
<1>3. None("one") /\ None("expiry")
  BY <1>2 DEF None
<1>4. Unasked
  BY <1>1 DEF Unasked
<1> QED
  BY <1>1, <1>2, <1>3, <1>4, TypesInit DEF OnceInv, Once

\* One request is added to none.
LEMMA OneRequest ==
    ASSUME TypeOK, \A i \in 1..Len(toRemote) : ~Asked(i), toRemote' = Append(toRemote, "request")
    PROVE  /\ \A i, j \in 1..Len(toRemote') : Asked(i)' /\ Asked(j)' => i = j
           /\ \E i \in 1..Len(toRemote') : Asked(i)'
<1>1. /\ Len(toRemote) \in Nat /\ Len(toRemote') = Len(toRemote) + 1
      /\ toRemote'[Len(toRemote) + 1] = "request"
      /\ \A i \in 1..Len(toRemote) : toRemote'[i] = toRemote[i]
  BY DEF TypeOK
<1>2. \A i \in 1..Len(toRemote') : Asked(i)' <=> i = Len(toRemote) + 1
  BY <1>1 DEF Asked
<1> QED
  BY <1>1, <1>2

LEMMA OnceTestThread ==
    ASSUME Known, Clean, ~early, TestThread
    PROVE  Once'
<1> USE DEF remoteVars, history
<1>0. Once /\ InTime /\ TypeOK
  BY DEF Known, OnceInv, TimerInv
<1>1. CASE WriteFlood
  <2>1. PICK n \in 1..Flood : toRemote' = [i \in 1..n |-> "data"]
    BY <1>1 DEF WriteFlood
  <2>2. \A i \in 1..Len(toRemote') : ~Asked(i)'
    BY <2>1, Sizes DEF Asked
  <2>3. UNCHANGED <<block, queue, timer, totals, toMaster, remote>> /\ Unasked /\ pc' = "ask"
    BY <1>1 DEF WriteFlood, Unasked
  <2> QED
    BY <1>0, <2>2, <2>3 DEF Once, Unasked, None
<1>2. CASE Ask
  <2>1. /\ UNCHANGED <<queue, timer, totals, toMaster, toRemote, remote>>
        /\ Unasked /\ pc' = "request" /\ block'
    BY <1>2 DEF Ask, Unasked
  <2> QED
    BY <1>0, <2>1 DEF Once, Unasked, None, Asked
<1>3. CASE Request
  <2>1. /\ UNCHANGED <<block, queue, timer, totals, toMaster, remote>>
        /\ toRemote' = Append(toRemote, "request") /\ pc = "request" /\ pc' = "time"
    BY <1>3 DEF Request
  <2>2. totals = <<>> /\ \A i \in 1..Len(toRemote) : ~Asked(i)
    BY <1>0, <2>1 DEF Once
  <2>3. /\ \A i, j \in 1..Len(toRemote') : Asked(i)' /\ Asked(j)' => i = j
        /\ \E i \in 1..Len(toRemote') : Asked(i)'
    BY <1>0, <2>1, <2>2, OneRequest
  <2>4. block
    <3>1. Len(totals) = 0
      BY <2>2
    <3> QED
      BY <1>0, <2>1, <3>1 DEF Once, Unasked
  <2> QED
    BY <1>0, <2>1, <2>2, <2>3, <2>4 DEF Once, Unasked, None
<1>4. CASE StartTimer
  <2>1. /\ UNCHANGED <<block, queue, totals, toMaster, toRemote, remote>>
        /\ timer' = "armed" /\ pc = "time" /\ pc' = "wait"
    BY <1>4 DEF StartTimer
  <2>2. timer # "deleted"
    BY <1>0, <2>1 DEF InTime
  <2> QED
    BY <1>0, <2>1, <2>2 DEF Once, Unasked, None, Asked
<1>5. CASE Waited
  <2>1. /\ UNCHANGED <<block, queue, timer, totals, toMaster, toRemote, remote>>
        /\ pc = "wait" /\ pc' = "done"
    BY <1>5 DEF Waited
  <2> QED
    BY <1>0, <2>1 DEF Once, Unasked, None, Asked
<1> QED
  BY <1>1, <1>2, <1>3, <1>4, <1>5 DEF TestThread

\* On a clean line as many bytes lie as answers were sent.
LEMMA OneAnswer ==
    ASSUME Known, Clean, Once, block
    PROVE  /\ Len(toMaster) \in Nat
           /\ Len(toMaster) >= Width => Len(totals) = 1
           /\ Len(totals) = 1 => Len(toMaster) = Width
<1>1. Len(toMaster) = Len(totals) * Width
  BY DEF Known, AlignedInv, Aligned, InLine
<1>2. Len(toMaster) \in Nat /\ Len(totals) \in Nat
  BY DEF Known, FloodInv, TypeOK
<1>3. Len(totals) \in {0, 1}
  BY <1>2 DEF Once
<1>4. CASE Len(totals) = 0
  BY <1>1, <1>4, Sizes
<1>5. CASE Len(totals) = 1
  BY <1>1, <1>5, Sizes
<1> QED
  BY <1>2, <1>3, <1>4, <1>5

LEMMA OnceStream ==
    ASSUME Known, Clean, ~early, Stream
    PROVE  Once'
<1>0. Once /\ Aligned /\ TypeOK
  BY DEF Known, OnceInv, AlignedInv
<1>1. ~SingleRead
  <2> SUFFICES ASSUME SingleRead PROVE FALSE
    OBVIOUS
  <2>1. singles > 0 /\ toMaster # <<>>
    BY DEF SingleRead
  <2>2. ~block /\ ~Unasked
    BY <1>0, <2>1 DEF Aligned, TypeOK
  <2> QED
    BY <1>0, <2>1, <2>2 DEF Once
<1>2. BlockRead
  BY <1>1 DEF Stream
<1>3. /\ block /\ Len(toMaster) >= Width
      /\ toMaster' = SubSeq(toMaster, Width + 1, Len(toMaster))
      /\ queue' = Append(queue, Whole(SubSeq(toMaster, 1, Width)))
      /\ UNCHANGED <<pc, timer, totals, toRemote, remote>>
  BY <1>0, <1>2 DEF BlockRead, remoteVars, TypeOK
<1>4. Len(totals) = 1 /\ Len(toMaster) = Width
  BY <1>0, <1>3, OneAnswer
<1>5. toMaster' = <<>>
  BY <1>3, <1>4, Sizes, SubSeqEmpty
<1>6. /\ Whole(SubSeq(toMaster, 1, Width)) \in Entries
      /\ Whole(SubSeq(toMaster, 1, Width)).kind = "block"
  <2>1. Width \in 0..Len(toMaster) /\ toMaster \in Seq(ToMaster)
    BY <1>0, <1>4, Sizes DEF TypeOK
  <2>2. SubSeq(toMaster, 1, Width) \in Seq(ToMaster)
    BY <2>1, FirstPart
  <2> QED
    BY <2>2 DEF Whole, Entries
<1>7. None("one")' /\ None("expiry")' /\ ~None("block")'
  <2>1. /\ None("one") => None("one")'
        /\ None("expiry") => None("expiry")'
        /\ Len(queue) \in Nat /\ Len(queue') = Len(queue) + 1
        /\ queue'[Len(queue) + 1].kind = "block"
    BY <1>0, <1>3, <1>6, PutFacts
  <2>2. Len(queue) + 1 \in 1..Len(queue')
    BY <2>1
  <2>3. ~None("block")'
    BY <2>1, <2>2 DEF None
  <2> QED
    BY <1>0, <2>1, <2>3 DEF Once
<1> QED
  BY <1>0, <1>3, <1>4, <1>5, <1>7 DEF Once, Unasked, Asked

LEMMA OnceIoThread ==
    ASSUME Known, Clean, ~early, IoThread \/ TimerExpires
    PROVE  early' \/ (Once' /\ phantom' = phantom)
<1>0. Once /\ TypeOK
  BY DEF Known, OnceInv, FloodInv
<1>1. CASE TimerExpires
  <2> SUFFICES ASSUME Quiet PROVE FALSE
    BY <1>1 DEF TimerExpires
  <2>1. timer = "armed"
    BY <1>1 DEF TimerExpires
  <2>2. /\ remote = "throughput" /\ queue = <<>> /\ toRemote = <<>> /\ pc \in {"wait", "done"}
        /\ ~block \/ Len(toMaster) < Width
    BY DEF Quiet
  <2>3. Len(toRemote) = 0 /\ Len(queue) = 0
    BY <2>2
  <2>4. totals # <<>>
    BY <1>0, <2>2, <2>3 DEF Once
  <2>5. Len(totals) = 1
    <3>1. totals \in Seq(Nat)
      BY <1>0 DEF TypeOK
    <3>2. Len(totals) \in Nat /\ Len(totals) # 0
      BY <2>4, <3>1, EmptySeq
    <3>3. Len(totals) <= 1
      BY <1>0 DEF Once
    <3> QED
      BY <3>2, <3>3
  <2>6. ~block
    BY <1>0, <2>2, <2>5, OneAnswer, Sizes
  <2>7. None("block")
    BY <2>3 DEF None
  <2> QED
    BY <1>0, <2>1, <2>2, <2>6, <2>7 DEF Once, Unasked
<1>2. CASE IoThread
  <2>1. queue # <<>> /\ queue' = Tail(queue)
    BY <1>2 DEF IoThread, ReceiveResults, DispatchByte, IgnoreByte, TimeoutReceiveResults, Runs
  <2>2. /\ Len(queue) \in Nat /\ Len(queue) >= 1 /\ Head(queue) = queue[1]
        /\ None("one") => None("one")'
        /\ None("expiry") => None("expiry")'
    BY <1>0, <2>1, PopFacts
  <2>3. Head(queue).kind \notin {"one", "expiry"}
    BY <1>0, <2>2 DEF Once, None
  <2>4. ReceiveResults
    BY <1>2, <2>3 DEF IoThread, DispatchByte, IgnoreByte, TimeoutReceiveResults, Runs
  <2>5. /\ UNCHANGED <<pc, block, totals, toMaster, toRemote, remote, phantom>>
        /\ timer' = "deleted"
    BY <1>0, <2>4 DEF ReceiveResults, remoteVars, Once
  <2> QED
    BY <1>0, <2>2, <2>5 DEF Once, Unasked, Asked
<1> QED
  BY <1>1, <1>2

LEMMA OnceRemote ==
    ASSUME Known, Clean, ~early, RemoteReceives \/ RemoteIgnores
    PROVE  Once'
<1>0. Once /\ TypeOK
  BY DEF Known, OnceInv, FloodInv
<1>a. Len(toRemote) \in Nat /\ toRemote \in Seq(ToRemote) /\ totals \in Seq(Nat)
  BY <1>0 DEF TypeOK
<1>1. CASE RemoteReceives
  <2>1. PICK n \in 1..Len(toRemote) :
           /\ RequestsIn(n) \in Nat
           /\ toRemote' = SubSeq(toRemote, n + 1, Len(toRemote))
           /\ toMaster' = toMaster \o Answers(RequestsIn(n))
           /\ totals' = totals \o [i \in 1..RequestsIn(n) |-> Total]
    BY <1>0, <1>1, Received
  <2>2. UNCHANGED <<pc, block, queue, timer, remote>>
    BY <1>1 DEF RemoteReceives, masterVars
  <2>3. n \in Nat /\ n <= Len(toRemote)
    BY <1>a
  <2>4. /\ Len(toRemote') = Len(toRemote) - n
        /\ \A i \in 1..(Len(toRemote) - n) : toRemote'[i] = toRemote[n + i]
    BY <1>a, <2>1, <2>3, RestOf
  <2>5. \A i, j \in 1..Len(toRemote') : Asked(i)' /\ Asked(j)' => i = j
    <3>1. ASSUME NEW i \in 1..Len(toRemote'), NEW j \in 1..Len(toRemote'), Asked(i)', Asked(j)'
          PROVE  n + i = n + j
      <4>1. n + i \in 1..Len(toRemote) /\ n + j \in 1..Len(toRemote)
        BY <1>a, <2>3, <2>4
      <4>2. Asked(n + i) /\ Asked(n + j)
        BY <2>4, <3>1 DEF Asked
      <4> QED
        BY <1>0, <4>1, <4>2 DEF Once
    <3> QED
      BY <1>a, <2>3, <2>4, <3>1
  <2>6. CASE \A i \in 1..n : ~Asked(i)
    <3>1. totals' = totals /\ toMaster' = toMaster
      <4>1. /\ RequestsIn(n) = 0 /\ toMaster \o Answers(0) = toMaster
            /\ totals \o [i \in 1..0 |-> Total] = totals
        BY <1>0, <2>3, <2>6, Unanswered DEF Asked
      <4> QED
        BY <2>1, <4>1
    <3>2. (\A i \in 1..Len(toRemote) : ~Asked(i)) => \A i \in 1..Len(toRemote') : ~Asked(i)'
      <4>1. \A i \in 1..Len(toRemote') : n + i \in 1..Len(toRemote)
        BY <1>a, <2>3, <2>4
      <4> QED
        BY <2>4, <4>1 DEF Asked
    <3>3. (\E i \in 1..Len(toRemote) : Asked(i)) => \E i \in 1..Len(toRemote') : Asked(i)'
      <4> SUFFICES ASSUME NEW i \in 1..Len(toRemote), Asked(i)
                   PROVE  \E j \in 1..Len(toRemote') : Asked(j)'
        OBVIOUS
      <4>1. i - n \in 1..Len(toRemote')
        BY <1>a, <2>3, <2>4, <2>6
      <4>2. toRemote'[i - n] = toRemote[n + (i - n)] /\ n + (i - n) = i
        BY <1>a, <2>3, <2>4, <4>1
      <4> QED
        BY <4>1, <4>2 DEF Asked
    <3> QED
      BY <1>0, <2>2, <2>5, <3>1, <3>2, <3>3 DEF Once, Unasked, None
  <2>7. CASE \E i \in 1..n : Asked(i)
    <3>1. PICK k \in 1..n : Asked(k)
      BY <2>7
    <3>2. \A i \in 1..Len(toRemote) : Asked(i) => i = k
      BY <1>0, <1>a, <2>3, <3>1 DEF Once
    <3>3. totals = <<>> /\ ~Unasked /\ pc # "request"
      BY <1>0, <1>a, <2>3, <3>1 DEF Once
    <3>4. block
      <4>1. Len(totals) = 0
        BY <3>3
      <4> QED
        BY <1>0, <3>3, <4>1 DEF Once
    <3>5. RequestsIn(n) = 1
      <4>1. {i \in 1..n : toRemote[i] = "request"} = {k}
        <5>1. \A i \in 1..n : i \in 1..Len(toRemote)
          BY <1>a, <2>3
        <5> QED
          BY <3>1, <3>2, <5>1 DEF Asked
      <4> QED
        BY <4>1, FS_Singleton DEF RequestsIn
    <3>6. totals' # <<>> /\ Len(totals') = 1
      <4>1. Total \in Nat
        BY <1>0 DEF Total, TypeOK
      <4>2. totals' = <<>> \o [i \in 1..1 |-> Total]
        BY <2>1, <3>3, <3>5
      <4>3. [i \in 1..1 |-> Total] \in Seq(Nat) /\ Len([i \in 1..1 |-> Total]) = 1
        BY <4>1
      <4>4. totals' = [i \in 1..1 |-> Total]
        BY <4>2, <4>3, ConcatEmptySeq
      <4>5. Len(totals') = 1
        BY <4>3, <4>4
      <4>6. totals' # <<>>
        BY <4>5
      <4> QED
        BY <4>5, <4>6
    <3>7. \A i \in 1..Len(toRemote') : ~Asked(i)'
      <4>1. \A i \in 1..Len(toRemote') : n + i \in 1..Len(toRemote) /\ n + i # k
        BY <1>a, <2>3, <2>4, <3>1
      <4> QED
        BY <2>4, <3>2, <4>1 DEF Asked
    <3> QED
      BY <1>0, <2>2, <3>3, <3>4, <3>6, <3>7 DEF Once, Unasked, None
  <2> QED
    BY <2>6, <2>7
<1>2. CASE RemoteIgnores
  <2>1. /\ remote = "retrying" /\ toRemote # <<>> /\ toRemote' = Tail(toRemote)
        /\ UNCHANGED <<pc, block, queue, timer, totals, toMaster, remote>>
    BY <1>2 DEF RemoteIgnores, masterVars, remoteVars
  <2>2. /\ Len(toRemote') = Len(toRemote) - 1
        /\ \A i \in 1..Len(toRemote') : toRemote'[i] = toRemote[i + 1]
    BY <1>a, <2>1, HeadTailProperties
  <2>3. \A i \in 1..Len(toRemote') : i + 1 \in 1..Len(toRemote) /\ (Asked(i)' <=> Asked(i + 1))
    BY <1>a, <2>2 DEF Asked
  <2>4. \A i, j \in 1..Len(toRemote') : Asked(i)' /\ Asked(j)' => i = j
    <3>1. \A i, j \in 1..Len(toRemote') : Asked(i)' /\ Asked(j)' => i + 1 = j + 1
      BY <1>0, <2>3 DEF Once
    <3> QED
      BY <1>a, <2>2, <3>1
  <2>5. (\A i \in 1..Len(toRemote) : ~Asked(i)) => \A i \in 1..Len(toRemote') : ~Asked(i)'
    BY <2>3
  <2> QED
    BY <1>0, <2>1, <2>4, <2>5 DEF Once, Unasked, None
<1> QED
  BY <1>1, <1>2

LEMMA OnceStep == ASSUME Known, [Next]_vars PROVE OnceInv'
<1>1. TypeOK'
  BY TypesStep DEF Known, FloodInv
<1> SUFFICES ASSUME ~early', Clean' PROVE ~phantom' /\ Once'
  BY <1>1 DEF OnceInv
<1>2. CASE UNCHANGED vars
  BY <1>2 DEF Known, OnceInv, Once, Clean, Unasked, None, Asked, vars, masterVars, remoteVars,
              history
<1>3. CASE RemoteRetries \/ Lose
  BY <1>3 DEF RemoteRetries, Lose, Clean, Known, FloodInv, TypeOK
<1>4. CASE TestThread \/ Stream \/ IoThread \/ TimerExpires \/ RemoteReceives \/ RemoteIgnores
  <2>1. UNCHANGED <<losses, strays>> /\ (early => early')
    <3>1. CASE TimerExpires
      BY <3>1 DEF TimerExpires
    <3>2. CASE ReceiveResults
      BY <3>2 DEF ReceiveResults
    <3>3. CASE DispatchByte \/ IgnoreByte \/ TimeoutReceiveResults
      BY <3>3 DEF DispatchByte, IgnoreByte, TimeoutReceiveResults, history
    <3>4. CASE TestThread
      BY <3>4 DEF TestThread, WriteFlood, Ask, Request, StartTimer, Waited, history
    <3>5. CASE Stream \/ RemoteReceives \/ RemoteIgnores
      BY <3>5 DEF Stream, SingleRead, BlockRead, RemoteReceives, RemoteIgnores, history
    <3> QED
      BY <1>4, <3>1, <3>2, <3>3, <3>4, <3>5 DEF IoThread
  <2>2. Clean /\ ~early /\ ~phantom
    BY <2>1 DEF Known, OnceInv, Clean
  <2>3. CASE TestThread \/ Stream \/ RemoteReceives \/ RemoteIgnores
    <3>1. phantom' = phantom
      BY <2>3 DEF TestThread, WriteFlood, Ask, Request, StartTimer, Waited, Stream, SingleRead,
             BlockRead, RemoteReceives, RemoteIgnores, history
    <3> QED
      BY <2>2, <2>3, <3>1, OnceTestThread, OnceStream, OnceRemote
  <2>4. CASE IoThread \/ TimerExpires
    BY <2>2, <2>4, OnceIoThread
  <2> QED
    BY <1>4, <2>3, <2>4
<1> QED
  BY <1>2, <1>3, <1>4 DEF Next, Step

\* For answers of any length: a byte of an answer is taken for an event only
\* if an answer was lost, displaced or asked for twice
\* (MasterThroughput.cpp:93, 149-173).
THEOREM NoPhantoms == Spec => []NoPhantomEvent
<1>1. Init => Known
  BY FloodInit, TimerInit, AlignedInit, OnceInit DEF Known
<1>2. Known /\ [Next]_vars => Known'
  BY FloodStep, TimerStep, AlignedStep, OnceStep DEF Known
<1>3. Known => NoPhantomEvent
  BY DEF Known, OnceInv, Clean, FloodInv, TypeOK, NoPhantomEvent
<1> QED
  BY <1>1, <1>2, <1>3, PTL DEF Spec

-------------------------------------------------------------------------------
(***************************************************************************)
(* What the answers count.  The bytes of the flood on the line are the     *)
(* first d of it, and with them the remote has received no more than the   *)
(* flood and the requests it has answered.  The block that is not counted  *)
(* makes up for the one request that may be among them when the second is  *)
(* answered.                                                               *)
(***************************************************************************)

\* The flood's first `d' bytes on the line.
Flooded(d) ==
    /\ d \in 0..Len(toRemote)
    /\ \A i \in 1..Len(toRemote) : toRemote[i] = "data" <=> i <= d
    /\ d + received <= Flood + Len(totals)

CountedInv ==
    /\ TypeOK /\ FloodCounted
    /\ pc = "flood" => toRemote = <<>> /\ received = 0 /\ totals = <<>>
    /\ totals # <<>> => last >= 1
    /\ \E d \in Nat : Flooded(d)

LEMMA CountedNumbers ==
    ASSUME TypeOK
    PROVE  /\ received \in Nat /\ last \in Nat /\ last <= received
           /\ Len(toRemote) \in Nat /\ Len(totals) \in Nat /\ Flood \in Nat
           /\ toRemote \in Seq(ToRemote) /\ totals \in Seq(Nat)
           /\ DOMAIN toRemote = 1..Len(toRemote) /\ DOMAIN totals = 1..Len(totals)
           /\ \A i \in 1..Len(toRemote) : toRemote[i] \in {"data", "request"}
           /\ Len(totals) = 0 <=> totals = <<>>
<1>1. /\ toRemote \in Seq(ToRemote) /\ totals \in Seq(Nat)
      /\ received \in Nat /\ last \in Nat /\ last <= received
  BY DEF TypeOK
<1>2. /\ Len(toRemote) \in Nat /\ DOMAIN toRemote = 1..Len(toRemote)
      /\ Len(totals) \in Nat /\ DOMAIN totals = 1..Len(totals)
  BY <1>1, LenProperties
<1>3. \A i \in 1..Len(toRemote) : toRemote[i] \in {"data", "request"}
  BY <1>1, <1>2, ElementOfSeq DEF ToRemote
<1>4. Len(totals) = 0 <=> totals = <<>>
  BY <1>1, EmptySeq
<1> QED
  BY <1>1, <1>2, <1>3, <1>4, Sizes

LEMMA CountedInit == Init => CountedInv
<1> SUFFICES ASSUME Init PROVE CountedInv
  OBVIOUS
<1>1. TypeOK
  BY TypesInit
<1>2. toRemote = <<>> /\ received = 0 /\ totals = <<>>
  BY DEF Init
<1>3. Len(toRemote) = 0 /\ Len(totals) = 0 /\ DOMAIN totals = {}
  BY <1>2
<1>4. Flooded(0)
  BY <1>2, <1>3, Sizes DEF Flooded
<1> QED
  BY <1>1, <1>2, <1>3, <1>4 DEF CountedInv, FloodCounted

\* A block takes its share of the flood, and all of it before any request.
LEMMA FloodTaken ==
    ASSUME TypeOK, NEW d \in Nat, Flooded(d), NEW n \in 1..Len(toRemote)
    PROVE  /\ n <= d => RequestsIn(n) = 0
           /\ n > d => RequestsIn(n) = n - d
<1>0. Len(toRemote) \in Nat /\ \A i \in 1..Len(toRemote) : toRemote[i] \in {"data", "request"}
  BY CountedNumbers
<1>1. \A i \in 1..n : i \in 1..Len(toRemote) /\ (toRemote[i] = "request" <=> i > d)
  BY <1>0 DEF Flooded
<1>2. ASSUME n <= d PROVE RequestsIn(n) = 0
  <2>1. {i \in 1..n : toRemote[i] = "request"} = {}
    BY <1>0, <1>1, <1>2
  <2> QED
    BY <2>1, FS_EmptySet DEF RequestsIn
<1>3. ASSUME n > d PROVE RequestsIn(n) = n - d
  <2>1. {i \in 1..n : toRemote[i] = "request"} = (d + 1)..n
    BY <1>0, <1>1
  <2>2. Cardinality((d + 1)..n) = n - d
    BY <1>0, <1>3, FS_Interval
  <2> QED
    BY <2>1, <2>2 DEF RequestsIn
<1> QED
  BY <1>2, <1>3

LEMMA CountedReceives == ASSUME CountedInv, TypeOK', RemoteReceives PROVE CountedInv'
<1>0. /\ TypeOK /\ received \in Nat /\ last \in Nat /\ last <= received
      /\ Len(toRemote) \in Nat /\ Len(totals) \in Nat /\ Flood \in Nat
      /\ toRemote \in Seq(ToRemote) /\ totals \in Seq(Nat)
  BY CountedNumbers DEF CountedInv
<1>1. PICK n \in 1..Len(toRemote) :
         /\ RequestsIn(n) \in Nat
         /\ toRemote' = SubSeq(toRemote, n + 1, Len(toRemote))
         /\ totals' = totals \o [i \in 1..RequestsIn(n) |-> Total]
         /\ last' = n /\ received' = received + n
  BY <1>0, Received
<1>2. PICK d \in Nat : Flooded(d)
  BY DEF CountedInv
<1>3. n \in Nat /\ n >= 1 /\ n <= Len(toRemote)
  BY <1>0
<1>4. pc' # "flood"
  <2>1. pc' = pc /\ toRemote # <<>>
    BY DEF RemoteReceives, masterVars
  <2> QED
    BY <2>1 DEF CountedInv
<1>5. Total \in Nat /\ Total = received - last
  BY <1>0 DEF Total
<1>6. PICK a \in Nat : a = RequestsIn(n)
  BY <1>1
<1>7. PICK new : new = [i \in 1..a |-> Total]
  OBVIOUS
<1>8. new \in Seq(Nat) /\ Len(new) = a /\ \A i \in 1..a : new[i] = Total
  BY <1>5, <1>7, ManyTotals
<1>9. /\ Len(totals') = Len(totals) + a
      /\ \A k \in 1..Len(totals) : totals'[k] = totals[k]
      /\ \A k \in (Len(totals) + 1)..(Len(totals) + a) : totals'[k] = Total
  <2>1. totals' = totals \o new
    BY <1>1, <1>6, <1>7
  <2>2. /\ Len(totals \o new) = Len(totals) + Len(new)
        /\ \A k \in 1..(Len(totals) + Len(new)) :
              (totals \o new)[k] = IF k <= Len(totals) THEN totals[k] ELSE new[k - Len(totals)]
    BY <1>0, <1>8, ConcatProperties
  <2>3. ASSUME NEW k \in (Len(totals) + 1)..(Len(totals) + a) PROVE totals'[k] = Total
    <3>1. k - Len(totals) \in 1..a /\ ~(k <= Len(totals)) /\ k \in 1..(Len(totals) + a)
      BY <1>0
    <3> QED
      BY <1>8, <2>1, <2>2, <3>1
  <2>4. ASSUME NEW k \in 1..Len(totals) PROVE totals'[k] = totals[k]
    <3>1. k <= Len(totals) /\ k \in 1..(Len(totals) + a)
      BY <1>0
    <3> QED
      BY <1>8, <2>1, <2>2, <3>1
  <2> QED
    BY <1>8, <2>1, <2>2, <2>3, <2>4
<1>10. received <= Flood + Len(totals)
  BY <1>0, <1>2 DEF Flooded
<1>11. Len(totals) <= 1 => Total <= Flood
  <2>1. CASE Len(totals) = 0
    BY <1>0, <1>5, <1>10, <2>1
  <2>2. CASE Len(totals) = 1
    <3>1. totals # <<>>
      BY <2>2
    <3>2. last >= 1
      BY <3>1 DEF CountedInv
    <3> QED
      BY <1>0, <1>5, <1>10, <2>2, <3>2
  <2>3. Len(totals) <= 1 => Len(totals) = 0 \/ Len(totals) = 1
    <3>1. \A t \in Nat : t <= 1 => t = 0 \/ t = 1
      OBVIOUS
    <3>2. Len(totals) \in Nat
      BY <1>0
    <3> QED
      BY <3>1, <3>2, Zenon
  <2> QED
    BY <2>1, <2>2, <2>3
<1>12. FloodCounted'
  <2> SUFFICES ASSUME NEW k \in DOMAIN totals', k <= 2 PROVE totals'[k] <= Flood
    BY DEF FloodCounted
  <2>1. k \in 1..(Len(totals) + a)
    <3>1. totals' \in Seq(Nat)
      BY DEF TypeOK
    <3> QED
      BY <1>9, <3>1, LenProperties
  <2>2. CASE k \in 1..Len(totals)
    <3>1. k \in DOMAIN totals
      BY <2>2, <1>0, LenProperties
    <3> QED
      BY <1>9, <2>2, <3>1 DEF CountedInv, FloodCounted
  <2>3. CASE k \in (Len(totals) + 1)..(Len(totals) + a)
    <3>1. Len(totals) <= 1
      BY <1>0, <2>3
    <3> QED
      BY <1>9, <1>11, <2>3, <3>1
  <2> QED
    BY <1>0, <2>1, <2>2, <2>3
<1>a. d \in Nat
  OBVIOUS
<1>b. (IF n <= d THEN d - n ELSE 0) \in Nat
  BY <1>3, <1>a
<1>13. PICK e \in Nat : e = IF n <= d THEN d - n ELSE 0
  BY <1>b
<1>14. Flooded(e)'
  <2>1. /\ Len(toRemote') = Len(toRemote) - n
        /\ \A i \in 1..(Len(toRemote) - n) : toRemote'[i] = toRemote[n + i]
    BY <1>0, <1>1, <1>3, RestOf
  <2>2. e \in 0..Len(toRemote')
    BY <1>0, <1>2, <1>3, <1>13, <2>1 DEF Flooded
  <2>3. ASSUME NEW i \in 1..Len(toRemote') PROVE toRemote'[i] = "data" <=> i <= e
    <3>1. n + i \in 1..Len(toRemote) /\ i \in 1..(Len(toRemote) - n)
      BY <1>0, <1>3, <2>1
    <3>2. toRemote'[i] = "data" <=> n + i <= d
      BY <1>2, <2>1, <3>1 DEF Flooded
    <3>3. n + i <= d <=> i <= e
      BY <1>0, <1>3, <1>13, <3>1
    <3> QED
      BY <3>2, <3>3
  <2>4. e + received' <= Flood + Len(totals')
    <3>1. d + received <= Flood + Len(totals)
      BY <1>2 DEF Flooded
    <3>2. CASE n <= d
      <4>1. e = d - n /\ received' = received + n
        BY <1>1, <1>13, <3>2
      <4> QED
        BY <1>0, <1>3, <1>6, <1>9, <3>1, <4>1
    <3>3. CASE n > d
      <4>1. e = 0 /\ received' = received + n
        BY <1>1, <1>3, <1>13, <3>3
      <4>2. a = n - d
        BY <1>0, <1>2, <1>6, <3>3, FloodTaken
      <4> QED
        BY <1>0, <1>3, <1>9, <3>1, <4>1, <4>2
    <3> QED
      BY <1>3, <3>2, <3>3
  <2> QED
    BY <2>2, <2>3, <2>4 DEF Flooded
<1>15. last' >= 1
  BY <1>1, <1>3
<1> QED
  BY <1>4, <1>12, <1>14, <1>15 DEF CountedInv

\* The line loses a byte of the flood or another.
LEMMA CountedLoses ==
    ASSUME TypeOK, NEW d \in Nat, Flooded(d), NEW j \in 1..Len(toRemote),
           Len(toRemote') = Len(toRemote) - 1,
           \A i \in 1..(j - 1) : toRemote'[i] = toRemote[i],
           \A i \in j..(Len(toRemote) - 1) : toRemote'[i] = toRemote[i + 1],
           UNCHANGED <<received, totals>>
    PROVE  \E e \in Nat : Flooded(e)'
<1>0. Len(toRemote) \in Nat /\ received \in Nat /\ Len(totals) \in Nat /\ Flood \in Nat
  BY CountedNumbers
<1>1. PICK e \in Nat : e = IF j <= d THEN d - 1 ELSE d
  BY <1>0
<1>2. e \in 0..Len(toRemote')
  BY <1>0, <1>1 DEF Flooded
<1>3. ASSUME NEW i \in 1..Len(toRemote') PROVE toRemote'[i] = "data" <=> i <= e
  <2>1. CASE i < j
    <3>1. i \in 1..(j - 1) /\ i \in 1..Len(toRemote)
      BY <1>0, <2>1
    <3>2. toRemote'[i] = "data" <=> i <= d
      BY <3>1 DEF Flooded
    <3> QED
      BY <1>0, <1>1, <2>1, <3>2
  <2>2. CASE i >= j
    <3>1. i \in j..(Len(toRemote) - 1) /\ i + 1 \in 1..Len(toRemote)
      BY <1>0, <2>2
    <3>2. toRemote'[i] = "data" <=> i + 1 <= d
      BY <3>1 DEF Flooded
    <3> QED
      BY <1>0, <1>1, <2>2, <3>2
  <2> QED
    BY <1>0, <2>1, <2>2
<1>4. e + received' <= Flood + Len(totals')
  BY <1>0, <1>1 DEF Flooded
<1>5. Flooded(e)'
  BY <1>2, <1>3, <1>4 DEF Flooded
<1> QED
  BY <1>5

LEMMA CountedStep == ASSUME CountedInv, FloodInv, [Next]_vars PROVE CountedInv'
<1> USE DEF remoteVars, history
<1>0. /\ TypeOK /\ TypeOK' /\ received \in Nat /\ Len(toRemote) \in Nat /\ Len(totals) \in Nat
      /\ Flood \in Nat /\ toRemote \in Seq(ToRemote)
  BY TypesStep, CountedNumbers DEF CountedInv
<1>1. CASE RemoteReceives
  BY <1>0, <1>1, CountedReceives
<1>2. PICK d \in Nat : Flooded(d)
  BY DEF CountedInv
<1>3. CASE WriteFlood
  <2>1. PICK n \in 1..Flood : toRemote' = [i \in 1..n |-> "data"]
    BY <1>3 DEF WriteFlood
  <2>2. /\ pc' = "ask" /\ received' = 0 /\ totals' = <<>> /\ Len(totals') = 0
    BY <1>3 DEF WriteFlood, CountedInv
  <2>3. n \in Nat /\ Len(toRemote') = n /\ \A i \in 1..n : toRemote'[i] = "data"
    BY <1>0, <2>1
  <2>4. Flooded(n)'
    BY <1>0, <2>2, <2>3 DEF Flooded
  <2>5. UNCHANGED <<totals, last>>
    BY <1>3 DEF WriteFlood
  <2> QED
    BY <1>0, <2>2, <2>3, <2>4, <2>5 DEF CountedInv, FloodCounted
<1>4. CASE Request \/ TimeoutReceiveResults
  <2>1. toRemote' = Append(toRemote, "request") /\ UNCHANGED <<received, last, totals>>
    BY <1>4 DEF Request, TimeoutReceiveResults
  <2>2. pc' # "flood"
    <3>1. CASE Request
      BY <3>1 DEF Request
    <3>2. CASE TimeoutReceiveResults
      <4>1. queue # <<>> /\ queue' = Tail(queue) /\ Head(queue).kind = "expiry" /\ pc' = pc
        BY <3>2 DEF TimeoutReceiveResults, Runs
      <4>2. Len(queue) \in Nat /\ Len(queue) >= 1 /\ Head(queue) = queue[1]
        BY <1>0, <4>1, PopFacts
      <4> QED
        BY <4>1, <4>2 DEF FloodInv, None, Unasked
    <3> QED
      BY <1>4, <3>1, <3>2
  <2>3. /\ Len(toRemote') = Len(toRemote) + 1
        /\ \A i \in 1..Len(toRemote) : toRemote'[i] = toRemote[i]
        /\ toRemote'[Len(toRemote) + 1] = "request"
    BY <1>0, <2>1, AppendProperties DEF ToRemote
  <2>4. Flooded(d)'
    <3>1. ASSUME NEW i \in 1..Len(toRemote') PROVE toRemote'[i] = "data" <=> i <= d
      <4>1. d <= Len(toRemote)
        BY <1>2 DEF Flooded
      <4>2. CASE i = Len(toRemote) + 1
        BY <1>0, <2>3, <4>1, <4>2
      <4>3. CASE i \in 1..Len(toRemote)
        BY <1>2, <2>3, <4>3 DEF Flooded
      <4> QED
        BY <1>0, <2>3, <4>2, <4>3
    <3>2. d \in 0..Len(toRemote')
      BY <1>0, <1>2, <2>3 DEF Flooded
    <3>3. d + received' <= Flood + Len(totals')
      BY <1>2, <2>1 DEF Flooded
    <3> QED
      BY <3>1, <3>2, <3>3 DEF Flooded
  <2> QED
    BY <1>0, <2>1, <2>2, <2>4 DEF CountedInv, FloodCounted
<1>5. CASE Lose
  <2>1. UNCHANGED <<pc, received, last, totals>>
    BY <1>5 DEF Lose, masterVars
  <2>2. CASE UNCHANGED toRemote
    BY <1>0, <1>2, <2>1, <2>2 DEF CountedInv, FloodCounted, Flooded
  <2>3. CASE \E j \in DOMAIN toRemote : toRemote' = Without(toRemote, j)
    <3>1. PICK j \in DOMAIN toRemote : toRemote' = Without(toRemote, j)
      BY <2>3
    <3>2. j \in 1..Len(toRemote) /\ Len(toRemote) >= 1
      BY <1>0, CountedNumbers
    <3>3. /\ Len(toRemote') = Len(toRemote) - 1
          /\ \A i \in 1..(j - 1) : toRemote'[i] = toRemote[i]
          /\ \A i \in j..(Len(toRemote) - 1) : toRemote'[i] = toRemote[i + 1]
      BY <1>0, <3>1, <3>2, WithoutIs
    <3>4. \E e \in Nat : Flooded(e)'
      BY <1>0, <1>2, <2>1, <3>2, <3>3, CountedLoses
    <3>5. pc # "flood"
      <4>1. toRemote # <<>>
        BY <3>2
      <4> QED
        BY <4>1 DEF CountedInv
    <3> QED
      BY <1>0, <2>1, <3>4, <3>5 DEF CountedInv, FloodCounted
  <2> QED
    BY <1>5, <2>2, <2>3 DEF Lose
<1>6. CASE RemoteIgnores
  <2>1. toRemote # <<>> /\ toRemote' = Tail(toRemote) /\ UNCHANGED <<pc, received, last, totals>>
    BY <1>6 DEF RemoteIgnores, masterVars
  <2>2. /\ Len(toRemote) >= 1 /\ Len(toRemote') = Len(toRemote) - 1
        /\ \A i \in 1..(Len(toRemote) - 1) : toRemote'[i] = toRemote[i + 1]
    BY <1>0, <2>1, HeadTailProperties
  <2>3. 1 \in 1..Len(toRemote) /\ \A i \in 1..(1 - 1) : toRemote'[i] = toRemote[i]
    BY <1>0, <2>2
  <2>4. \E e \in Nat : Flooded(e)'
    BY <1>0, <1>2, <2>1, <2>2, <2>3, CountedLoses
  <2>5. pc # "flood"
    BY <2>1 DEF CountedInv
  <2> QED
    BY <1>0, <2>1, <2>4, <2>5 DEF CountedInv, FloodCounted
<1>7. CASE \/ Ask \/ StartTimer \/ Waited \/ SingleRead \/ BlockRead \/ ReceiveResults
           \/ DispatchByte \/ IgnoreByte \/ TimerExpires \/ RemoteRetries \/ UNCHANGED vars
  <2>1. UNCHANGED <<toRemote, received, last, totals>> /\ (pc' = "flood" <=> pc = "flood")
    BY <1>7 DEF Ask, StartTimer, Waited, SingleRead, BlockRead, ReceiveResults, DispatchByte,
                IgnoreByte, TimerExpires, RemoteRetries, vars, masterVars
  <2> QED
    BY <1>0, <1>2, <2>1 DEF CountedInv, FloodCounted, Flooded
<1> QED
  BY <1>1, <1>3, <1>4, <1>5, <1>6, <1>7 DEF Next, Step, TestThread, Stream, IoThread

\* For floods and answers of any length, any losses and any number of requests:
\* the first two answers count bytes of the flood alone
\* (RemoteThroughput.cpp:86, 103-107).
THEOREM FloodAlone == Spec => []FloodCounted
<1>1. CountedInv => FloodCounted
  BY DEF CountedInv
<1> QED
  BY <1>1, CountedInit, CountedStep, FloodInit, FloodStep, PTL DEF Spec


===============================================================================
