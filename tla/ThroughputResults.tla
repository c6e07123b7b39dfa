-------------------------- MODULE ThroughputResults --------------------------
(***************************************************************************)
(* How the results of a throughput test get from the remote to the master, *)
(* byte by byte (MasterThroughput.cpp, RemoteThroughput.cpp).  The answer  *)
(* to a request is Width bytes, which the master reads by position; it     *)
(* repeats the request when a timer expires.  The timer belongs to two     *)
(* threads: the test's own makes it, the io thread re-arms and deletes it. *)
(***************************************************************************)
EXTENDS Naturals, Sequences, FiniteSets

CONSTANTS
    Width,        \* bytes of an answer: 2 * sizeof(uint32_t)
    Flood,        \* bytes of the flood
    MaxLoss,      \* how many bytes the line loses
    MaxStrays,    \* bound on bytes that reach the master from elsewhere
    MaxRequests   \* bound on requests that are repeated too early

ASSUME ResultsAssumption ==
    /\ {Width, Flood} \subseteq Nat \ {0}
    /\ {MaxLoss, MaxStrays, MaxRequests} \subseteq Nat

VARIABLES
    pc,         \* the test's thread: "flood", "ask", "request", "time", "wait", "done"
    singles,    \* reads of one byte for handleReceive() that are outstanding
    block,      \* TRUE: the read of a whole answer is outstanding
    queue,      \* completed handlers, in the order the io thread runs them
    io,         \* "handling", or "dispatching" an event that ends the activity
    timer,      \* _receiveResultsTimer and its handler: see TypeOK
    resultsReady,
    results,    \* what receiveResults() took for the answer
    toRemote, toMaster,  \* the two directions of the line
    remote,     \* "throughput", or "retrying" in ThroughputCommandReceived
    received,   \* _recvedBytes: the sum of the blocks received ...
    last,       \* ... and the size of the last one, 0 if there is none
    totals,     \* history: the number of bytes each answer reported
    requests, losses, strays,
    early,      \* history: an answer and a thread or a timer missed each other
    undefined,  \* history: "no", or what the code used after its end: "timer", "map"
    phantom     \* history: a byte of an answer was dispatched as an event

masterVars == <<pc, singles, block, queue, io, timer, resultsReady, results>>
remoteVars == <<remote, received, last, totals>>
history == <<losses, strays, early, undefined, phantom>>
vars == <<masterVars, remoteVars, toRemote, toMaster, requests, history>>

\* A byte on the way to the master: the n-th byte of all answers, or a stray.
Result(n) == [kind |-> "result", n |-> n]
Stray(kind) == [kind |-> kind, n |-> 0]
ToMaster == [kind : {"result", "RemoteAck", "echo"}, n : Nat]
ToRemote == {"data", "request"}

One(byte) == [kind |-> "one", taken |-> <<byte>>]
Whole(bytes) == [kind |-> "block", taken |-> bytes]
Expiry == [kind |-> "expiry", taken |-> <<>>]

\* The test begins with the read of operator() armed.  An echo of an earlier
\* test may still be on the line, and the remote may have missed MasterAck.
Init ==
    /\ pc = "flood"
    /\ singles = 1 /\ block = FALSE
    /\ queue = <<>> /\ io = "handling"
    /\ timer = "none"
    /\ resultsReady = FALSE /\ results = <<>>
    /\ toRemote = <<>>
    /\ \E n \in 0..1 :
          /\ n <= MaxStrays
          /\ strays = n
          /\ toMaster = [i \in 1..n |-> Stray("echo")]
    /\ remote \in {"throughput", "retrying"}
    /\ received = 0 /\ last = 0 /\ totals = <<>>
    /\ requests = 0 /\ losses = 0
    /\ early = FALSE /\ undefined = "no" /\ phantom = FALSE

-------------------------------------------------------------------------------
\* The test's thread.  A write_some() may leave bytes of its block out.
WriteFlood ==
    /\ pc = "flood"
    /\ pc' = "ask"
    /\ \E n \in 1..Flood : toRemote' = [i \in 1..n |-> "data"]
    /\ UNCHANGED <<singles, block, queue, io, timer, resultsReady, results, remoteVars,
                   toMaster, requests, history>>

\* Faulty: the read of operator() is not cancelled.
AskBeside ==
    /\ pc = "ask"
    /\ pc' = "request"
    /\ block' = TRUE
    /\ resultsReady' = FALSE
    /\ UNCHANGED <<singles, queue, io, timer, results, remoteVars, toRemote, toMaster,
                   requests, history>>

\* getResults(): cancel(), async_read() of a whole answer ...
Ask ==
    /\ pc = "ask"
    /\ pc' = "request"
    /\ singles' = 0
    /\ block' = TRUE
    /\ resultsReady' = FALSE
    /\ UNCHANGED <<queue, io, timer, results, remoteVars, toRemote, toMaster,
                   requests, history>>

\* ... write() of the request ...
Request ==
    /\ pc = "request"
    /\ pc' = "time"
    /\ toRemote' = Append(toRemote, "request")
    /\ requests' = requests + 1
    /\ UNCHANGED <<singles, block, queue, io, timer, resultsReady, results, remoteVars,
                   toMaster, history>>

\* ... the timer ...
StartTimer ==
    /\ pc = "time"
    /\ pc' = "wait"
    /\ timer' = "armed"
    /\ UNCHANGED <<singles, block, queue, io, resultsReady, results, remoteVars, toRemote,
                   toMaster, requests, history>>

\* ... the loop, and the read that follows it.
Waited ==
    /\ pc = "wait"
    /\ resultsReady
    /\ pc' = "done"
    /\ singles' = singles + 1
    /\ UNCHANGED <<block, queue, io, timer, resultsReady, results, remoteVars, toRemote,
                   toMaster, requests, history>>

-------------------------------------------------------------------------------
\* The stream serves an outstanding read, and the service queues its handler.
SingleRead ==
    /\ singles > 0
    /\ toMaster # <<>>
    /\ singles' = singles - 1
    /\ toMaster' = Tail(toMaster)
    /\ queue' = Append(queue, One(Head(toMaster)))
    /\ UNCHANGED <<pc, block, io, timer, resultsReady, results, remoteVars, toRemote,
                   requests, history>>

BlockRead ==
    /\ block
    /\ Len(toMaster) >= Width
    /\ block' = FALSE
    /\ toMaster' = SubSeq(toMaster, Width + 1, Len(toMaster))
    /\ queue' = Append(queue, Whole(SubSeq(toMaster, 1, Width)))
    /\ UNCHANGED <<pc, singles, io, timer, resultsReady, results, remoteVars, toRemote,
                   requests, history>>

Runs(kind) == io = "handling" /\ queue # <<>> /\ Head(queue).kind = kind

\* Faulty: the timer is left alone.
ReceiveResultsKeepsTimer ==
    /\ Runs("block")
    /\ queue' = Tail(queue)
    /\ resultsReady' = TRUE
    /\ results' = Head(queue).taken
    /\ UNCHANGED <<pc, singles, block, io, timer, remoteVars, toRemote, toMaster, requests,
                   losses, strays, early, undefined, phantom>>

\* receiveResults() deletes the timer, whatever has become of it, and takes
\* the block by position.
ReceiveResults ==
    /\ Runs("block")
    /\ queue' = Tail(queue)
    /\ timer' = IF timer = "expired" THEN "freed" ELSE "deleted"
    /\ undefined' = IF timer \in {"armed", "expired"} THEN undefined ELSE "timer"
    /\ early' = (early \/ timer = "none")
    /\ resultsReady' = TRUE
    /\ results' = Head(queue).taken
    /\ UNCHANGED <<pc, singles, block, io, remoteVars, toRemote, toMaster, requests,
                   losses, strays, phantom>>

\* handleReceive() of one byte.  The values 241 to 246 of a byte of an answer
\* are codes of events like any other.
IsEvent(byte) == byte.kind = "RemoteAck" \/ byte.kind = "result"

DispatchByte ==
    /\ Runs("one")
    /\ IsEvent(Head(queue).taken[1])
    /\ io' = "dispatching"
    /\ phantom' = (phantom \/ Head(queue).taken[1].kind = "result")
    /\ queue' = Tail(queue)
    /\ UNCHANGED <<pc, singles, block, timer, resultsReady, results, remoteVars, toRemote,
                   toMaster, requests, losses, strays, early, undefined>>

IgnoreByte ==
    /\ Runs("one")
    /\ Head(queue).taken[1].kind # "RemoteAck"
    /\ queue' = Tail(queue)
    /\ singles' = singles + 1
    /\ UNCHANGED <<pc, block, io, timer, resultsReady, results, remoteVars, toRemote,
                   toMaster, requests, history>>

\* Faulty: the timer is deleted after its first expiry ...
TimeoutDeletes ==
    /\ Runs("expiry")
    /\ queue' = Tail(queue)
    /\ toRemote' = Append(toRemote, "request")
    /\ requests' = requests + 1
    /\ timer' = "deleted"
    /\ UNCHANGED <<pc, singles, block, io, resultsReady, results, remoteVars, toMaster,
                   history>>

\* ... or not armed again.
TimeoutOnce ==
    /\ Runs("expiry")
    /\ queue' = Tail(queue)
    /\ toRemote' = Append(toRemote, "request")
    /\ requests' = requests + 1
    /\ UNCHANGED <<pc, singles, block, io, timer, resultsReady, results, remoteVars, toMaster,
                   history>>

\* timeoutReceiveResults() repeats the request and re-arms the timer, which
\* receiveResults() may have deleted since it expired.
TimeoutReceiveResults ==
    /\ Runs("expiry")
    /\ queue' = Tail(queue)
    /\ toRemote' = Append(toRemote, "request")
    /\ requests' = requests + 1
    /\ timer' = "armed"
    /\ undefined' = IF timer = "expired" THEN undefined ELSE "timer"
    /\ UNCHANGED <<pc, singles, block, io, resultsReady, results, remoteVars, toMaster,
                   losses, strays, early, phantom>>

\* Nothing but the timer moves this test: every byte is read, or the read it
\* would complete lacks some, and the remote does not repeat itself.
Quiet ==
    /\ remote = "throughput"
    /\ queue = <<>>
    /\ toRemote = <<>>
    /\ singles = 0 \/ toMaster = <<>>
    /\ ~block \/ Len(toMaster) < Width
    /\ pc \in {"wait", "done"}
    /\ pc = "wait" => ~resultsReady

\* Early only MaxRequests times in all, and so with strays, which may take the
\* bytes of one answer after the other.
TimerExpires ==
    /\ timer = "armed"
    /\ requests < MaxRequests \/ (Quiet /\ strays = 0)
    /\ timer' = "expired"
    /\ queue' = Append(queue, Expiry)
    /\ early' = (early \/ ~Quiet)
    /\ UNCHANGED <<pc, singles, block, io, resultsReady, results, remoteVars, toRemote,
                   toMaster, requests, losses, strays, undefined, phantom>>

-------------------------------------------------------------------------------
\* The remote.  Its first read takes one byte, every other what there is.
RequestsIn(n) == Cardinality({i \in 1..n : toRemote[i] = "request"})

\* The answers of sendResults(), byte by byte.
Answers(count) == [i \in 1..(count * Width) |-> Result(Len(totals) * Width + i)]

\* Faulty: the last block is counted.
TotalWithLast == received

\* "Do not count the last one".
Total == received - last

\* Faulty: the first read takes what there is, too.
FirstReadWhole(n) == n \in 1..Len(toRemote)

ReadTakes(n) == n \in 1..Len(toRemote) /\ (last = 0 => n = 1)

\* Faulty: only the last block is kept.
StoreLast(n) == last' = n /\ UNCHANGED received

Store(n) == last' = n /\ received' = received + n

\* handleReceive() answers each request of a block before it stores the block.
RemoteReceives ==
    /\ remote = "throughput"
    /\ \E n \in 1..Len(toRemote) :
          LET asked == RequestsIn(n)
          IN  /\ ReadTakes(n)
              /\ toRemote' = SubSeq(toRemote, n + 1, Len(toRemote))
              /\ toMaster' = toMaster \o Answers(asked)
              /\ totals' = totals \o [i \in 1..asked |-> Total]
              /\ undefined' = IF asked > 0 /\ last = 0 THEN "map" ELSE undefined
              /\ Store(n)
    /\ UNCHANGED <<masterVars, remote, requests, losses, strays, early, phantom>>

\* A remote that missed MasterAck knows no data, and repeats RemoteAck.
RemoteIgnores ==
    /\ remote = "retrying"
    /\ toRemote # <<>>
    /\ toRemote' = Tail(toRemote)
    /\ UNCHANGED <<masterVars, remoteVars, toMaster, requests, history>>

RemoteRetries ==
    /\ remote = "retrying"
    /\ strays < MaxStrays
    /\ strays' = strays + 1
    /\ toMaster' = Append(toMaster, Stray("RemoteAck"))
    /\ UNCHANGED <<masterVars, remoteVars, toRemote, requests, losses, early, undefined, phantom>>

\* The line loses any byte on it.
Without(s, i) == SubSeq(s, 1, i - 1) \o SubSeq(s, i + 1, Len(s))

Lose ==
    /\ losses < MaxLoss
    /\ losses' = losses + 1
    /\ \/ \E i \in DOMAIN toMaster : toMaster' = Without(toMaster, i) /\ UNCHANGED toRemote
       \/ \E i \in DOMAIN toRemote : toRemote' = Without(toRemote, i) /\ UNCHANGED toMaster
    /\ UNCHANGED <<masterVars, remoteVars, requests, strays, early, undefined, phantom>>

-------------------------------------------------------------------------------
TestThread == WriteFlood \/ Ask \/ Request \/ StartTimer \/ Waited
Stream == SingleRead \/ BlockRead
IoThread == ReceiveResults \/ DispatchByte \/ IgnoreByte \/ TimeoutReceiveResults

\* Nothing is promised of a process that used what it had deleted.
Step ==
    \/ TestThread \/ Stream \/ IoThread \/ TimerExpires
    \/ RemoteReceives \/ RemoteIgnores \/ RemoteRetries
    \/ Lose

Next == undefined = "no" /\ Step

Spec == Init /\ [][Next]_vars

\* Threads run, bytes that are not lost arrive, timers expire.
Fairness ==
    /\ WF_vars(undefined = "no" /\ TestThread)
    /\ WF_vars(undefined = "no" /\ Stream)
    /\ WF_vars(undefined = "no" /\ IoThread)
    /\ WF_vars(undefined = "no" /\ RemoteReceives)
    /\ WF_vars(undefined = "no" /\ TimerExpires)

FairSpec == Spec /\ Fairness

-------------------------------------------------------------------------------
\* Types.  "expired": the timer exists and its handler is queued; "freed": it
\* does not exist any more, and its handler is queued.
TypeOK ==
    /\ pc \in {"flood", "ask", "request", "time", "wait", "done"}
    /\ singles \in Nat /\ block \in BOOLEAN
    /\ queue \in Seq([kind : {"one", "block", "expiry"}, taken : Seq(ToMaster)])
    /\ io \in {"handling", "dispatching"}
    /\ timer \in {"none", "armed", "expired", "deleted", "freed"}
    /\ resultsReady \in BOOLEAN /\ results \in Seq(ToMaster)
    /\ toRemote \in Seq(ToRemote) /\ toMaster \in Seq(ToMaster)
    /\ remote \in {"throughput", "retrying"}
    /\ {received, last, requests, losses, strays} \subseteq Nat
    /\ last <= received
    /\ totals \in Seq(Nat)
    /\ early \in BOOLEAN /\ phantom \in BOOLEAN
    /\ undefined \in {"no", "timer", "map"}

\* On a line that loses nothing and brings nothing from before the test, what
\* the master takes for the results is the first answer from its first byte to
\* its last, whoever else reads from the stream, and however often the timer
\* has made it ask again (MasterThroughput.cpp:79-81, 108-137).
ResultsAligned ==
    resultsReady /\ losses = 0 /\ strays = 0 => results = [i \in 1..Width |-> Result(i)]

\* A byte of an answer is dispatched as an event only if an answer was lost,
\* displaced or asked for twice: otherwise none is left in the stream when
\* handleReceive() reads from it again (MasterThroughput.cpp:93, 149-173).
NoPhantomEvent == phantom => early \/ losses > 0 \/ strays > 0

\* The results timer is used after its end, or deleted before it is made, only
\* if an answer comes while the test's thread has not made it yet or its expiry
\* is queued (MasterThroughput.cpp:84, 96-106, 112).
TimerInUse == undefined = "timer" => early

\* sendResults() finds the map of received blocks empty only if the line has
\* lost bytes (RemoteThroughput.cpp:39, 107): the first read takes one byte, so
\* a byte of the flood fills the map before any request is looked at, however
\* late the remote starts to read.
MapNotEmpty == undefined = "map" => losses > 0

\* The first two answers count bytes of the flood alone, though requests are
\* received and stored like data: what is not counted is the block before the
\* request, or an earlier request (RemoteThroughput.cpp:86, 103-107).
FloodCounted == \A k \in DOMAIN totals : k <= 2 => totals[k] <= Flood

\* The waiting loop ends: whatever is lost of requests and answers, the master
\* asks again until a whole block has come (MasterThroughput.cpp:88-106).
ResultsCome ==
    pc = "request" /\ remote = "throughput" /\ strays = 0 ~> resultsReady \/ undefined # "no"

===============================================================================
