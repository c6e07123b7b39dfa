-------------------------- MODULE ModemTesterProofs --------------------------
(***************************************************************************)
(* The two machines at the two ends of the line carry out one test after   *)
(* another (TestSession), for any number of commands, losses and early     *)
(* timers, any length of the queues and any order of the threads' steps.   *)
(***************************************************************************)
EXTENDS SessionInvariant, SequenceTheorems, TLAPS

\* What is proved of BaseFSM for every table, at the tables of the two ends.
MB == INSTANCE BaseFSMProofs WITH
    States <- M!MasterStates, Starts <- {"Idle"}, TimerStates <- M!MasterTimers,
    ActivityStates <- M!MasterActivities, Moves <- M!MasterMoves,
    EntryBytes <- M!MasterEntryBytes, Handled <- M!MasterHandled,
    Replies <- M!MasterReplies, JoinAt <- M!MasterJoinAt,
    state <- mState, timer <- mTimer, reads <- mReads, ready <- mReady,
    activity <- mActivity, rx <- toMaster, tx <- toRemote
RB == INSTANCE BaseFSMProofs WITH
    States <- R!RemoteStates, Starts <- {"RemoteIdle"}, TimerStates <- R!RemoteTimers,
    ActivityStates <- R!RemoteActivities, Moves <- R!RemoteMoves,
    EntryBytes <- R!RemoteEntryBytes, Handled <- R!RemoteHandled,
    Replies <- R!RemoteReplies, JoinAt <- R!RemoteJoinAt,
    state <- rState, timer <- rTimer, reads <- rReads, ready <- rReady,
    activity <- rActivity, rx <- toRemote, tx <- toMaster

-------------------------------------------------------------------------------
(***************************************************************************)
(* The tables.                                                             *)
(***************************************************************************)

\* The names of the bytes and events are the same everywhere.
LEMMA Names ==
    /\ MB!Bytes = Bytes /\ RB!Bytes = Bytes
    /\ MB!ControlBytes = ControlBytes /\ RB!ControlBytes = ControlBytes
    /\ MB!Events = Events /\ RB!Events = Events
    /\ MB!UserCommands = UserCommands /\ RB!UserCommands = UserCommands
    /\ M!Bytes = Bytes /\ R!Bytes = Bytes
BY DEF Bytes, ControlBytes, Events, UserCommands,
       MB!Bytes, MB!ControlBytes, MB!Events, MB!UserCommands,
       RB!Bytes, RB!ControlBytes, RB!Events, RB!UserCommands,
       M!Bytes, M!ControlBytes, M!UserCommands, R!Bytes, R!ControlBytes, R!UserCommands

LEMMA MasterTables == MB!TableAssumption
<1>1. M!MasterMoves \subseteq [from : M!MasterStates, on : Events, sends : Seq(Bytes), to : M!MasterStates]
  BY DEF M!MasterMoves, M!MasterMove, M!MasterStates, M!MasterTimers, M!MasterActivities,
         Bytes, Events, ControlBytes, UserCommands
<1>2. M!MasterEntryBytes \in [M!MasterStates -> Seq(Bytes)]
  BY DEF M!MasterEntryBytes, M!MasterStates, M!MasterTimers, M!MasterActivities,
         Bytes, ControlBytes, UserCommands
<1>3. /\ M!MasterHandled \in [M!MasterActivities -> SUBSET ControlBytes]
      /\ M!MasterReplies \in [M!MasterActivities -> [Bytes -> Seq(Bytes)]]
      /\ M!MasterJoinAt \in [M!MasterActivities -> SUBSET MB!Stages]
  BY Names DEF M!MasterHandled, M!MasterReplies, M!MasterJoinAt, MB!Stages, M!MasterActivities,
         ControlBytes, UserCommands
<1>4. \A a \in M!MasterActivities : \A b \in M!MasterHandled[a] \ {"EndTest"} :
          \E m \in M!MasterMoves : m.from = a /\ m.on = b
  BY DEF M!MasterHandled, M!MasterActivities, M!MasterMoves, M!MasterMove
<1>5. /\ {"Idle"} \subseteq M!MasterStates \ (M!MasterActivities \cup M!MasterTimers)
      /\ M!MasterTimers \subseteq M!MasterStates
      /\ M!MasterActivities \subseteq M!MasterStates
      /\ M!MasterTimers \cap M!MasterActivities = {}
      /\ "Exited" \notin M!MasterStates
  BY DEF M!MasterStates, M!MasterTimers, M!MasterActivities
<1> QED
  BY Names, <1>1, <1>2, <1>3, <1>4, <1>5 DEF MB!TableAssumption

LEMMA RemoteTables == RB!TableAssumption
<1>1. R!RemoteMoves \subseteq [from : R!RemoteStates, on : Events, sends : Seq(Bytes), to : R!RemoteStates]
  BY DEF R!RemoteMoves, R!RemoteMove, R!RemoteStates, R!RemoteTimers, R!RemoteActivities,
         Bytes, Events, ControlBytes, UserCommands
<1>2. R!RemoteEntryBytes \in [R!RemoteStates -> Seq(Bytes)]
  BY DEF R!RemoteEntryBytes, R!RemoteStates, R!RemoteTimers, R!RemoteActivities,
         Bytes, ControlBytes, UserCommands
<1>3. /\ R!RemoteHandled \in [R!RemoteActivities -> SUBSET ControlBytes]
      /\ R!RemoteJoinAt \in [R!RemoteActivities -> SUBSET RB!Stages]
  BY Names DEF R!RemoteHandled, R!RemoteJoinAt, RB!Stages, R!RemoteActivities,
         ControlBytes, UserCommands
<1>4. R!RemoteReplies \in [R!RemoteActivities -> [Bytes -> Seq(Bytes)]]
  <2>1. \A b \in Bytes : <<b>> \in Seq(Bytes) /\ <<"Result">> \in Seq(Bytes) /\ <<>> \in Seq(Bytes)
    BY DEF Bytes
  <2> QED
    BY Names, <2>1 DEF R!RemoteReplies
<1>5. \A a \in R!RemoteActivities : \A b \in R!RemoteHandled[a] \ {"EndTest"} :
          \E m \in R!RemoteMoves : m.from = a /\ m.on = b
  BY DEF R!RemoteHandled, R!RemoteActivities, R!RemoteMoves, R!RemoteMove
<1>6. /\ {"RemoteIdle"} \subseteq R!RemoteStates \ (R!RemoteActivities \cup R!RemoteTimers)
      /\ R!RemoteTimers \subseteq R!RemoteStates
      /\ R!RemoteActivities \subseteq R!RemoteStates
      /\ R!RemoteTimers \cap R!RemoteActivities = {}
      /\ "Exited" \notin R!RemoteStates
  BY DEF R!RemoteStates, R!RemoteTimers, R!RemoteActivities
<1> QED
  BY Names, <1>1, <1>2, <1>3, <1>4, <1>5, <1>6 DEF RB!TableAssumption

-------------------------------------------------------------------------------
(***************************************************************************)
(* The machines of the system are the ones those lemmas are about.         *)
(***************************************************************************)

LEMMA MasterDispatch ==
    ASSUME NEW event, NEW queue, NEW t
    PROVE  M!FSM!Dispatch(event, queue, t) <=> MB!Dispatch(event, queue, t)
BY DEF M!FSM!Dispatch, MB!Dispatch, M!FSM!Halt, MB!Halt, M!FSM!MovesOn, MB!MovesOn,
       M!FSM!Transit, MB!Transit, M!FSM!Orphan, MB!Orphan, M!FSM!Cancelled, MB!Cancelled,
       M!FSM!Handler, MB!Handler, M!FSM!Read, MB!Read

\* The master of the system is one that the lemmas of BaseFSMProofs are about.
LEMMA SameMaster ==
    /\ M!FSM!TypeOK <=> MB!TypeOK
    /\ M!FSM!Init => MB!Init
    /\ M!FSM!ReadCompletes => MB!ReadCompletes
    /\ M!FSM!Handle => MB!Handle
    /\ M!FSM!ActivityBegins => MB!ActivityBegins
    /\ M!FSM!TimerExpires => MB!TimerExpires
    /\ \A c \in UserCommands \cup {"EndTest"} :
           M!FSM!Command(c) => MB!Command(c) /\ c \in MB!UserCommands \cup {"EndTest"}
    /\ M!FSM!Runs("dangling") <=> MB!Runs("dangling")
<1>1. M!FSM!TypeOK <=> MB!TypeOK
  BY DEF M!FSM!TypeOK, MB!TypeOK, M!FSM!ReadSet, MB!ReadSet, M!FSM!HandlerSet,
         MB!HandlerSet, M!FSM!Stages, MB!Stages, M!FSM!Bytes, MB!Bytes, M!FSM!ControlBytes,
         MB!ControlBytes, M!FSM!UserCommands, MB!UserCommands
<1>2. M!FSM!Init => MB!Init
  BY DEF M!FSM!Init, MB!Init, M!FSM!Read, MB!Read
<1>3. M!FSM!ReadCompletes => MB!ReadCompletes
  BY DEF M!FSM!ReadCompletes, MB!ReadCompletes, M!FSM!Overwrite, MB!Overwrite,
         M!FSM!Handler, MB!Handler
<1>4. \A kind : M!FSM!Runs(kind) <=> MB!Runs(kind)
  BY DEF M!FSM!Runs, MB!Runs
<1>5. \A kind : M!FSM!Receive(kind) <=> MB!Receive(kind)
  BY MasterDispatch DEF M!FSM!Receive, MB!Receive, M!FSM!Read, MB!Read
<1>6. M!FSM!DispatchTimeout \/ M!FSM!DispatchAborted => MB!DispatchTimeout \/ MB!DispatchAborted
  BY MasterDispatch DEF M!FSM!DispatchTimeout, MB!DispatchTimeout, M!FSM!DispatchAborted,
         MB!DispatchAborted, M!FSM!Runs, MB!Runs, M!FSM!QueueLeft, MB!QueueLeft,
         M!FSM!TimerLeft, MB!TimerLeft, M!FSM!Cancelled, MB!Cancelled, M!FSM!Handler,
         MB!Handler
<1>7. M!FSM!HandleReadEvt => MB!HandleReadEvt
  BY MasterDispatch DEF M!FSM!HandleReadEvt, MB!HandleReadEvt, M!FSM!Runs, MB!Runs,
         M!FSM!ControlBytes, MB!ControlBytes, M!FSM!UserCommands, MB!UserCommands
<1>8. M!FSM!Handle => MB!Handle
  BY <1>4, <1>5, <1>6, <1>7 DEF M!FSM!Handle, MB!Handle, M!FSM!HandleReceive,
         MB!HandleReceive, M!FSM!HandleDangling, MB!HandleDangling, M!FSM!Halt, MB!Halt
<1>9. M!FSM!ActivityBegins => MB!ActivityBegins
  BY DEF M!FSM!ActivityBegins, MB!ActivityBegins, M!FSM!ActivityCancel, MB!ActivityCancel,
         M!FSM!ActivityRead, MB!ActivityRead, M!FSM!Read, MB!Read
<1>10. M!FSM!TimerExpires => MB!TimerExpires
  BY DEF M!FSM!TimerExpires, MB!TimerExpires, M!FSM!Handler, MB!Handler
<1>11. \A c : M!FSM!Command(c) => MB!Command(c)
  BY MasterDispatch DEF M!FSM!Command, MB!Command
<1> QED
  BY Names, <1>1, <1>2, <1>3, <1>4, <1>8, <1>9, <1>10, <1>11

LEMMA RemoteDispatch ==
    ASSUME NEW event, NEW queue, NEW t
    PROVE  R!FSM!Dispatch(event, queue, t) <=> RB!Dispatch(event, queue, t)
BY DEF R!FSM!Dispatch, RB!Dispatch, R!FSM!Halt, RB!Halt, R!FSM!MovesOn, RB!MovesOn,
       R!FSM!Transit, RB!Transit, R!FSM!Orphan, RB!Orphan, R!FSM!Cancelled, RB!Cancelled,
       R!FSM!Handler, RB!Handler, R!FSM!Read, RB!Read

\* The remote of the system is one that the lemmas of BaseFSMProofs are about.
LEMMA SameRemote ==
    /\ R!FSM!TypeOK <=> RB!TypeOK
    /\ R!FSM!Init => RB!Init
    /\ R!FSM!ReadCompletes => RB!ReadCompletes
    /\ R!FSM!Handle => RB!Handle
    /\ R!FSM!ActivityBegins => RB!ActivityBegins
    /\ R!FSM!TimerExpires => RB!TimerExpires
    /\ \A c \in UserCommands \cup {"EndTest"} :
           R!FSM!Command(c) => RB!Command(c) /\ c \in RB!UserCommands \cup {"EndTest"}
    /\ R!FSM!Runs("dangling") <=> RB!Runs("dangling")
<1>1. R!FSM!TypeOK <=> RB!TypeOK
  BY DEF R!FSM!TypeOK, RB!TypeOK, R!FSM!ReadSet, RB!ReadSet, R!FSM!HandlerSet,
         RB!HandlerSet, R!FSM!Stages, RB!Stages, R!FSM!Bytes, RB!Bytes, R!FSM!ControlBytes,
         RB!ControlBytes, R!FSM!UserCommands, RB!UserCommands
<1>2. R!FSM!Init => RB!Init
  BY DEF R!FSM!Init, RB!Init, R!FSM!Read, RB!Read
<1>3. R!FSM!ReadCompletes => RB!ReadCompletes
  BY DEF R!FSM!ReadCompletes, RB!ReadCompletes, R!FSM!Overwrite, RB!Overwrite,
         R!FSM!Handler, RB!Handler
<1>4. \A kind : R!FSM!Runs(kind) <=> RB!Runs(kind)
  BY DEF R!FSM!Runs, RB!Runs
<1>5. \A kind : R!FSM!Receive(kind) <=> RB!Receive(kind)
  BY RemoteDispatch DEF R!FSM!Receive, RB!Receive, R!FSM!Read, RB!Read
<1>6. R!FSM!DispatchTimeout \/ R!FSM!DispatchAborted => RB!DispatchTimeout \/ RB!DispatchAborted
  BY RemoteDispatch DEF R!FSM!DispatchTimeout, RB!DispatchTimeout, R!FSM!DispatchAborted,
         RB!DispatchAborted, R!FSM!Runs, RB!Runs, R!FSM!QueueLeft, RB!QueueLeft,
         R!FSM!TimerLeft, RB!TimerLeft, R!FSM!Cancelled, RB!Cancelled, R!FSM!Handler,
         RB!Handler
<1>7. R!FSM!HandleReadEvt => RB!HandleReadEvt
  BY RemoteDispatch DEF R!FSM!HandleReadEvt, RB!HandleReadEvt, R!FSM!Runs, RB!Runs,
         R!FSM!ControlBytes, RB!ControlBytes, R!FSM!UserCommands, RB!UserCommands
<1>8. R!FSM!Handle => RB!Handle
  BY <1>4, <1>5, <1>6, <1>7 DEF R!FSM!Handle, RB!Handle, R!FSM!HandleReceive,
         RB!HandleReceive, R!FSM!HandleDangling, RB!HandleDangling, R!FSM!Halt, RB!Halt
<1>9. R!FSM!ActivityBegins => RB!ActivityBegins
  BY DEF R!FSM!ActivityBegins, RB!ActivityBegins, R!FSM!ActivityCancel, RB!ActivityCancel,
         R!FSM!ActivityRead, RB!ActivityRead, R!FSM!Read, RB!Read
<1>10. R!FSM!TimerExpires => RB!TimerExpires
  BY DEF R!FSM!TimerExpires, RB!TimerExpires, R!FSM!Handler, RB!Handler
<1>11. \A c : R!FSM!Command(c) => RB!Command(c)
  BY RemoteDispatch DEF R!FSM!Command, RB!Command
<1> QED
  BY Names, <1>1, <1>2, <1>3, <1>4, <1>8, <1>9, <1>10, <1>11

-------------------------------------------------------------------------------
(***************************************************************************)
(* Bytes under way: what appending to the line, losing a byte, reading one *)
(* and running a handler do to them.                                       *)
(***************************************************************************)

LEMMA ShortLines ==
    /\ <<>> \in Seq(Bytes) /\ \A b : ~Has(<<>>, b)
    /\ \A b \in Bytes : <<b>> \in Seq(Bytes) /\ \A c : Has(<<b>>, c) => c = b
BY DEF Has

LEMMA HasConcat ==
    ASSUME NEW s \in Seq(Bytes), NEW w \in Seq(Bytes), NEW b, Has(s \o w, b)
    PROVE  Has(s, b) \/ Has(w, b)
<1> DEFINE c == s \o w
<1>1. /\ Len(s) \in Nat /\ Len(w) \in Nat /\ DOMAIN s = 1..Len(s) /\ DOMAIN w = 1..Len(w)
      /\ DOMAIN c = 1..(Len(s) + Len(w))
      /\ \A i \in 1..(Len(s) + Len(w)) : c[i] = IF i <= Len(s) THEN s[i] ELSE w[i - Len(s)]
  BY ConcatProperties, LenProperties
<1> HIDE DEF c
<1>2. PICK i \in DOMAIN c : c[i] = b
  BY DEF Has, c
<1>3. CASE i <= Len(s)
  BY <1>1, <1>2, <1>3 DEF Has
<1>4. CASE ~(i <= Len(s))
  <2>1. i - Len(s) \in DOMAIN w /\ w[i - Len(s)] = b
    BY <1>1, <1>2, <1>4
  <2> QED
    BY <2>1 DEF Has
<1> QED
  BY <1>3, <1>4

LEMMA LineNeverConcat ==
    ASSUME NEW s \in Seq(Bytes), NEW w \in Seq(Bytes), NEW a, NEW b,
           LineNever(a, b, s), ~Has(w, b)
    PROVE  LineNever(a, b, s \o w)
<1> DEFINE c == s \o w
<1>1. /\ Len(s) \in Nat /\ Len(w) \in Nat /\ DOMAIN s = 1..Len(s) /\ DOMAIN w = 1..Len(w)
      /\ DOMAIN c = 1..(Len(s) + Len(w))
      /\ \A i \in 1..(Len(s) + Len(w)) : c[i] = IF i <= Len(s) THEN s[i] ELSE w[i - Len(s)]
  BY ConcatProperties, LenProperties
<1> HIDE DEF c
<1> SUFFICES ASSUME NEW i \in DOMAIN c, NEW j \in DOMAIN c, i < j, c[i] = a
             PROVE  c[j] # b
  BY DEF LineNever, c
<1>2. CASE j <= Len(s)
  BY <1>1, <1>2 DEF LineNever
<1>3. CASE ~(j <= Len(s))
  <2>1. j - Len(s) \in DOMAIN w /\ c[j] = w[j - Len(s)]
    BY <1>1, <1>3
  <2> QED
    BY <2>1 DEF Has
<1> QED
  BY <1>2, <1>3

\* The oldest byte leaves the line.
LEMMA TailLine ==
    ASSUME NEW s \in Seq(Bytes), s # <<>>
    PROVE  /\ Tail(s) \in Seq(Bytes) /\ Has(s, Head(s))
           /\ \A b : Has(Tail(s), b) => Has(s, b)
           /\ \A a, b : LineNever(a, b, s) => LineNever(a, b, Tail(s))
           /\ \A b : LineNever(Head(s), b, s) => ~Has(Tail(s), b)
<1> DEFINE r == Tail(s)
<1>1. /\ Len(s) \in Nat \ {0} /\ DOMAIN s = 1..Len(s) /\ Head(s) = s[1]
      /\ r \in Seq(Bytes) /\ DOMAIN r = 1..(Len(s) - 1)
      /\ \A i \in 1..(Len(s) - 1) : r[i] = s[i + 1]
  BY EmptySeq, HeadTailProperties, LenProperties
<1> HIDE DEF r
<1>2. \A i \in DOMAIN r : i + 1 \in DOMAIN s /\ r[i] = s[i + 1] /\ i \in Nat /\ 1 < i + 1
  BY <1>1
<1>3. 1 \in DOMAIN s
  BY <1>1
<1>4. \A b : Has(r, b) => Has(s, b)
  BY <1>2 DEF Has
<1>5. \A a, b : LineNever(a, b, s) => LineNever(a, b, r)
  <2> SUFFICES ASSUME NEW a, NEW b, LineNever(a, b, s),
                      NEW i \in DOMAIN r, NEW j \in DOMAIN r, i < j, r[i] = a
               PROVE  r[j] # b
    BY DEF LineNever
  <2>1. i + 1 < j + 1
    BY <1>2
  <2> QED
    BY <1>2, <2>1 DEF LineNever
<1>6. \A b : LineNever(Head(s), b, s) => ~Has(r, b)
  BY <1>1, <1>2, <1>3 DEF LineNever, Has
<1> QED
  BY <1>1, <1>3, <1>4, <1>5, <1>6 DEF Has, r

\* The queue p holds no byte but those of q without its first d handlers.
Carriers == {"fsm", "activity", "results"}
Rest(q, p, d) ==
    /\ DOMAIN q \subseteq Nat \ {0} /\ DOMAIN p \subseteq Nat \ {0}
    /\ \A i \in DOMAIN p : p[i].kind \in Carriers => i + d \in DOMAIN q /\ p[i] = q[i + d]

LEMMA RestKeeps ==
    ASSUME NEW q, NEW p, NEW d \in {0, 1}, Rest(q, p, d)
    PROVE  /\ \A b : Queued(p, b) => Queued(q, b)
           /\ \A S, s : Only(S, q, s) => Only(S, p, s)
           /\ \A k : Owners(q, k) => Owners(p, k)
           /\ \A st : OwnLast(q, st) => OwnLast(p, st)
           /\ \A a, b : QueueNever(a, b, q) => QueueNever(a, b, p)
           /\ \A a, b, s : After(a, b, q, s) => After(a, b, p, s)
           /\ \A a, b, s : Never(a, b, q, s) => Never(a, b, p, s)
           /\ \A s : NoAckBehindResults(q, s) => NoAckBehindResults(p, s)
           /\ ResultsIn(q) = {} => ResultsIn(p) = {}
           /\ AtMostOne(ResultsIn(q)) => AtMostOne(ResultsIn(p))
<1>1. \A i \in DOMAIN p : i \in Nat /\ (p[i].kind \in Carriers => i + d \in DOMAIN q /\ p[i] = q[i + d])
  BY DEF Rest
<1>2. \A i, j \in DOMAIN p : i < j => i + d < j + d
  BY <1>1
<1>3. \A b : Queued(p, b) => Queued(q, b)
  BY <1>1 DEF Queued, ByteKinds, Carriers
<1>4. \A S, s : Only(S, q, s) => Only(S, p, s)
  BY <1>3 DEF Only, Pending
<1>5. \A k : Owners(q, k) => Owners(p, k)
  BY <1>1 DEF Owners, Carriers
<1>6. \A st : OwnLast(q, st) => OwnLast(p, st)
  BY <1>1, <1>2 DEF OwnLast, Carriers
<1>7. \A a, b : QueueNever(a, b, q) => QueueNever(a, b, p)
  BY <1>1, <1>2 DEF QueueNever, ByteKinds, Carriers
<1>8. \A a, b, s : After(a, b, q, s) => After(a, b, p, s)
  BY <1>3 DEF After
<1>9. \A s : NoAckBehindResults(q, s) => NoAckBehindResults(p, s)
  BY <1>1, <1>2 DEF NoAckBehindResults, ByteKinds, Carriers
<1>10. \A i \in ResultsIn(p) : i + d \in ResultsIn(q) /\ i \in Nat
  BY <1>1 DEF ResultsIn, Carriers
<1>11. AtMostOne(ResultsIn(q)) => AtMostOne(ResultsIn(p))
  <2> SUFFICES ASSUME AtMostOne(ResultsIn(q)), NEW i \in ResultsIn(p), NEW j \in ResultsIn(p)
               PROVE  i = j
    BY DEF AtMostOne
  <2>1. i + d = j + d
    BY <1>10 DEF AtMostOne
  <2> QED
    BY <1>10, <2>1
<1> QED
  BY <1>3, <1>4, <1>5, <1>6, <1>7, <1>8, <1>9, <1>10, <1>11 DEF Never

\* A read of this kind and owner has completed with byte b: it is appended, and
\* every handler of the machine's with this owner carries b now.
Pulled(q, p, kind, owner, b) ==
    /\ DOMAIN q \subseteq Nat /\ DOMAIN p \subseteq Nat
    /\ \A i \in DOMAIN p :
          \/ /\ i \in DOMAIN q
             /\ p[i].kind = q[i].kind /\ p[i].owner = q[i].owner
             /\ IF kind = "fsm" /\ q[i].kind = "fsm" /\ owner = q[i].owner
                THEN p[i].byte = b ELSE p[i] = q[i]
          \/ /\ i \notin DOMAIN q
             /\ \A j \in DOMAIN p : j <= i
             /\ p[i].kind = kind /\ p[i].owner = owner /\ p[i].byte = b

LEMMA PulledKeeps ==
    ASSUME NEW s \in Seq(Bytes), s # <<>>, NEW q, NEW p, NEW kind, NEW owner,
           kind # "results", Pulled(q, p, kind, owner, Head(s))
    PROVE  /\ \A b : Pending(p, Tail(s), b) => Pending(q, s, b)
           /\ \A S : Only(S, q, s) => Only(S, p, Tail(s))
           /\ \A k : (kind = "fsm" => owner \in k) /\ Owners(q, k) => Owners(p, k)
           /\ \A st : (kind = "fsm" => owner = st) /\ OwnLast(q, st) => OwnLast(p, st)
           /\ \A a, b : After(a, b, q, s) => After(a, b, p, Tail(s))
           /\ NoAckBehindResults(q, s) => NoAckBehindResults(p, Tail(s))
           /\ ResultsIn(p) \subseteq ResultsIn(q)
<1>1. /\ Has(s, Head(s))
      /\ \A b : Has(Tail(s), b) => Has(s, b)
      /\ \A a, b : LineNever(a, b, s) => LineNever(a, b, Tail(s))
      /\ \A b : LineNever(Head(s), b, s) => ~Has(Tail(s), b)
  BY TailLine
<1>2. \A b : Queued(p, b) => Queued(q, b) \/ b = Head(s)
  BY DEF Pulled, Queued, ByteKinds
<1>3. \A b : Pending(p, Tail(s), b) => Pending(q, s, b)
  BY <1>1, <1>2 DEF Pending
<1>4. \A S : Only(S, q, s) => Only(S, p, Tail(s))
  BY <1>3 DEF Only
<1>5. \A k : (kind = "fsm" => owner \in k) /\ Owners(q, k) => Owners(p, k)
  BY DEF Pulled, Owners
<1>6. \A st : (kind = "fsm" => owner = st) /\ OwnLast(q, st) => OwnLast(p, st)
  <2> SUFFICES ASSUME NEW st, kind = "fsm" => owner = st, OwnLast(q, st),
                      NEW i \in DOMAIN p, NEW j \in DOMAIN p, i < j,
                      p[i].kind = "fsm", p[i].owner = st, p[j].kind = "fsm"
               PROVE  p[j].owner = st
    BY DEF OwnLast
  <2>1. i \in Nat /\ j \in Nat /\ ~(j <= i)
    BY DEF Pulled
  <2>2. i \in DOMAIN q /\ q[i].kind = "fsm" /\ q[i].owner = st
    BY <2>1 DEF Pulled
  <2>3. CASE j \in DOMAIN q
    BY <2>2, <2>3 DEF Pulled, OwnLast
  <2>4. CASE j \notin DOMAIN q
    BY <2>4 DEF Pulled
  <2> QED
    BY <2>3, <2>4
<1>7. \A a, b : After(a, b, q, s) => After(a, b, p, Tail(s))
  BY <1>1, <1>2 DEF After
<1>8. NoAckBehindResults(q, s) => NoAckBehindResults(p, Tail(s))
  <2> SUFFICES ASSUME NoAckBehindResults(q, s), NEW i \in DOMAIN p, p[i].kind = "results"
               PROVE  /\ ~Has(Tail(s), "RemoteAck")
                      /\ \A j \in DOMAIN p :
                            i < j /\ p[j].kind \in ByteKinds => p[j].byte # "RemoteAck"
    BY DEF NoAckBehindResults
  <2>1. i \in DOMAIN q /\ q[i].kind = "results"
    BY DEF Pulled
  <2>2. ~Has(s, "RemoteAck") /\ Head(s) # "RemoteAck" /\ ~Has(Tail(s), "RemoteAck")
    BY <1>1, <2>1 DEF NoAckBehindResults
  <2>3. \A j \in DOMAIN p : i < j /\ p[j].kind \in ByteKinds => p[j].byte # "RemoteAck"
    BY <2>1, <2>2 DEF NoAckBehindResults, Pulled
  <2> QED
    BY <2>2, <2>3
<1>9. ResultsIn(p) \subseteq ResultsIn(q)
  BY DEF ResultsIn, Pulled
<1> QED
  BY <1>3, <1>4, <1>5, <1>6, <1>7, <1>8, <1>9

\* The machine's own handlers are the last, so the byte that overwrites theirs
\* keeps the order of what it overwrites and what is behind it.
LEMMA PulledNever ==
    ASSUME NEW s \in Seq(Bytes), s # <<>>, NEW q, NEW p, NEW kind, NEW owner,
           Pulled(q, p, kind, owner, Head(s)),
           NEW st, kind = "fsm" => owner = st, OwnLast(q, st),
           NEW a, NEW b, a # b, Never(a, b, q, s), kind # "results"
    PROVE  Never(a, b, p, Tail(s))
<1>1. After(a, b, p, Tail(s))
  BY PulledKeeps DEF Never
<1>2. Has(s, Head(s))
  BY TailLine
<1>3. QueueNever(a, b, p)
  <2> SUFFICES ASSUME NEW i \in DOMAIN p, NEW j \in DOMAIN p, i < j,
                      p[i].kind \in ByteKinds, p[i].byte = a, p[j].kind = "fsm", p[j].byte = b
               PROVE  FALSE
    BY DEF QueueNever
  <2>1. i \in Nat /\ j \in Nat /\ ~(j <= i)
    BY DEF Pulled
  <2>2. i \in DOMAIN q /\ p[i].kind = q[i].kind /\ p[i].owner = q[i].owner
    BY <2>1 DEF Pulled
  <2>3. CASE q[i].byte = a
    <3>1. Head(s) # b
      BY <1>2, <2>2, <2>3 DEF Never, After, Queued
    <3>2. j \in DOMAIN q /\ p[j].kind = q[j].kind /\ q[j].byte = b
      BY <3>1 DEF Pulled
    <3> QED
      BY <2>2, <2>3, <3>2 DEF Never, QueueNever
  <2>4. CASE q[i].byte # a
    <3>1. kind = "fsm" /\ q[i].kind = "fsm" /\ owner = q[i].owner /\ Head(s) = a
      BY <2>2, <2>4 DEF Pulled
    <3>2. CASE j \in DOMAIN q
      <4>1. q[j].kind = "fsm" /\ q[j].owner = owner
        BY <2>2, <3>1, <3>2 DEF Pulled, OwnLast
      <4> QED
        BY <3>1, <3>2, <4>1 DEF Pulled
    <3>3. CASE j \notin DOMAIN q
      BY <3>1, <3>3 DEF Pulled
    <3> QED
      BY <3>2, <3>3
  <2> QED
    BY <2>3, <2>4
<1> QED
  BY <1>1, <1>3 DEF Never

\* The handler that has run carried an a: what no b follows may now be.
LEMMA HeadNever ==
    ASSUME NEW q, NEW p, Rest(q, p, 1), NEW a, NEW b, NEW s, Never(a, b, q, s),
           1 \in DOMAIN q, q[1].kind \in ByteKinds, q[1].byte = a,
           \A i \in DOMAIN p : p[i].kind # "activity"
    PROVE  ~Pending(p, s, b)
<1>1. ~Has(s, b)
  BY DEF Never, After, Queued
<1>2. \A i \in DOMAIN p : p[i].kind = "fsm" => p[i].byte # b
  BY DEF Never, QueueNever, Rest, Carriers
<1> QED
  BY <1>1, <1>2 DEF Pending, Queued, ByteKinds

\* The other end appends bytes to the line ...
LEMMA SentKeeps ==
    ASSUME NEW s \in Seq(Bytes), NEW w \in Seq(Bytes)
    PROVE  /\ \A b, q : Pending(q, s \o w, b) => Pending(q, s, b) \/ Has(w, b)
           /\ \A S, q : /\ Only(S, q, s)
                        /\ \A b \in ControlBytes \ S : ~Has(w, b)
                        => Only(S, q, s \o w)
           /\ \A a, b, q : After(a, b, q, s) /\ ~Has(w, b) => After(a, b, q, s \o w)
           /\ \A a, b, q : Never(a, b, q, s) /\ ~Has(w, b) => Never(a, b, q, s \o w)
           /\ \A q : NoAckBehindResults(q, s) /\ ~Has(w, "RemoteAck")
                        => NoAckBehindResults(q, s \o w)
<1>1. \A b : Has(s \o w, b) => Has(s, b) \/ Has(w, b)
  BY HasConcat
<1>2. \A b, q : Pending(q, s \o w, b) => Pending(q, s, b) \/ Has(w, b)
  BY <1>1 DEF Pending
<1>3. \A S, q : /\ Only(S, q, s)
                /\ \A b \in ControlBytes \ S : ~Has(w, b)
                => Only(S, q, s \o w)
  BY <1>2 DEF Only
<1>4. \A a, b, q : After(a, b, q, s) /\ ~Has(w, b) => After(a, b, q, s \o w)
  BY <1>1, LineNeverConcat DEF After
<1>5. \A a, b, q : Never(a, b, q, s) /\ ~Has(w, b) => Never(a, b, q, s \o w)
  BY <1>4 DEF Never
<1>6. \A q : NoAckBehindResults(q, s) /\ ~Has(w, "RemoteAck") => NoAckBehindResults(q, s \o w)
  BY <1>1 DEF NoAckBehindResults
<1> QED
  BY <1>2, <1>3, <1>4, <1>5, <1>6

\* ... or the line loses one.
LEMMA LostKeeps ==
    ASSUME NEW s \in Seq(Bytes), s # <<>>
    PROVE  /\ \A S, q : Only(S, q, s) => Only(S, q, Tail(s))
           /\ \A a, b, q : After(a, b, q, s) => After(a, b, q, Tail(s))
           /\ \A a, b, q : Never(a, b, q, s) => Never(a, b, q, Tail(s))
           /\ \A q : NoAckBehindResults(q, s) => NoAckBehindResults(q, Tail(s))
<1>1. \A b : Has(Tail(s), b) => Has(s, b)
  BY TailLine
<1>2. \A a, b : LineNever(a, b, s) => LineNever(a, b, Tail(s))
  BY TailLine
<1> QED
  BY <1>1, <1>2 DEF Only, Pending, After, Never, NoAckBehindResults

\* What is not under way yet has nothing behind it.
LEMMA FreshNever ==
    ASSUME NEW a, NEW b, NEW q, NEW s, ~Pending(q, s, a)
    PROVE  Never(a, b, q, s)
BY DEF Never, QueueNever, After, LineNever, Pending, Queued, Has

-------------------------------------------------------------------------------
(***************************************************************************)
(* The transitions of the two tables, by what a test is made of.           *)
(***************************************************************************)

\* The master's transition, and the byte it sends in it.
MasterGoes(from, on, to, byte) ==
    \/ from = "Idle" /\ on = "RemoteAck" /\ to = "Idle" /\ byte = "MasterAck"
    \/ from = "WaitAckAfterEndMode" /\ on = "RemoteAck" /\ to = "Idle" /\ byte = "MasterAck"
    \/ from = "WaitAckAfterEndMode" /\ on = "Timeout" /\ to = from /\ byte = "EndModeCommand"
    \/ \E t \in TS!Tests :
          \/ from = "Idle" /\ on = Asks(t) /\ to = TS!Asking(t) /\ byte = Asks(t)
          \/ from = TS!Asking(t) /\ on = "Timeout" /\ to = from /\ byte = Asks(t)
          \/ from = TS!Asking(t) /\ on = "RemoteAck" /\ to = TS!Mode(t) /\ byte = "MasterAck"
          \/ from = TS!Mode(t) /\ on = "RemoteAck" /\ to = from /\ byte = "MasterAck"
          \/ /\ from = TS!Mode(t) /\ on = "EndModeCommand"
             /\ to = "WaitAckAfterEndMode" /\ byte = "EndModeCommand"

\* The remote's.
RemoteGoes(from, on, to) ==
    \/ from = "EndModeReceived" /\ on \in {"EndModeCommand", "Timeout"} /\ to = from
    \/ from = "EndModeReceived" /\ on = "MasterAck" /\ to = "RemoteIdle"
    \/ \E t \in TS!Tests :
          \/ from = "RemoteIdle" /\ on = Asks(t) /\ to = TS!Accepted(t)
          \/ from = TS!Accepted(t) /\ on = "Timeout" /\ to = from
          \/ from = TS!Accepted(t) /\ on = "MasterAck" /\ to = TS!Serving(t)
          \/ from = TS!Serving(t) /\ on = "MasterAck" /\ to = from
          \/ from = TS!Serving(t) /\ on = "EndModeCommand" /\ to = "EndModeReceived"

LEMMA MasterMovesGo ==
    ASSUME NEW m \in M!MasterMoves, NEW s \in Seq(Bytes)
    PROVE  \E byte \in ControlBytes :
              /\ MasterGoes(m.from, m.on, m.to, byte)
              /\ s \o m.sends \o M!MasterEntryBytes[m.to] = s \o <<byte>>
<1>1. CASE m.to = "Idle"
  <2>1. MasterGoes(m.from, m.on, m.to, "MasterAck") /\ m.sends = <<"MasterAck">>
    BY <1>1 DEF M!MasterMoves, M!MasterMove, MasterGoes
  <2>2. M!MasterEntryBytes[m.to] = <<>>
    BY <1>1, Z3 DEF M!MasterEntryBytes, M!MasterStates, M!MasterTimers, M!MasterActivities
  <2>3. s \o <<"MasterAck">> \o <<>> = s \o <<"MasterAck">> /\ "MasterAck" \in ControlBytes
    BY DEF ControlBytes, Bytes
  <2> QED
    BY <2>1, <2>2, <2>3
<1>2. CASE m.to # "Idle"
  <2>1. m.sends = <<>> /\ s \o <<>> = s
    BY <1>2 DEF M!MasterMoves, M!MasterMove
  <2>2. \E byte \in ControlBytes : /\ MasterGoes(m.from, m.on, m.to, byte)
                                   /\ M!MasterEntryBytes[m.to] = <<byte>>
    BY <1>2 DEF M!MasterMoves, M!MasterMove, MasterGoes, M!MasterEntryBytes, M!MasterStates,
                M!MasterTimers, M!MasterActivities, TS!Tests, TS!Asking, TS!Mode, Asks,
                ControlBytes, UserCommands
  <2> QED
    BY <2>1, <2>2
<1> QED
  BY <1>1, <1>2

LEMMA RemoteMovesGo ==
    ASSUME NEW m \in R!RemoteMoves, NEW s \in Seq(Bytes)
    PROVE  /\ RemoteGoes(m.from, m.on, m.to)
           /\ s \o m.sends \o R!RemoteEntryBytes[m.to] =
                 IF m.to \in R!RemoteTimers THEN s \o <<"RemoteAck">> ELSE s
<1>1. RemoteGoes(m.from, m.on, m.to)
  BY DEF R!RemoteMoves, R!RemoteMove, RemoteGoes, TS!Tests, TS!Accepted, TS!Serving, Asks
<1>2. m.sends = <<>> /\ s \o <<>> = s /\ m.to \in R!RemoteStates
  BY DEF R!RemoteMoves, R!RemoteMove, R!RemoteStates, R!RemoteTimers, R!RemoteActivities
<1>3. R!RemoteEntryBytes[m.to] = IF m.to \in R!RemoteTimers THEN <<"RemoteAck">> ELSE <<>>
  BY <1>2 DEF R!RemoteEntryBytes
<1> QED
  BY <1>1, <1>2, <1>3

-------------------------------------------------------------------------------
(***************************************************************************)
(* What the steps of the two machines do, in these terms.                  *)
(***************************************************************************)

\* The master moves on this event, any activity's thread having ended.
MasterMoved(on) ==
    /\ \E byte \in ControlBytes : /\ MasterGoes(mState, on, mState', byte)
                                  /\ toRemote' = toRemote \o <<byte>>
    /\ mState = "AvailabilityMode" => mActivity = "reading"
    /\ mState = "ThroughputMode" => mActivity = "done"
    /\ mActivity' \in {"none", "starting", "cancelled", "reading"}
    /\ \A i \in DOMAIN mReady' : mReady'[i].kind # "activity"
    /\ ResultsIn(mReads') = {}

MasterQuits ==
    /\ mState' = "Exited" /\ mActivity' = "none" /\ mReads' = <<>> /\ mReady' = <<>>
    /\ toRemote' = toRemote \o <<"EndTest">>

RemoteMoved(on) ==
    /\ RemoteGoes(rState, on, rState')
    /\ toMaster' = IF rState' \in R!RemoteTimers THEN toMaster \o <<"RemoteAck">> ELSE toMaster
    /\ \A i \in DOMAIN rReady' : rReady'[i].kind # "activity"

RemoteQuits == rState' = "Exited" /\ rReady' = <<>>

LEMMA MasterRest == ASSUME MB!TypeOK, NEW d, MB!Leaves(mReady', d) PROVE Rest(mReady, mReady', d)
<1>1. mReady \in Seq(MB!HandlerSet) /\ mReady' \in Seq(MB!HandlerSet)
  BY DEF MB!TypeOK, MB!Leaves
<1>2. DOMAIN mReady \subseteq Nat \ {0} /\ DOMAIN mReady' \subseteq Nat \ {0}
  BY <1>1
<1> QED
  BY <1>2 DEF MB!Leaves, MB!Carriers, Rest, Carriers

LEMMA RemoteRest == ASSUME RB!TypeOK, NEW d, RB!Leaves(rReady', d) PROVE Rest(rReady, rReady', d)
<1>1. rReady \in Seq(RB!HandlerSet) /\ rReady' \in Seq(RB!HandlerSet)
  BY DEF RB!TypeOK, RB!Leaves
<1>2. DOMAIN rReady \subseteq Nat \ {0} /\ DOMAIN rReady' \subseteq Nat \ {0}
  BY <1>1
<1> QED
  BY <1>2 DEF RB!Leaves, RB!Carriers, Rest, Carriers

\* The lines hold bytes.
LEMMA LineTypes ==
    /\ MB!TypeOK => toMaster \in Seq(Bytes) /\ toRemote \in Seq(Bytes)
    /\ RB!TypeOK => toMaster \in Seq(Bytes) /\ toRemote \in Seq(Bytes)
BY Names DEF MB!TypeOK, RB!TypeOK

LEMMA MasterMovedFacts ==
    ASSUME NEW on, MB!TypeOK, MB!MovesBy(on), MB!Moved
    PROVE  MasterMoved(on)
<1>1. PICK m \in M!MasterMoves :
          /\ m.from = mState /\ m.on = on /\ mState' = m.to
          /\ mState \in M!MasterActivities => mActivity \in M!MasterJoinAt[mState]
          /\ toRemote' = toRemote \o m.sends \o M!MasterEntryBytes[m.to]
  BY DEF MB!MovesBy, MB!MovesOn
<1>2. \E byte \in ControlBytes : /\ MasterGoes(mState, on, mState', byte)
                                 /\ toRemote' = toRemote \o <<byte>>
  BY <1>1, MasterMovesGo, LineTypes
<1>3. /\ mState = "AvailabilityMode" => mActivity = "reading"
      /\ mState = "ThroughputMode" => mActivity = "done"
  BY <1>1 DEF M!MasterJoinAt, M!MasterActivities
<1>4. ResultsIn(mReads') = {} /\ mActivity' \in {"none", "starting", "cancelled", "reading"}
  BY DEF MB!Moved, MB!Read, ResultsIn
<1> QED
  BY <1>2, <1>3, <1>4 DEF MasterMoved, MB!Moved

LEMMA RemoteMovedFacts ==
    ASSUME NEW on, RB!TypeOK, RB!MovesBy(on), RB!Moved
    PROVE  RemoteMoved(on)
<1>1. PICK m \in R!RemoteMoves :
          /\ m.from = rState /\ m.on = on /\ rState' = m.to
          /\ toMaster' = toMaster \o m.sends \o R!RemoteEntryBytes[m.to]
  BY DEF RB!MovesBy, RB!MovesOn
<1> QED
  BY <1>1, RemoteMovesGo, LineTypes DEF RemoteMoved, RB!Moved

\* The dispatch of an event by the master ...
LEMMA MasterDispatches ==
    ASSUME MB!TypeOK, NEW on, NEW d, MB!Effect(on, d)
    PROVE  /\ Rest(mReady, mReady', d)
           /\ \/ MasterMoved(on)
              \/ on = "EndTest" /\ MasterQuits
              \/ UNCHANGED <<mState, mActivity, mReads, toRemote>>
<1>1. CASE MB!MovesBy(on) /\ MB!Moved /\ MB!Leaves(mReady', d)
  BY <1>1, MasterMovedFacts, MasterRest
<1>2. CASE on = "EndTest" /\ MB!Quits
  <2>1. Rest(mReady, mReady', d) /\ MasterQuits
    <3>1. DOMAIN mReady \subseteq Nat \ {0}
      BY DEF MB!TypeOK
    <3> QED
      BY <1>2, <3>1 DEF MB!Quits, MB!Halted, MasterQuits, Rest
  <2> QED
    BY <1>2, <2>1
<1>3. CASE MB!Stays /\ UNCHANGED mReads /\ MB!Leaves(mReady', d)
  BY <1>3, MasterRest DEF MB!Stays
<1> QED
  BY <1>1, <1>2, <1>3 DEF MB!Effect

\* ... and by the remote.
LEMMA RemoteDispatches ==
    ASSUME RB!TypeOK, NEW on, NEW d, RB!Effect(on, d)
    PROVE  /\ Rest(rReady, rReady', d)
           /\ \/ RemoteMoved(on)
              \/ on = "EndTest" /\ RemoteQuits
              \/ UNCHANGED <<rState, rActivity, rReads, toMaster>>
<1>1. CASE RB!MovesBy(on) /\ RB!Moved /\ RB!Leaves(rReady', d)
  BY <1>1, RemoteMovedFacts, RemoteRest
<1>2. CASE on = "EndTest" /\ RB!Quits
  <2>1. Rest(rReady, rReady', d) /\ RemoteQuits
    <3>1. DOMAIN rReady \subseteq Nat \ {0}
      BY DEF RB!TypeOK
    <3> QED
      BY <1>2, <3>1 DEF RB!Quits, RB!Halted, RemoteQuits, Rest
  <2> QED
    BY <1>2, <2>1
<1>3. CASE RB!Stays /\ UNCHANGED rReads /\ RB!Leaves(rReady', d)
  BY <1>3, RemoteRest DEF RB!Stays
<1> QED
  BY <1>1, <1>2, <1>3 DEF RB!Effect

\* The handler that runs carries this byte.
HeadIs(q, b) == 1 \in DOMAIN q /\ q[1].kind \in ByteKinds /\ q[1].byte = b

LEMMA HeadQueued == ASSUME NEW q, NEW b, HeadIs(q, b) PROVE Queued(q, b)
BY DEF HeadIs, Queued

\* A handler of the master's, unless of a deleted activity: its activities
\* answer nothing.
LEMMA MasterHandles ==
    ASSUME MB!TypeOK, MB!Owned, MB!Handle, ~MB!Runs("dangling")
    PROVE  /\ toMaster' = toMaster /\ mState # "Exited" /\ Rest(mReady, mReady', 1)
           /\ \/ \E on \in ControlBytes \cup {"Timeout"} :
                    (on = "Timeout" \/ HeadIs(mReady, on)) /\ MasterMoved(on)
              \/ HeadIs(mReady, "EndTest") /\ MasterQuits
              \/ UNCHANGED <<mState, mActivity, toRemote>>
<1> DEFINE h == Head(mReady)
<1>1. /\ mReady # <<>> /\ mState # "Exited" /\ toMaster' = toMaster
      /\ \/ /\ h.kind \in {"fsm", "activity"} /\ h.byte \in ControlBytes
            /\ MB!Effect(h.byte, 1)
         \/ MB!Effect("Timeout", 1)
         \/ h.kind = "activity" /\ MB!Answers
         \/ MB!Stays /\ UNCHANGED mReads /\ MB!Leaves(mReady', 1)
  BY MasterTables, MB!HandleEffect, Names
<1>2. 1 \in DOMAIN mReady /\ h = mReady[1]
  BY <1>1, EmptySeq DEF MB!TypeOK
<1>3. CASE h.kind \in {"fsm", "activity"} /\ h.byte \in ControlBytes /\ MB!Effect(h.byte, 1)
  <2>1. HeadIs(mReady, h.byte)
    BY <1>2, <1>3 DEF HeadIs, ByteKinds
  <2> HIDE DEF h
  <2>2. /\ Rest(mReady, mReady', 1)
        /\ \/ MasterMoved(h.byte)
           \/ h.byte = "EndTest" /\ MasterQuits
           \/ UNCHANGED <<mState, mActivity, mReads, toRemote>>
    BY <1>3, MasterDispatches
  <2> QED
    BY <1>1, <1>3, <2>1, <2>2
<1>4. CASE MB!Effect("Timeout", 1)
  BY <1>1, <1>4, MasterDispatches
<1>5. CASE h.kind = "activity" /\ MB!Answers
  <2>1. h.byte \in Bytes
    BY <1>1, <1>5, MasterTables, MB!HeadTypes, Names
  <2>2. M!MasterReplies[mState][h.byte] = <<>> /\ toRemote' = toRemote \o <<>>
    BY <1>5, <2>1, Names DEF MB!Answers, M!MasterReplies
  <2>3. toRemote' = toRemote
    BY <2>2, LineTypes
  <2> QED
    BY <1>1, <1>5, <2>3, MasterRest DEF MB!Answers
<1>6. CASE MB!Stays /\ UNCHANGED mReads /\ MB!Leaves(mReady', 1)
  BY <1>1, <1>6, MasterRest DEF MB!Stays
<1> QED
  BY <1>1, <1>3, <1>4, <1>5, <1>6

\* A handler of the remote's: its activities answer with data or results.
LEMMA RemoteHandles ==
    ASSUME RB!TypeOK, RB!Owned, RB!Handle, ~RB!Runs("dangling")
    PROVE  /\ toRemote' = toRemote /\ rState # "Exited" /\ Rest(rReady, rReady', 1)
           /\ \/ \E on \in ControlBytes \cup {"Timeout"} :
                    (on = "Timeout" \/ HeadIs(rReady, on)) /\ RemoteMoved(on)
              \/ HeadIs(rReady, "EndTest") /\ RemoteQuits
              \/ /\ rState' = rState
                 /\ \E w \in Seq(Bytes) : /\ toMaster' = toMaster \o w
                                          /\ \A b \in ControlBytes : ~Has(w, b)
                                          /\ rState \notin R!RemoteActivities => w = <<>>
<1> DEFINE h == Head(rReady)
<1>1. /\ rReady # <<>> /\ rState # "Exited" /\ toRemote' = toRemote
      /\ \/ /\ h.kind \in {"fsm", "activity"} /\ h.byte \in ControlBytes
            /\ RB!Effect(h.byte, 1)
         \/ RB!Effect("Timeout", 1)
         \/ h.kind = "activity" /\ RB!Answers
         \/ RB!Stays /\ UNCHANGED rReads /\ RB!Leaves(rReady', 1)
  BY RemoteTables, RB!HandleEffect, Names
<1>2. 1 \in DOMAIN rReady /\ h = rReady[1]
  BY <1>1, EmptySeq DEF RB!TypeOK
<1>3. /\ <<>> \in Seq(Bytes) /\ toMaster \o <<>> = toMaster
      /\ \A b \in ControlBytes : ~Has(<<>>, b)
  BY LineTypes DEF Has
<1>4. CASE h.kind \in {"fsm", "activity"} /\ h.byte \in ControlBytes /\ RB!Effect(h.byte, 1)
  <2>1. HeadIs(rReady, h.byte)
    BY <1>2, <1>4 DEF HeadIs, ByteKinds
  <2> HIDE DEF h
  <2>2. /\ Rest(rReady, rReady', 1)
        /\ \/ RemoteMoved(h.byte)
           \/ h.byte = "EndTest" /\ RemoteQuits
           \/ UNCHANGED <<rState, rActivity, rReads, toMaster>>
    BY <1>4, RemoteDispatches
  <2> QED
    BY <1>1, <1>3, <1>4, <2>1, <2>2
<1>5. CASE RB!Effect("Timeout", 1)
  <2>1. /\ Rest(rReady, rReady', 1)
        /\ \/ RemoteMoved("Timeout")
           \/ UNCHANGED <<rState, rActivity, rReads, toMaster>>
    BY <1>5, RemoteDispatches
  <2> QED
    BY <1>1, <1>3, <2>1
<1>6. CASE h.kind = "activity" /\ RB!Answers
  <2> DEFINE w == R!RemoteReplies[rState][h.byte]
  <2>1. h.byte \in Bytes
    BY <1>1, <1>6, RemoteTables, RB!HeadTypes, Names
  <2>2. w \in {<<>>, <<"Data">>, <<"EndData">>, <<"Result">>}
    BY <1>6, <2>1, Names DEF RB!Answers, R!RemoteReplies
  <2>3. w \in Seq(Bytes) /\ \A b \in ControlBytes : ~Has(w, b)
    <3> HIDE DEF w
    <3>1. {"Data", "EndData", "Result"} \subseteq Bytes \ ControlBytes
      BY DEF Bytes, ControlBytes, UserCommands
    <3> QED
      BY <2>2, <3>1, ShortLines
  <2>4. /\ rState \in R!RemoteActivities /\ rState' = rState
        /\ toMaster' = toMaster \o w
        /\ Rest(rReady, rReady', 1)
    BY <1>6, RemoteRest DEF RB!Answers
  <2> HIDE DEF w
  <2> QED
    BY <1>1, <2>3, <2>4
<1>7. CASE RB!Stays /\ UNCHANGED rReads /\ RB!Leaves(rReady', 1)
  BY <1>1, <1>3, <1>7, RemoteRest DEF RB!Stays
<1> QED
  BY <1>1, <1>4, <1>5, <1>6, <1>7

\* A byte is read.
LEMMA MasterReads ==
    ASSUME MB!TypeOK, MB!Owned, MB!ReadCompletes
    PROVE  /\ toMaster # <<>> /\ toMaster' = Tail(toMaster)
           /\ UNCHANGED <<mState, mActivity, toRemote>>
           /\ mReads # <<>> /\ mReads' = Tail(mReads)
           /\ \E kind, owner : /\ kind # "results"
                               /\ kind = "fsm" => owner = mState
                               /\ Pulled(mReady, mReady', kind, owner, Head(toMaster))
<1> DEFINE r == Head(mReads)
<1>1. /\ mReads # <<>> /\ mReads' = Tail(mReads) /\ r.kind # "results"
      /\ toMaster # <<>> /\ toMaster' = Tail(toMaster)
      /\ UNCHANGED <<mState, mActivity, toRemote>>
      /\ DOMAIN mReady' = 1..(Len(mReady) + 1)
      /\ \A i \in DOMAIN mReady' :
            \/ /\ i \in DOMAIN mReady
               /\ mReady'[i].kind = mReady[i].kind
               /\ mReady'[i].owner = mReady[i].owner
               /\ IF r.kind = "fsm" /\ mReady[i].kind = "fsm" /\ r.owner = mReady[i].owner
                  THEN mReady'[i].byte = Head(toMaster) ELSE mReady'[i] = mReady[i]
            \/ i = Len(mReady) + 1 /\ mReady'[i] = MB!Handler(r.kind, r.owner, Head(toMaster))
  BY MasterTables, MB!ReadEffect
<1>2. Len(mReady) \in Nat /\ DOMAIN mReady = 1..Len(mReady)
  BY DEF MB!TypeOK
<1>3. r.kind = "fsm" => r.owner = mState
  <2>1. 1 \in DOMAIN mReads /\ r = mReads[1]
    BY <1>1, EmptySeq DEF MB!TypeOK
  <2> QED
    BY <2>1 DEF MB!Owned
<1> HIDE DEF r
<1>4. Pulled(mReady, mReady', r.kind, r.owner, Head(toMaster))
  BY <1>1, <1>2 DEF Pulled, MB!Handler
<1> QED
  BY <1>1, <1>3, <1>4

LEMMA RemoteReads ==
    ASSUME RB!TypeOK, RB!Owned, RB!ReadCompletes
    PROVE  /\ toRemote # <<>> /\ toRemote' = Tail(toRemote)
           /\ UNCHANGED <<rState, rActivity, toMaster>>
           /\ \E kind, owner : /\ kind # "results"
                               /\ kind = "fsm" => owner = rState
                               /\ kind = "activity" => rState \in R!RemoteActivities
                               /\ Pulled(rReady, rReady', kind, owner, Head(toRemote))
<1> DEFINE r == Head(rReads)
<1>1. /\ rReads # <<>> /\ r.kind # "results"
      /\ toRemote # <<>> /\ toRemote' = Tail(toRemote)
      /\ UNCHANGED <<rState, rActivity, toMaster>>
      /\ r \in RB!ReadSet
      /\ DOMAIN rReady' = 1..(Len(rReady) + 1)
      /\ \A i \in DOMAIN rReady' :
            \/ /\ i \in DOMAIN rReady
               /\ rReady'[i].kind = rReady[i].kind
               /\ rReady'[i].owner = rReady[i].owner
               /\ IF r.kind = "fsm" /\ rReady[i].kind = "fsm" /\ r.owner = rReady[i].owner
                  THEN rReady'[i].byte = Head(toRemote) ELSE rReady'[i] = rReady[i]
            \/ i = Len(rReady) + 1 /\ rReady'[i] = RB!Handler(r.kind, r.owner, Head(toRemote))
  BY RemoteTables, RB!ReadEffect
<1>2. Len(rReady) \in Nat /\ DOMAIN rReady = 1..Len(rReady)
  BY DEF RB!TypeOK
<1>3. r.kind # "dangling" => r.owner = rState
  <2>1. 1 \in DOMAIN rReads /\ r = rReads[1]
    BY <1>1, EmptySeq DEF RB!TypeOK
  <2> QED
    BY <2>1 DEF RB!Owned
<1>4. r.kind = "activity" => rState \in R!RemoteActivities
  BY <1>1, <1>3 DEF RB!ReadSet
<1> HIDE DEF r
<1>5. Pulled(rReady, rReady', r.kind, r.owner, Head(toRemote))
  BY <1>1, <1>2 DEF Pulled, RB!Handler
<1> QED
  BY <1>1, <1>3, <1>4, <1>5

-------------------------------------------------------------------------------
(***************************************************************************)
(* Types, and the thread of the throughput test.                           *)
(***************************************************************************)

Sound == MB!TypeOK /\ RB!TypeOK /\ MB!Owned /\ RB!Owned /\ TestThread

\* Steps that leave one machine alone.
LEMMA MasterAlone ==
    ASSUME MB!TypeOK, MB!Owned, TestThread, UNCHANGED masterVars,
           toMaster' \in Seq(Bytes), toRemote' \in Seq(Bytes)
    PROVE  MB!TypeOK' /\ MB!Owned' /\ TestThread'
BY Names DEF MB!TypeOK, MB!Owned, TestThread, masterVars

LEMMA RemoteAlone ==
    ASSUME RB!TypeOK, RB!Owned, UNCHANGED remoteVars,
           toMaster' \in Seq(Bytes), toRemote' \in Seq(Bytes)
    PROVE  RB!TypeOK' /\ RB!Owned'
BY Names DEF RB!TypeOK, RB!Owned, remoteVars

\* A read that is armed behind the others.
LEMMA ReadArmed ==
    ASSUME MB!TypeOK, NEW kind, NEW owner, mReads' = Append(mReads, MB!Read(kind, owner))
    PROVE  /\ DOMAIN mReads' = 1..(Len(mReads) + 1)
           /\ DOMAIN mReads = 1..Len(mReads) /\ Len(mReads) \in Nat
           /\ \A i \in 1..Len(mReads) : mReads'[i] = mReads[i]
           /\ mReads'[Len(mReads) + 1].kind = kind /\ mReads'[Len(mReads) + 1].owner = owner
           /\ kind # "results" => ResultsIn(mReads') = ResultsIn(mReads)
<1> DEFINE r == MB!Read(kind, owner)
           S == MB!ReadSet \cup {r}
<1>1. r.kind = kind /\ r.owner = owner
  BY DEF MB!Read
<1>2. mReads \in Seq(S) /\ r \in S
  BY DEF MB!TypeOK
<1> HIDE DEF r, S
<1>3. mReads' = Append(mReads, r)
  BY DEF r
<1>4. /\ DOMAIN mReads' = 1..(Len(mReads) + 1)
      /\ DOMAIN mReads = 1..Len(mReads) /\ Len(mReads) \in Nat
      /\ \A i \in 1..Len(mReads) : mReads'[i] = mReads[i]
      /\ mReads'[Len(mReads) + 1] = r
  BY <1>2, <1>3, AppendProperties
<1>5. kind # "results" => ResultsIn(mReads') = ResultsIn(mReads)
  BY <1>1, <1>4 DEF ResultsIn
<1> QED
  BY <1>1, <1>4, <1>5

\* A handler or a command leaves the thread as it is, or ends it when it waits
\* for nothing.
LEMMA OutcomeThread ==
    ASSUME MB!TypeOK, TestThread, NEW d \in {0, 1}, MB!Outcome(d)
    PROVE  TestThread'
<1>1. CASE /\ MB!Moved /\ MB!Leaves(mReady', d)
           /\ mState \in M!MasterActivities => mActivity \in M!MasterJoinAt[mState]
  <2>1. mActivity # "waiting"
    <3>1. CASE mState \in M!MasterActivities
      BY <1>1, <3>1 DEF M!MasterJoinAt, M!MasterActivities
    <3>2. CASE mState \notin M!MasterActivities
      BY <3>2 DEF MB!TypeOK
    <3> QED
      BY <3>1, <3>2
  <2>2. ResultsIn(mReady) = {}
    BY <2>1 DEF TestThread
  <2>3. ResultsIn(mReady') = {}
    BY <1>1, <2>2, MasterRest, RestKeeps
  <2>4. ResultsIn(mReads') = {} /\ mActivity' \in {"none", "starting", "cancelled", "reading"}
    BY <1>1 DEF MB!Moved, MB!Read, ResultsIn
  <2> QED
    BY <2>3, <2>4 DEF TestThread, AtMostOne
<1>2. CASE MB!Halted
  BY <1>2 DEF MB!Halted, TestThread, ResultsIn, AtMostOne
<1>3. CASE /\ UNCHANGED <<mState, mActivity>>
           /\ MB!Leaves(mReady', d)
           /\ \/ UNCHANGED mReads
              \/ \E kind \in {"activity", "dangling"}, a \in M!MasterActivities :
                     mReads' = Append(mReads, MB!Read(kind, a))
  <2>1. ResultsIn(mReads') = ResultsIn(mReads)
    BY <1>3, ReadArmed DEF ResultsIn
  <2>2. /\ ResultsIn(mReady) = {} => ResultsIn(mReady') = {}
        /\ AtMostOne(ResultsIn(mReady)) => AtMostOne(ResultsIn(mReady'))
    BY <1>3, MasterRest, RestKeeps
  <2> QED
    BY <1>3, <2>1, <2>2 DEF TestThread
<1> QED
  BY <1>1, <1>2, <1>3 DEF MB!Outcome

\* A read takes a byte, and the results are not its business.
LEMMA ReadThread ==
    ASSUME MB!TypeOK, MB!Owned, TestThread, MB!ReadCompletes
    PROVE  TestThread'
<1>1. /\ UNCHANGED <<mState, mActivity>>
      /\ mReads # <<>> /\ mReads' = Tail(mReads)
      /\ ResultsIn(mReady') \subseteq ResultsIn(mReady)
  <2>1. toMaster \in Seq(Bytes)
    BY LineTypes
  <2> QED
    BY <2>1, MasterReads, PulledKeeps
<1>2. \A i \in ResultsIn(mReads') : i + 1 \in ResultsIn(mReads) /\ i \in Nat
  <2>1. /\ \A i \in DOMAIN mReads' : i + 1 \in DOMAIN mReads /\ mReads'[i] = mReads[i + 1]
        /\ DOMAIN mReads' \subseteq Nat \ {0}
    BY MasterTables, MB!ReadCompletesFacts
  <2> QED
    BY <2>1 DEF ResultsIn
<1>3. AtMostOne(ResultsIn(mReads'))
  <2> SUFFICES ASSUME NEW i \in ResultsIn(mReads'), NEW j \in ResultsIn(mReads')
               PROVE  i = j
    BY DEF AtMostOne
  <2>1. i + 1 = j + 1
    BY <1>2 DEF TestThread, AtMostOne
  <2> QED
    BY <1>2, <2>1
<1>4. ResultsIn(mReads) = {} => ResultsIn(mReads') = {}
  BY <1>2
<1> QED
  BY <1>1, <1>3, <1>4 DEF TestThread, AtMostOne

MasterSound == MB!TypeOK /\ MB!Owned /\ TestThread

\* The activity's thread comes to its first read, or the timer expires.
LEMMA BeginsSound ==
    ASSUME MasterSound, MB!ActivityBegins \/ MB!TimerExpires
    PROVE  MasterSound' /\ UNCHANGED <<mState, toMaster, toRemote>> /\ Rest(mReady, mReady', 0)
<1>1. MB!TypeOK' /\ MB!Owned'
  BY MasterTables, MB!ActivityBeginsTypes, MB!TimerExpiresTypes, MB!ActivityBeginsOwned,
     MB!TimerExpiresOwned DEF MasterSound
<1>2. CASE MB!ActivityBegins
  <2>1. /\ UNCHANGED <<mState, mReady, toMaster, toRemote>>
        /\ mActivity' \in {"cancelled", "reading"} /\ mActivity \in {"starting", "cancelled"}
    BY <1>2 DEF MB!ActivityBegins, MB!ActivityCancel, MB!ActivityRead
  <2>2. ResultsIn(mReads) = {} /\ ResultsIn(mReady) = {}
    BY <2>1 DEF MasterSound, TestThread
  <2>3. ResultsIn(mReads') = {}
    BY <1>2, <2>2, ReadArmed
    DEF MB!ActivityBegins, MB!ActivityCancel, MB!ActivityRead, MasterSound, ResultsIn
  <2>4. TestThread'
    BY <2>1, <2>2, <2>3 DEF TestThread, AtMostOne
  <2>5. Rest(mReady, mReady', 0)
    BY <2>1 DEF Rest, MasterSound, MB!TypeOK
  <2> QED
    BY <1>1, <2>1, <2>4, <2>5 DEF MasterSound
<1>3. CASE MB!TimerExpires
  <2>1. MB!Stays /\ UNCHANGED <<mReads, toMaster>> /\ MB!Leaves(mReady', 0)
    BY <1>3, MasterTables, MB!TimerEffect DEF MasterSound
  <2>2. MB!Outcome(0)
    BY <2>1 DEF MB!Outcome, MB!Stays
  <2> QED
    BY <1>1, <2>1, <2>2, OutcomeThread, MasterRest DEF MasterSound, MB!Stays
<1> QED
  BY <1>2, <1>3

\* What the two threads of the activities send while they work.
LEMMA SendSound ==
    ASSUME MasterSound, NEW b \in Bytes, toRemote' = Append(toRemote, b),
           UNCHANGED <<mState, mTimer, mReads, mReady, toMaster>>,
           \/ mActivity' = mActivity
           \/ mActivity' = "flooded" /\ mActivity = "reading" /\ mState = "ThroughputMode"
    PROVE  MasterSound' /\ toRemote' = toRemote \o <<b>>
<1>1. toRemote \in Seq(Bytes) /\ toMaster \in Seq(Bytes)
  BY LineTypes DEF MasterSound
<1>2. toRemote' \in Seq(Bytes) /\ toRemote' = toRemote \o <<b>>
  BY <1>1
<1>3. MB!TypeOK' /\ MB!Owned'
  BY <1>1, <1>2, Names DEF MasterSound, MB!TypeOK, MB!Owned, MB!Stages
<1>4. TestThread'
  BY DEF MasterSound, TestThread
<1> QED
  BY <1>2, <1>3, <1>4 DEF MasterSound

LEMMA FloodSound ==
    ASSUME MasterSound, M!Flood
    PROVE  /\ MasterSound' /\ UNCHANGED <<mState, mReady, toMaster, mDispatchers>>
           /\ mActivity' = "flooded" /\ mActivity = "reading"
           /\ toRemote' = toRemote \o <<"Data">> \/ toRemote' = toRemote
<1>1. "Data" \in Bytes
  BY DEF Bytes
<1>2. CASE UNCHANGED toRemote
  BY <1>2 DEF M!Flood, MasterSound, MB!TypeOK, MB!Owned, TestThread, MB!Stages
<1>3. CASE toRemote' = Append(toRemote, "Data")
  BY <1>1, <1>3, SendSound DEF M!Flood
<1> QED
  BY <1>2, <1>3 DEF M!Flood

LEMMA GetResultsSound ==
    ASSUME MasterSound, M!GetResults
    PROVE  /\ MasterSound' /\ UNCHANGED <<mState, mReady, toMaster, mDispatchers>>
           /\ mActivity' = "waiting" /\ mActivity = "flooded"
           /\ toRemote' = toRemote \o <<"EndData">>
<1>1. /\ UNCHANGED <<mState, mTimer, mReady, toMaster, mDispatchers>>
      /\ mActivity' = "waiting" /\ mActivity = "flooded"
      /\ mReads' = <<MB!Read("results", mState)>>
      /\ toRemote' = Append(toRemote, "EndData")
  BY DEF M!GetResults, M!FSM!Read, MB!Read
<1>2. /\ toRemote' \in Seq(Bytes) /\ toRemote' = toRemote \o <<"EndData">>
      /\ toMaster' \in Seq(Bytes)
  BY <1>1, LineTypes DEF MasterSound, Bytes
<1>3. mState \in M!MasterStates /\ MB!Read("results", mState) \in MB!ReadSet
  BY <1>1 DEF MasterSound, MB!TypeOK, MB!Read, MB!ReadSet, M!MasterStates
<1>4. mReads' \in Seq(MB!ReadSet)
  BY <1>1, <1>3
<1>5. MB!TypeOK'
  BY <1>1, <1>2, <1>4, Names DEF MasterSound, MB!TypeOK, MB!Stages
<1>6. MB!Owned'
  BY <1>1 DEF MasterSound, MB!Owned, MB!Read
<1>7. ResultsIn(mReads') = {1} /\ ResultsIn(mReady') = {}
  BY <1>1 DEF MasterSound, TestThread, ResultsIn, MB!Read
<1>8. TestThread'
  BY <1>1, <1>7 DEF MasterSound, TestThread, AtMostOne
<1> QED
  BY <1>1, <1>2, <1>5, <1>6, <1>8 DEF MasterSound

LEMMA ThroughputEndsSound ==
    ASSUME MasterSound, M!ThroughputEnds
    PROVE  /\ MasterSound' /\ UNCHANGED <<mState, mReady, toMaster, toRemote>>
           /\ mActivity' = "done" /\ mActivity = "ready"
           /\ mDispatchers' = mDispatchers + 1
<1>1. /\ UNCHANGED <<mState, mTimer, mReady, toMaster, toRemote>>
      /\ mActivity' = "done" /\ mActivity = "ready"
      /\ mDispatchers' = mDispatchers + 1
      /\ mReads' = Append(mReads, MB!Read("activity", mState))
  BY DEF M!ThroughputEnds, M!FSM!Read, MB!Read
<1>2. MB!Read("activity", mState) \in MB!ReadSet
  BY <1>1 DEF MasterSound, MB!TypeOK, MB!Read, MB!ReadSet
<1>3. mReads' \in Seq(MB!ReadSet)
  BY <1>1, <1>2 DEF MasterSound, MB!TypeOK
<1>4. MB!TypeOK'
  BY <1>1, <1>3 DEF MasterSound, MB!TypeOK, MB!Stages
<1>5. MB!Owned'
  <2>1. \A i \in DOMAIN mReady' : mReady'[i].kind = "activity" => mReady'[i].owner = mState
    BY <1>1 DEF MasterSound, MB!Owned
  <2> QED
    BY <1>1, <1>2, <2>1, MasterTables, MB!AgainOwned DEF MasterSound
<1>6. ResultsIn(mReads') = {} /\ ResultsIn(mReady') = {}
  BY <1>1, ReadArmed DEF MasterSound, TestThread
<1>7. TestThread'
  BY <1>1, <1>6 DEF MasterSound, TestThread, AtMostOne
<1> QED
  BY <1>1, <1>4, <1>5, <1>7 DEF MasterSound

LEMMA ReceiveResultsSound ==
    ASSUME MasterSound, M!ReceiveResults
    PROVE  /\ MasterSound' /\ UNCHANGED <<mState, toMaster, toRemote, mDispatchers>>
           /\ mActivity' = "ready" /\ Rest(mReady, mReady', 1)
           /\ 1 \in ResultsIn(mReady)
<1>1. /\ UNCHANGED <<mState, mTimer, mReads, toMaster, toRemote, mDispatchers>>
      /\ mActivity' = "ready" /\ mReady' = Tail(mReady)
      /\ mReady # <<>> /\ Head(mReady).kind = "results"
  BY DEF M!ReceiveResults, M!FSM!Runs
<1>2. 1 \in ResultsIn(mReady)
  BY <1>1, EmptySeq DEF MasterSound, MB!TypeOK, ResultsIn
<1>3. MB!Pops(mReady') /\ MB!Leaves(mReady', 1) /\ mReady' \in Seq(MB!HandlerSet)
  <2>1. MB!Pops(Tail(mReady))
    BY <1>1, MasterTables, MB!TailPops DEF MasterSound
  <2> QED
    BY <1>1, <2>1, MasterTables, MB!PopsLeaves DEF MB!Pops, MB!Leaves
<1>4. Rest(mReady, mReady', 1)
  BY <1>3, MasterRest DEF MasterSound
<1>5. mActivity = "waiting" /\ mState = "ThroughputMode" /\ ResultsIn(mReads) = {}
  BY <1>2 DEF MasterSound, TestThread
<1>6. MB!TypeOK'
  BY <1>1, <1>3, <1>5 DEF MasterSound, MB!TypeOK, MB!Stages
<1>7. MB!Owned'
  BY <1>1, <1>3 DEF MasterSound, MB!Owned, MB!Pops
<1>8. ResultsIn(mReady') = {}
  <2>1. \A i \in ResultsIn(mReady') : i + 1 \in ResultsIn(mReady) /\ i \in Nat \ {0}
    BY <1>4 DEF Rest, ResultsIn, Carriers
  <2>2. \A i \in ResultsIn(mReady) : i = 1
    BY <1>2 DEF MasterSound, TestThread, AtMostOne
  <2> QED
    BY <2>1, <2>2
<1>9. TestThread'
  BY <1>1, <1>5, <1>8 DEF TestThread, AtMostOne, ResultsIn
<1> QED
  BY <1>1, <1>2, <1>4, <1>6, <1>7, <1>9 DEF MasterSound

LEMMA TimeoutResultsSound ==
    ASSUME MasterSound, M!TimeoutReceiveResults \/ M!PingerSend
    PROVE  /\ MasterSound' /\ UNCHANGED <<mState, mActivity, mReady, toMaster, mDispatchers>>
           /\ \E b \in Bytes \ ControlBytes : toRemote' = toRemote \o <<b>>
<1>1. {"Data", "EndData"} \subseteq Bytes \ ControlBytes
  BY DEF Bytes, ControlBytes, UserCommands
<1>2. /\ UNCHANGED <<mState, mTimer, mReads, mReady, mActivity, toMaster, mDispatchers>>
      /\ \E b \in {"Data", "EndData"} : toRemote' = Append(toRemote, b)
  BY DEF M!TimeoutReceiveResults, M!PingerSend
<1> QED
  BY <1>1, <1>2, SendSound

\* The answer is taken from the line, with what was sent before it.
LEMMA ResultsLine ==
    ASSUME NEW s \in Seq(Bytes), NEW n \in DOMAIN s, s[n] = "Result"
    PROVE  LET t == [i \in 1..(n - 1) |-> "Data"] \o SubSeq(s, n + 1, Len(s)) IN
           /\ t \in Seq(Bytes)
           /\ \A b \in ControlBytes : Has(t, b) => Has(s, b)
           /\ LineNever("Result", "RemoteAck", s) => ~Has(t, "RemoteAck")
<1> DEFINE f == [i \in 1..(n - 1) |-> "Data"]
           g == SubSeq(s, n + 1, Len(s))
           t == f \o g
<1>1. n \in 1..Len(s) /\ Len(s) \in Nat /\ n \in Nat /\ "Data" \in Bytes
  BY DEF Bytes
<1>2. f \in Seq(Bytes) /\ Len(f) = n - 1 /\ \A i \in 1..Len(f) : f[i] = "Data"
  <2>1. f \in [1..(n - 1) -> Bytes] /\ n - 1 \in Nat
    BY <1>1
  <2>2. f \in Seq(Bytes)
    BY <2>1
  <2>3. DOMAIN f = 1..(n - 1)
    OBVIOUS
  <2>4. Len(f) = n - 1
    BY <2>1, <2>2, <2>3, LenProperties
  <2> QED
    BY <2>2, <2>4
<1>3. g \in Seq(Bytes) /\ \A i \in 1..Len(g) : i + n \in 1..Len(s) /\ g[i] = s[i + n]
  <2>1. \A i \in (n + 1)..Len(s) : s[i] \in Bytes
    BY <1>1
  <2>2. /\ g \in Seq(Bytes)
        /\ Len(g) = IF n + 1 <= Len(s) THEN Len(s) - n ELSE 0
        /\ \A i \in 1..(Len(s) - n) : g[i] = s[n + i]
    BY <1>1, <2>1
  <2> HIDE DEF g
  <2> QED
    BY <1>1, <2>2
<1> HIDE DEF f, g
<1>4. /\ t \in Seq(Bytes)
      /\ \A b : Has(t, b) => Has(f, b) \/ Has(g, b)
  BY <1>2, <1>3, ConcatProperties, HasConcat
<1>5. \A b \in ControlBytes : ~Has(f, b)
  <2>1. DOMAIN f = 1..Len(f) /\ "Data" \notin ControlBytes
    BY <1>2 DEF ControlBytes, UserCommands
  <2> QED
    BY <1>2, <2>1 DEF Has
<1>6. \A b : Has(g, b) => \E j \in DOMAIN s : n < j /\ s[j] = b
  <2> SUFFICES ASSUME NEW b, NEW i \in DOMAIN g, g[i] = b
               PROVE  \E j \in DOMAIN s : n < j /\ s[j] = b
    BY DEF Has
  <2>1. i \in 1..Len(g) /\ Len(g) \in Nat
    BY <1>3
  <2>2. i + n \in 1..Len(s) /\ n < i + n /\ s[i + n] = b
    BY <1>1, <1>3, <2>1
  <2> QED
    BY <2>2
<1>7. \A b \in ControlBytes : Has(t, b) => Has(s, b)
  BY <1>4, <1>5, <1>6 DEF Has
<1>8. LineNever("Result", "RemoteAck", s) => ~Has(t, "RemoteAck")
  <2>1. "RemoteAck" \in ControlBytes
    BY DEF ControlBytes
  <2> QED
    BY <1>4, <1>5, <1>6, <2>1 DEF LineNever
<1> QED
  BY <1>4, <1>7, <1>8 DEF f, g

LEMMA ResultsArriveSound ==
    ASSUME MasterSound, M!ResultsArrive
    PROVE  /\ MasterSound' /\ UNCHANGED <<mState, mActivity, toRemote, mDispatchers>>
           /\ mActivity = "waiting" /\ ResultsIn(mReady) = {}
           /\ Has(toMaster, "Result")
           /\ \A b \in ControlBytes : Has(toMaster', b) => Has(toMaster, b)
           /\ LineNever("Result", "RemoteAck", toMaster) => ~Has(toMaster', "RemoteAck")
           /\ \A i \in DOMAIN mReady' :
                 \/ i \in DOMAIN mReady /\ mReady'[i] = mReady[i]
                 \/ mReady'[i].kind = "results" /\ \A j \in DOMAIN mReady' : j <= i
<1> DEFINE h == MB!Handler("results", mState, "Result")
<1>1. /\ UNCHANGED <<mState, mTimer, mActivity, toRemote, mDispatchers>>
      /\ mReads # <<>> /\ Head(mReads).kind = "results"
      /\ mReads' = Tail(mReads)
      /\ mReady' = Append(mReady, h)
  BY DEF M!ResultsArrive, M!FSM!Handler, MB!Handler
<1>2. PICK n \in DOMAIN toMaster :
          /\ toMaster[n] = "Result"
          /\ toMaster' = [i \in 1..(n - 1) |-> "Data"] \o SubSeq(toMaster, n + 1, Len(toMaster))
  BY DEF M!ResultsArrive
<1>3. /\ toMaster \in Seq(Bytes) /\ toRemote \in Seq(Bytes)
      /\ mReads \in Seq(MB!ReadSet) /\ mReady \in Seq(MB!HandlerSet)
  BY LineTypes DEF MasterSound, MB!TypeOK
<1>4. /\ toMaster' \in Seq(Bytes)
      /\ \A b \in ControlBytes : Has(toMaster', b) => Has(toMaster, b)
      /\ LineNever("Result", "RemoteAck", toMaster) => ~Has(toMaster', "RemoteAck")
      /\ Has(toMaster, "Result")
  BY <1>2, <1>3, ResultsLine DEF Has
<1>5. /\ Len(mReads) \in Nat \ {0} /\ DOMAIN mReads = 1..Len(mReads)
      /\ mReads' \in Seq(MB!ReadSet)
      /\ DOMAIN mReads' = 1..(Len(mReads) - 1)
      /\ \A i \in 1..(Len(mReads) - 1) : mReads'[i] = mReads[i + 1]
      /\ 1 \in ResultsIn(mReads) /\ mReads[1].owner \in M!MasterStates
  <2>1. /\ Len(mReads) \in Nat \ {0} /\ DOMAIN mReads = 1..Len(mReads)
        /\ mReads' \in Seq(MB!ReadSet)
        /\ DOMAIN mReads' = 1..(Len(mReads) - 1)
        /\ \A i \in 1..(Len(mReads) - 1) : mReads'[i] = mReads[i + 1]
        /\ Head(mReads) = mReads[1] /\ mReads[1] \in MB!ReadSet
    BY <1>1, <1>3, EmptySeq, HeadTailProperties, LenProperties
  <2>2. 1 \in ResultsIn(mReads) /\ mReads[1].owner \in M!MasterStates
    BY <1>1, <2>1 DEF ResultsIn, MB!ReadSet
  <2> QED
    BY <2>1, <2>2
<1>6. /\ mActivity = "waiting" /\ ResultsIn(mReady) = {} /\ mState = "ThroughputMode"
      /\ mReads[1].owner = mState
  BY <1>5 DEF MasterSound, TestThread, MB!Owned, ResultsIn
<1>7. ResultsIn(mReads') = {}
  <2>1. \A i \in ResultsIn(mReads) : i = 1
    BY <1>5 DEF MasterSound, TestThread, AtMostOne
  <2>2. \A i \in ResultsIn(mReads') : i + 1 \in ResultsIn(mReads) /\ i \in Nat \ {0}
    BY <1>5 DEF ResultsIn
  <2> QED
    BY <2>1, <2>2
<1>8. h \in MB!HandlerSet /\ h.kind = "results"
  BY <1>5, <1>6, Names DEF MB!Handler, MB!HandlerSet, Bytes
<1> HIDE DEF h
<1>9. /\ Len(mReady) \in Nat /\ DOMAIN mReady = 1..Len(mReady)
      /\ mReady' \in Seq(MB!HandlerSet)
      /\ DOMAIN mReady' = 1..(Len(mReady) + 1)
      /\ \A i \in 1..Len(mReady) : mReady'[i] = mReady[i]
      /\ mReady'[Len(mReady) + 1] = h
  BY <1>1, <1>3, <1>8, AppendProperties
<1>10. MB!TypeOK'
  BY <1>1, <1>3, <1>4, <1>5, <1>9, Names DEF MasterSound, MB!TypeOK
<1>11. MB!Owned'
  BY <1>1, <1>5, <1>8, <1>9 DEF MasterSound, MB!Owned
<1>12. TestThread'
  <2>1. ResultsIn(mReady') = {Len(mReady) + 1}
    BY <1>6, <1>8, <1>9 DEF ResultsIn
  <2> QED
    BY <1>1, <1>6, <1>7, <2>1 DEF TestThread, AtMostOne
<1> QED
  BY <1>1, <1>4, <1>6, <1>8, <1>9, <1>10, <1>11, <1>12 DEF MasterSound

\* The master's read, its handlers and its commands.
LEMMA ReadSound == ASSUME MasterSound, MB!ReadCompletes PROVE MasterSound'
BY MasterTables, MB!ReadCompletesTypes, MB!ReadCompletesOwned, ReadThread DEF MasterSound

LEMMA HandleSound == ASSUME MasterSound, MB!Handle PROVE MasterSound'
BY MasterTables, MB!HandleTypes, MB!HandleOwned, MB!HandleOutcome, OutcomeThread DEF MasterSound

LEMMA CommandSound ==
    ASSUME MasterSound, NEW c \in UserCommands \cup {"EndTest"}, M!FSM!Command(c)
    PROVE  MasterSound'
BY SameMaster, MasterTables, MB!CommandTypes, MB!CommandOwned, MB!CommandOutcome, OutcomeThread
DEF MasterSound

\* Any step of the master's process.
MasterStep ==
    \/ M!StreamStep \/ M!IoStep \/ M!ActivityStep \/ M!DispatchEnd \/ M!TimerStep
    \/ M!TimeoutReceiveResults \/ M!PingerSend \/ \E c \in Commands : M!Command(c)

LEMMA MasterStepSound == ASSUME MasterSound, MasterStep PROVE MasterSound'
<1>1. CASE M!StreamStep
  BY <1>1, SameMaster, ResultsArriveSound, ReadSound DEF M!StreamStep
<1>2. CASE M!IoStep
  BY <1>2, SameMaster, ReceiveResultsSound, HandleSound DEF M!IoStep
<1>3. CASE M!ActivityStep
  BY <1>3, SameMaster, BeginsSound, FloodSound, GetResultsSound, ThroughputEndsSound
  DEF M!ActivityStep, M!ActivityWorks
<1>4. CASE M!DispatchEnd
  BY <1>4, CommandSound DEF M!DispatchEnd, UserCommands
<1>5. CASE M!TimerStep
  BY <1>5, SameMaster, BeginsSound DEF M!TimerStep
<1>6. CASE M!TimeoutReceiveResults \/ M!PingerSend
  BY <1>6, TimeoutResultsSound
<1>7. CASE \E c \in Commands : M!Command(c)
  BY <1>7, SystemAssumption, CommandSound DEF M!Command
<1> QED
  BY <1>1, <1>2, <1>3, <1>4, <1>5, <1>6, <1>7 DEF MasterStep

RemoteStep ==
    \/ R!FSM!ReadCompletes \/ R!FSM!Handle \/ R!FSM!ActivityBegins \/ R!FSM!TimerExpires

LEMMA RemoteStepSound ==
    ASSUME RB!TypeOK, RB!Owned, RemoteStep
    PROVE  RB!TypeOK' /\ RB!Owned'
BY SameRemote, RemoteTables, RB!ReadCompletesTypes, RB!HandleTypes, RB!ActivityBeginsTypes,
   RB!TimerExpiresTypes, RB!ReadCompletesOwned, RB!HandleOwned, RB!ActivityBeginsOwned,
   RB!TimerExpiresOwned DEF RemoteStep

\* Every step of the system is the master's, the remote's or the line's.
SystemStep ==
    \/ MasterStep /\ UNCHANGED remoteVars
    \/ RemoteStep /\ UNCHANGED masterVars
    \/ Lose /\ UNCHANGED <<masterVars, remoteVars>>
    \/ UNCHANGED <<masterVars, remoteVars, toMaster, toRemote>>

LEMMA WhoseStep == ASSUME [Next]_vars PROVE SystemStep
BY DEF SystemStep, vars, Next, MasterStream, MasterIo, MasterActivity, MasterEnds, MasterTimer, ResultsTimer, Ping,
       RemoteStream, RemoteIo, RemoteActivity, RemoteTimer, Lose, User, Master, Remote,
       MasterStep, RemoteStep

LEMMA SystemSound == ASSUME Sound, SystemStep PROVE Sound'
<1>1. toMaster \in Seq(Bytes) /\ toRemote \in Seq(Bytes)
  BY LineTypes DEF Sound
<1>2. CASE MasterStep /\ UNCHANGED remoteVars
  <2>1. MasterSound'
    BY <1>2, MasterStepSound DEF Sound, MasterSound
  <2>2. toMaster' \in Seq(Bytes) /\ toRemote' \in Seq(Bytes)
    BY <2>1, Names DEF MasterSound, MB!TypeOK
  <2> QED
    BY <1>2, <2>1, <2>2, RemoteAlone DEF Sound, MasterSound
<1>3. CASE RemoteStep /\ UNCHANGED masterVars
  <2>1. RB!TypeOK' /\ RB!Owned'
    BY <1>3, RemoteStepSound DEF Sound
  <2>2. toMaster' \in Seq(Bytes) /\ toRemote' \in Seq(Bytes)
    BY <2>1, Names DEF RB!TypeOK
  <2> QED
    BY <1>3, <2>1, <2>2, MasterAlone DEF Sound
<1>4. CASE Lose /\ UNCHANGED <<masterVars, remoteVars>>
  <2>1. toMaster' \in Seq(Bytes) /\ toRemote' \in Seq(Bytes)
    BY <1>1, <1>4, TailLine DEF Lose
  <2> QED
    BY <1>4, <2>1, MasterAlone, RemoteAlone DEF Sound
<1>5. CASE UNCHANGED <<masterVars, remoteVars, toMaster, toRemote>>
  BY <1>1, <1>5, MasterAlone, RemoteAlone DEF Sound
<1> QED
  BY <1>2, <1>3, <1>4, <1>5 DEF SystemStep

LEMMA SoundStep == ASSUME Sound, [Next]_vars PROVE Sound'
BY WhoseStep, SystemSound

LEMMA SoundInit == Init => Sound
<1> SUFFICES ASSUME Init PROVE Sound
  OBVIOUS
<1>1. MB!Init /\ RB!Init
  BY SameMaster, SameRemote DEF Init, M!Init, R!Init
<1>2. MB!TypeOK /\ MB!Owned /\ RB!TypeOK /\ RB!Owned
  BY <1>1, MasterTables, RemoteTables, MB!InitTypes, RB!InitTypes, MB!InitOwned, RB!InitOwned
<1>3. TestThread
  BY <1>1 DEF MB!Init, MB!Read, TestThread, ResultsIn, AtMostOne
<1> QED
  BY <1>2, <1>3 DEF Sound

LEMMA SoundHolds == Spec => []Sound
BY SoundInit, SoundStep, PTL DEF Spec

\* The counters.
Counters ==
    /\ mDispatchers \in 0..M!MaxDispatchers
    /\ losses \in 0..MaxLoss
    /\ commands \in 0..MaxCommands
    /\ undefined \in BOOLEAN

\* Both machines keep their types while they talk to each other and the threads
\* of the throughput test work: an activity exists exactly in the activity
\* states, and a timer runs only in the timer states.
THEOREM Types == Spec => []TypeOK
<1>1. Init => Counters
  <2> SUFFICES ASSUME Init PROVE Counters
    OBVIOUS
  <2>1. mDispatchers = 0 /\ losses = 0 /\ commands = 0
    BY DEF Init, M!Init
  <2>2. undefined \in BOOLEAN
    BY DEF Init
  <2> QED
    BY <2>1, <2>2, SystemAssumption DEF Counters, M!MaxDispatchers
<1>2. Counters /\ [Next]_vars => Counters'
  <2> SUFFICES ASSUME Counters, [Next]_vars PROVE Counters'
    OBVIOUS
  <2>1. MaxLoss \in Nat /\ MaxCommands \in Nat
    BY SystemAssumption
  <2>2. mDispatchers' \in 0..M!MaxDispatchers
    <3>1. \/ mDispatchers' = mDispatchers
          \/ mDispatchers > 0 /\ mDispatchers' = mDispatchers - 1
          \/ mDispatchers < M!MaxDispatchers /\ mDispatchers' = mDispatchers + 1
      BY DEF Next, vars, masterVars, MasterStream, MasterIo, MasterActivity, MasterEnds,
             MasterTimer, ResultsTimer, Ping, RemoteStream, RemoteIo, RemoteActivity, RemoteTimer,
             Lose, User, Master, Remote, M!StreamStep, M!ResultsArrive, M!IoStep,
             M!ReceiveResults, M!ActivityStep, M!ActivityWorks, M!Flood, M!GetResults,
             M!ThroughputEnds, M!DispatchEnd, M!TimerStep, M!TimeoutReceiveResults, M!PingerSend,
             M!Command
    <3> QED
      BY <3>1 DEF Counters, M!MaxDispatchers
  <2>3. /\ losses' = losses \/ (losses < MaxLoss /\ losses' = losses + 1)
        /\ commands' = commands \/ (commands < MaxCommands /\ commands' = commands + 1)
    BY DEF Next, vars, budgets, MasterStream, MasterIo, MasterActivity, MasterEnds,
           MasterTimer, ResultsTimer, Ping, RemoteStream, RemoteIo, RemoteActivity, RemoteTimer,
           Lose, User, Master, Remote
  <2>4. undefined' \in BOOLEAN
    BY DEF Counters, Next, vars, MasterStream, MasterIo, MasterActivity, MasterEnds,
           MasterTimer, ResultsTimer, Ping, RemoteStream, RemoteIo, RemoteActivity, RemoteTimer,
           Lose, User, Master, Remote
  <2> QED
    BY <2>1, <2>2, <2>3, <2>4 DEF Counters
<1>3. Sound /\ Counters => TypeOK
  BY SameMaster, SameRemote DEF Sound, Counters, TypeOK
<1> QED
  BY <1>1, <1>2, <1>3, SoundHolds, PTL DEF Spec

-------------------------------------------------------------------------------
(***************************************************************************)
(* The phases of a test under the remote's steps.                          *)
(***************************************************************************)

SessionStep == [TS!Next]_(TS!vars)

\* While no freed memory is used, the session sees the states themselves.
LEMMA Seen ==
    ASSUME ~undefined
    PROVE  /\ Gone(mState) <=> mState = "Exited"
           /\ Gone(rState) <=> rState = "Exited"
           /\ UNCHANGED <<mState, rState, undefined>> => SessionStep
BY DEF Gone, SessionStep, TS!vars

\* The names of the states of a test.
LEMMA StateNames ==
    ASSUME NEW t \in TS!Tests
    PROVE  /\ TS!Asking(t) \in {"SentAvailableModeCommand", "SentThroughputModeCommand"}
           /\ TS!Mode(t) \in {"AvailabilityMode", "ThroughputMode"}
           /\ TS!Accepted(t) \in {"AvailabilityCommandReceived", "ThroughputCommandReceived"}
           /\ TS!Serving(t) \in R!RemoteActivities
           /\ Asks(t) \in {"AvailabilityModeCommand", "ThroughputModeCommand"}
           /\ TS!Accepted(t) \notin R!RemoteActivities
           /\ TS!Accepted(t) \in R!RemoteTimers /\ TS!Serving(t) \notin R!RemoteTimers
BY DEF TS!Tests, TS!Asking, TS!Mode, TS!Accepted, TS!Serving, Asks, R!RemoteActivities,
       R!RemoteTimers

\* The two tests have no state and no command in common.
LEMMA TestsDiffer ==
    ASSUME NEW t \in TS!Tests, NEW u \in TS!Tests
    PROVE  /\ TS!Asking(t) = TS!Asking(u) => t = u
           /\ TS!Mode(t) = TS!Mode(u) => t = u
           /\ TS!Accepted(t) = TS!Accepted(u) => t = u
           /\ TS!Serving(t) = TS!Serving(u) => t = u
           /\ Asks(t) = Asks(u) => t = u
BY DEF TS!Tests, TS!Asking, TS!Mode, TS!Accepted, TS!Serving, Asks

\* The remote stays where it is, and may answer with data or results.
LEMMA RemoteKeeps ==
    ASSUME Phase, MB!TypeOK, UNCHANGED <<mState, mReady, mActivity, rState, toRemote>>,
           NEW d \in {0, 1}, Rest(rReady, rReady', d),
           NEW w \in Seq(Bytes), toMaster' = toMaster \o w,
           \A b \in ControlBytes : ~Has(w, b),
           rState \notin R!RemoteActivities => w = <<>>
    PROVE  Phase'
<1>1. toMaster \in Seq(Bytes) /\ "RemoteAck" \in ControlBytes
  BY LineTypes DEF ControlBytes
<1>2. /\ \A S : ToRemote(S) => ToRemote(S)'
      /\ \A k : Owners(rReady, k) => Owners(rReady', k)
      /\ OwnLast(rReady, rState) => OwnLast(rReady', rState')
      /\ \A a, b : Never(a, b, rReady, toRemote) => Never(a, b, rReady', toRemote')
  BY RestKeeps DEF ToRemote
<1>3. \A S : ToMaster(S) => ToMaster(S)'
  BY <1>1, SentKeeps DEF ToMaster
<1>4. /\ LineNever("Result", "RemoteAck", toMaster) => LineNever("Result", "RemoteAck", toMaster')
      /\ NoAckBehindResults(mReady, toMaster) => NoAckBehindResults(mReady', toMaster')
  BY <1>1, SentKeeps, LineNeverConcat
<1>5. rState \notin R!RemoteActivities => toMaster' = toMaster
  BY <1>1
<1>6. \A m, r : Ends(m, r) => Ends(m, r)'
  BY DEF Ends
<1>7. \A r : Rests(r) => Rests(r)'
  BY <1>2, <1>3, <1>6 DEF Rests
<1>8. Ended => Ended'
  BY <1>2, <1>3, <1>6 DEF Ended
<1>9. Over => Over'
  BY <1>2 DEF Over
<1>10. ASSUME NEW t \in TS!Tests, Asked(t) PROVE Asked(t)'
  BY <1>2, <1>3, <1>6, <1>10 DEF Asked
<1>11. ASSUME NEW t \in TS!Tests, AcceptedTest(t) PROVE AcceptedTest(t)'
  <2>1. toMaster' = toMaster
    BY <1>5, <1>11, StateNames DEF AcceptedTest, Ends
  <2> QED
    BY <1>2, <1>3, <1>6, <1>11, <2>1 DEF AcceptedTest
<1>12. ASSUME NEW t \in TS!Tests, Begun(t) PROVE Begun(t)'
  <2>1. toMaster' = toMaster
    BY <1>5, <1>12, StateNames DEF Begun, Ends
  <2> QED
    BY <1>2, <1>3, <1>6, <1>12, <2>1 DEF Begun
<1>13. ASSUME NEW t \in TS!Tests, Running(t) PROVE Running(t)'
  BY <1>2, <1>3, <1>4, <1>13 DEF Running, Serves
<1>14. ASSUME NEW t \in TS!Tests, Ending(t) PROVE Ending(t)'
  BY <1>2, <1>3, <1>14 DEF Ending, Serves
<1> QED
  BY <1>7, <1>8, <1>9, <1>10, <1>11, <1>12, <1>13, <1>14 DEF Phase

\* A step from one pair of states to another, as the session sees it.
LEMMA SessionSees ==
    ASSUME ~undefined, ~undefined', NEW m, NEW r, NEW m1, NEW r1,
           Ends(m, r), Ends(m1, r1)', "Exited" \notin {m, r, m1, r1}
    PROVE  TS!At(m, r) /\ TS!Become(m1, r1)
BY DEF Ends, Gone, TS!At, TS!Become

\* Only what is under way is dispatched.
LEMMA HeadPending ==
    ASSUME NEW q, NEW s, NEW S, NEW on \in ControlBytes, Only(S, q, s), HeadIs(q, on)
    PROVE  on \in S
BY HeadQueued DEF Only, Pending

\* A machine has no handler of a state it has not been in.
LEMMA OwnLastFresh ==
    ASSUME NEW q, NEW k, Owners(q, k), NEW st, st \notin k
    PROVE  OwnLast(q, st)
BY DEF Owners, OwnLast

\* The remote acknowledges, or says nothing.
LEMMA AckSent ==
    ASSUME toMaster \in Seq(Bytes), mReady' = mReady,
           toMaster' = toMaster \o <<"RemoteAck">>
    PROVE  /\ \A S : ToMaster(S) => ToMaster(S \cup {"RemoteAck"})'
           /\ After("RemoteAck", "Result", mReady, toMaster)
                 => After("RemoteAck", "Result", mReady', toMaster')
           /\ ~Has(toMaster, "Result") => ~Has(toMaster', "Result")
<1> DEFINE w == <<"RemoteAck">>
<1>1. "RemoteAck" \in Bytes /\ "RemoteAck" # "Result"
  BY DEF Bytes, ControlBytes
<1>2. w \in Seq(Bytes) /\ \A c : Has(w, c) => c = "RemoteAck"
  BY <1>1, ShortLines
<1>3. toMaster' = toMaster \o w
  OBVIOUS
<1> HIDE DEF w
<1>4. \A S : Only(S, mReady, toMaster) => Only(S \cup {"RemoteAck"}, mReady, toMaster \o w)
  <2> SUFFICES ASSUME NEW S, Only(S, mReady, toMaster)
               PROVE  Only(S \cup {"RemoteAck"}, mReady, toMaster \o w)
    OBVIOUS
  <2>1. Only(S \cup {"RemoteAck"}, mReady, toMaster)
    BY DEF Only
  <2> QED
    BY <1>2, <2>1, SentKeeps
<1>5. After("RemoteAck", "Result", mReady, toMaster)
         => After("RemoteAck", "Result", mReady, toMaster \o w)
  BY <1>1, <1>2, SentKeeps
<1>6. ~Has(toMaster, "Result") => ~Has(toMaster \o w, "Result")
  BY <1>1, <1>2, HasConcat
<1> QED
  BY <1>3, <1>4, <1>5, <1>6 DEF ToMaster

\* The remote takes a transition: it accepts a test, joins it, accepts its end
\* or leaves it exactly when the master is one step ahead, and otherwise only
\* repeats itself.
LEMMA RemoteMoves ==
    ASSUME ~undefined, ~undefined', Phase, MB!TypeOK,
           NEW on \in ControlBytes \cup {"Timeout"}, on = "Timeout" \/ HeadIs(rReady, on),
           RemoteMoved(on), Rest(rReady, rReady', 1),
           UNCHANGED <<masterVars, toRemote>>
    PROVE  Phase' /\ SessionStep
<1>1. /\ mState' = mState /\ mReady' = mReady /\ mActivity' = mActivity
      /\ toRemote' = toRemote /\ toMaster \in Seq(Bytes)
  BY LineTypes DEF masterVars
<1>2. /\ RemoteGoes(rState, on, rState')
      /\ rState' \in R!RemoteTimers => toMaster' = toMaster \o <<"RemoteAck">>
      /\ rState' \notin R!RemoteTimers => toMaster' = toMaster
      /\ \A i \in DOMAIN rReady' : rReady'[i].kind # "activity"
  BY DEF RemoteMoved
<1>3. /\ \A S : ToRemote(S) => ToRemote(S)'
      /\ \A k : Owners(rReady, k) => Owners(rReady', k)
      /\ \A st : OwnLast(rReady, st) => OwnLast(rReady', st)
      /\ \A a, b : Never(a, b, rReady, toRemote) => Never(a, b, rReady', toRemote')
  BY <1>1, RestKeeps DEF ToRemote
<1>4. \A S : ToRemote(S) => on = "Timeout" \/ on \in S
  BY HeadPending DEF ToRemote
<1>5. /\ \A S : ToMaster(S) => ToMaster(S \cup {"RemoteAck"})'
      /\ rState' \notin R!RemoteTimers => \A S : ToMaster(S) => ToMaster(S)'
  <2>1. \A S : Only(S, mReady, toMaster) => Only(S \cup {"RemoteAck"}, mReady, toMaster)
    BY DEF Only
  <2> QED
    BY <1>1, <1>2, <2>1, AckSent DEF ToMaster
<1>6. \A a, b : /\ on = a /\ a \in ControlBytes /\ Never(a, b, rReady, toRemote)
                => ~Pending(rReady', toRemote', b)
  <2> SUFFICES ASSUME NEW a, NEW b, on = a, a \in ControlBytes, Never(a, b, rReady, toRemote)
               PROVE  ~Pending(rReady', toRemote', b)
    OBVIOUS
  <2>1. HeadIs(rReady, a)
    BY DEF ControlBytes, UserCommands
  <2> QED
    BY <1>1, <1>2, <2>1, HeadNever DEF HeadIs
<1>7. rState' = rState => SessionStep
  BY <1>1, Seen DEF Gone, SessionStep, TS!vars
<1>8. CASE Rests("RemoteIdle")
  <2>1. rState = "RemoteIdle" /\ on \in {"Timeout", "MasterAck", "EndModeCommand"}
    BY <1>4, <1>8 DEF Rests, Ends
  <2> QED
    BY <1>2, <2>1, StateNames DEF RemoteGoes, R!RemoteActivities
<1>9. CASE Rests("EndModeReceived")
  <2>1. rState = "EndModeReceived" /\ mState = "Idle"
    BY <1>9 DEF Rests, Ends
  <2>2. rState' = rState \/ rState' = "RemoteIdle"
    BY <1>2, <2>1, StateNames DEF RemoteGoes, R!RemoteActivities
  <2>3. ToRemote({"MasterAck", "EndModeCommand"})' /\ ToMaster({"RemoteAck"})'
    <3>1. {"RemoteAck"} \cup {"RemoteAck"} = {"RemoteAck"}
      OBVIOUS
    <3> QED
      BY <1>3, <1>5, <1>9, <3>1 DEF Rests
  <2>4. CASE rState' = rState
    BY <1>1, <1>7, <2>1, <2>3, <2>4 DEF Rests, Ends, Phase
  <2>5. CASE rState' = "RemoteIdle"
    <3>1. Rests("RemoteIdle")'
      BY <1>1, <2>1, <2>3, <2>5 DEF Rests, Ends
    <3>2. TS!Leave
      BY <1>9, <3>1, SessionSees DEF Rests, TS!Leave
    <3> QED
      BY <3>1, <3>2 DEF Phase, SessionStep, TS!Next
  <2> QED
    BY <2>2, <2>4, <2>5
<1>10. CASE Ended
  <2>1. rState = "EndModeReceived" /\ on # "MasterAck"
    BY <1>4, <1>10 DEF Ended, Ends
  <2>2. rState' = rState
    BY <1>2, <2>1, StateNames DEF RemoteGoes, R!RemoteActivities
  <2>3. {"RemoteAck"} \cup {"RemoteAck"} = {"RemoteAck"}
    OBVIOUS
  <2>4. Ended'
    BY <1>1, <1>3, <1>5, <1>10, <2>2, <2>3 DEF Ended, Ends
  <2> QED
    BY <1>7, <2>2, <2>4 DEF Phase
<1>11. CASE Over
  <2>1. on \in {"Timeout", "EndTest"}
    BY <1>4, <1>11 DEF Over
  <2>2. rState' = rState
    BY <1>2, <2>1, StateNames DEF RemoteGoes
  <2>3. Over'
    BY <1>1, <1>3, <1>11 DEF Over
  <2> QED
    BY <1>7, <2>2, <2>3 DEF Phase
<1>12. ASSUME NEW t \in TS!Tests, Asked(t) PROVE Phase' /\ SessionStep
  <2>1. rState = "RemoteIdle" /\ on \in {"Timeout", Asks(t)}
    BY <1>4, <1>12 DEF Asked, Ends
  <2>2. rState' = TS!Accepted(t)
    BY <1>2, <2>1, StateNames, TestsDiffer DEF RemoteGoes, R!RemoteActivities
  <2>3. rState' \in R!RemoteTimers /\ rState' # "RemoteIdle"
    BY <2>2, StateNames
  <2>4. ToMaster({"RemoteAck"})'
    <3>1. {} \cup {"RemoteAck"} = {"RemoteAck"}
      OBVIOUS
    <3> QED
      BY <1>5, <1>12, <3>1 DEF Asked
  <2>5. After("RemoteAck", "Result", mReady', toMaster')
    <3>1. ~Pending(mReady, toMaster, "RemoteAck")
      BY <1>12 DEF Asked, ToMaster, Only, ControlBytes
    <3>2. After("RemoteAck", "Result", mReady, toMaster)
      BY <3>1, FreshNever DEF Never
    <3> QED
      BY <1>1, <1>2, <2>3, <3>2, AckSent
  <2>6. /\ Owners(rReady', {"RemoteIdle"})
        /\ Owners(rReady', {"RemoteIdle", TS!Accepted(t)})
        /\ OwnLast(rReady', rState')
    <3>1. Owners(rReady', {"RemoteIdle"})
      BY <1>3, <1>12 DEF Asked
    <3>2. Owners(rReady', {"RemoteIdle", TS!Accepted(t)})
      BY <3>1 DEF Owners
    <3> QED
      BY <2>3, <3>1, <3>2, OwnLastFresh
  <2>7. AcceptedTest(t)'
    BY <1>1, <1>3, <1>12, <2>2, <2>4, <2>5, <2>6 DEF AcceptedTest, Asked, Ends
  <2>8. TS!Accept(t)
    BY <1>12, <2>7, SessionSees, StateNames DEF Asked, AcceptedTest, TS!Accept
  <2> QED
    BY <2>7, <2>8 DEF Phase, SessionStep, TS!Next
<1>13. ASSUME NEW t \in TS!Tests, AcceptedTest(t) PROVE Phase' /\ SessionStep
  <2>1. rState = TS!Accepted(t) /\ on \in {"Timeout", Asks(t)}
    BY <1>4, <1>13 DEF AcceptedTest, Ends
  <2>2. rState' = rState
    BY <1>2, <2>1, StateNames DEF RemoteGoes, R!RemoteActivities
  <2>3. {"RemoteAck"} \cup {"RemoteAck"} = {"RemoteAck"} /\ rState' \in R!RemoteTimers
    BY <2>1, <2>2, StateNames
  <2>4. After("RemoteAck", "Result", mReady', toMaster')
    BY <1>1, <1>2, <1>13, <2>3, AckSent DEF AcceptedTest
  <2>5. AcceptedTest(t)'
    BY <1>1, <1>3, <1>5, <1>13, <2>2, <2>3, <2>4 DEF AcceptedTest, Ends
  <2> QED
    BY <1>7, <2>2, <2>5 DEF Phase
<1>14. ASSUME NEW t \in TS!Tests, Begun(t) PROVE Phase' /\ SessionStep
  <2>1. rState = TS!Accepted(t) /\ on \in {"Timeout", Asks(t), "MasterAck"}
    BY <1>4, <1>14 DEF Begun, Ends
  <2>2. \/ rState' = rState
        \/ on = "MasterAck" /\ rState' = TS!Serving(t)
    BY <1>2, <2>1, StateNames, TestsDiffer DEF RemoteGoes, R!RemoteActivities
  <2>3. {"RemoteAck"} \cup {"RemoteAck"} = {"RemoteAck"}
    OBVIOUS
  <2>4. CASE rState' = rState
    <3>1. ~Has(toMaster', "Result")
      BY <1>1, <1>2, <1>14, <2>1, <2>4, AckSent, StateNames DEF Begun
    <3>2. Begun(t)'
      BY <1>1, <1>3, <1>5, <1>14, <2>3, <2>4, <3>1 DEF Begun, Ends
    <3> QED
      BY <1>7, <2>4, <3>2 DEF Phase
  <2>5. CASE on = "MasterAck" /\ rState' = TS!Serving(t)
    <3>1. TS!Serving(t) \notin {"RemoteIdle", TS!Accepted(t)} /\ rState' \notin R!RemoteTimers
      BY <2>5, StateNames DEF R!RemoteActivities
    <3>2. ToRemote({"MasterAck"})'
      <4>1. ToRemote({Asks(t), "MasterAck"})'
        BY <1>3, <1>14 DEF Begun
      <4>2. ~Pending(rReady', toRemote', Asks(t))
        BY <1>6, <1>14, <2>5 DEF Begun, ControlBytes
      <4> QED
        BY <4>1, <4>2 DEF ToRemote, Only
    <3>3. /\ Owners(rReady', {"RemoteIdle", TS!Accepted(t), TS!Serving(t)})
          /\ OwnLast(rReady', rState')
      <4>1. Owners(rReady', {"RemoteIdle", TS!Accepted(t)})
        BY <1>3, <1>14 DEF Begun
      <4>2. Owners(rReady', {"RemoteIdle", TS!Accepted(t), TS!Serving(t)})
        BY <4>1 DEF Owners
      <4> QED
        BY <2>5, <3>1, <4>1, <4>2, OwnLastFresh
    <3>4. Serves(t)'
      BY <2>5, <3>3 DEF Serves
    <3>5. /\ toMaster' = toMaster /\ ToMaster({"RemoteAck"})'
          /\ LineNever("Result", "RemoteAck", toMaster')
          /\ NoAckBehindResults(mReady', toMaster')
      BY <1>1, <1>2, <1>5, <1>14, <3>1
      DEF Begun, LineNever, NoAckBehindResults, ResultsIn, Has
    <3>6. Running(t)'
      BY <1>1, <1>14, <3>2, <3>4, <3>5 DEF Running, Begun, Ends
    <3>7. Ends(TS!Mode(t), TS!Serving(t))'
      BY <3>6 DEF Running, Serves, Ends
    <3>8. TS!Join(t)
      BY <1>14, <3>7, SessionSees, StateNames DEF Begun, TS!Join, R!RemoteActivities
    <3> QED
      BY <3>6, <3>8 DEF Phase, SessionStep, TS!Next
  <2> QED
    BY <2>2, <2>4, <2>5
<1>15. ASSUME NEW t \in TS!Tests, Running(t) PROVE Phase' /\ SessionStep
  <2>1. rState = TS!Serving(t) /\ on \in {"Timeout", "MasterAck"}
    BY <1>4, <1>15 DEF Running, Serves
  <2>2. rState' = rState /\ rState' \notin R!RemoteTimers
    BY <1>2, <2>1, StateNames DEF RemoteGoes, R!RemoteActivities
  <2>3. Serves(t)'
    BY <1>3, <1>15, <2>2 DEF Running, Serves
  <2>4. Running(t)'
    BY <1>1, <1>2, <1>3, <1>5, <1>15, <2>2, <2>3 DEF Running
  <2> QED
    BY <1>7, <2>2, <2>4 DEF Phase
<1>16. ASSUME NEW t \in TS!Tests, Ending(t) PROVE Phase' /\ SessionStep
  <2>1. rState = TS!Serving(t) /\ on \in {"Timeout", "MasterAck", "EndModeCommand"}
    BY <1>4, <1>16 DEF Ending, Serves
  <2>2. \/ rState' = rState /\ rState' \notin R!RemoteTimers
        \/ on = "EndModeCommand" /\ rState' = "EndModeReceived"
    BY <1>2, <2>1, StateNames DEF RemoteGoes, R!RemoteActivities
  <2>3. CASE rState' = rState /\ rState' \notin R!RemoteTimers
    <3>1. Serves(t)'
      BY <1>3, <1>16, <2>3 DEF Ending, Serves
    <3>2. Ending(t)'
      BY <1>1, <1>3, <1>5, <1>16, <2>3, <3>1 DEF Ending
    <3> QED
      BY <1>7, <2>3, <3>2 DEF Phase
  <2>4. CASE on = "EndModeCommand" /\ rState' = "EndModeReceived"
    <3>1. ToRemote({"EndModeCommand"})'
      <4>1. ToRemote({"MasterAck", "EndModeCommand"})'
        BY <1>3, <1>16 DEF Ending
      <4>2. ~Pending(rReady', toRemote', "MasterAck")
        BY <1>6, <1>16, <2>4 DEF Ending, ControlBytes, UserCommands
      <4> QED
        BY <4>1, <4>2 DEF ToRemote, Only
    <3>2. ToMaster({"RemoteAck"})'
      <4>1. {} \cup {"RemoteAck"} = {"RemoteAck"}
        OBVIOUS
      <4> QED
        BY <1>5, <1>16, <4>1 DEF Ending
    <3>3. Ended' /\ Ends("WaitAckAfterEndMode", TS!Serving(t))
      BY <1>1, <1>16, <2>4, <3>1, <3>2 DEF Ended, Ends, Ending, Serves
    <3>4. TS!AcceptEnd(t)
      BY <3>3, SessionSees, StateNames DEF Ended, TS!AcceptEnd, R!RemoteActivities
    <3> QED
      BY <3>3, <3>4 DEF Phase, SessionStep, TS!Next
  <2> QED
    BY <2>2, <2>3, <2>4
<1> QED
  BY <1>8, <1>9, <1>10, <1>11, <1>12, <1>13, <1>14, <1>15, <1>16 DEF Phase

\* The remote reads a byte: it is under way as before.
LEMMA RemoteReadsPhase ==
    ASSUME Phase, RB!TypeOK, RB!Owned, RB!ReadCompletes, UNCHANGED masterVars
    PROVE  Phase' /\ rState' = rState
<1>1. PICK kind, owner :
          /\ kind # "results"
          /\ kind = "fsm" => owner = rState
          /\ Pulled(rReady, rReady', kind, owner, Head(toRemote))
  BY RemoteReads
<1>2. /\ toRemote \in Seq(Bytes) /\ toRemote # <<>> /\ toRemote' = Tail(toRemote)
      /\ UNCHANGED <<rState, toMaster, mState, mReady, mActivity>>
  BY RemoteReads, LineTypes DEF masterVars
<1>3. /\ \A S : ToRemote(S) => ToRemote(S)'
      /\ \A k : rState \in k /\ Owners(rReady, k) => Owners(rReady', k)
      /\ OwnLast(rReady, rState) => OwnLast(rReady', rState')
  BY <1>1, <1>2, PulledKeeps DEF ToRemote
<1>4. \A a, b : /\ a # b /\ OwnLast(rReady, rState)
                /\ Never(a, b, rReady, toRemote)
                => Never(a, b, rReady', toRemote')
  BY <1>1, <1>2, PulledNever
<1>5. /\ \A m, r : Ends(m, r) => Ends(m, r)'
      /\ \A S : ToMaster(S) => ToMaster(S)'
  BY <1>2 DEF Ends, ToMaster
<1>6. \A r : Rests(r) => Rests(r)'
  BY <1>3, <1>5 DEF Rests
<1>7. (Ended => Ended') /\ (Over => Over')
  BY <1>2, <1>3, <1>5 DEF Ended, Over
<1>8. ASSUME NEW t \in TS!Tests PROVE Asked(t) => Asked(t)'
  BY <1>2, <1>3, <1>5 DEF Asked, Ends
<1>9. ASSUME NEW t \in TS!Tests PROVE AcceptedTest(t) => AcceptedTest(t)'
  BY <1>2, <1>3, <1>5 DEF AcceptedTest, Ends
<1>10. ASSUME NEW t \in TS!Tests, Begun(t) PROVE Begun(t)'
  <2>1. Asks(t) # "MasterAck"
    BY StateNames
  <2> QED
    BY <1>2, <1>3, <1>4, <1>5, <1>10, <2>1 DEF Begun, Ends
<1>11. ASSUME NEW t \in TS!Tests PROVE Serves(t) => Serves(t)'
  BY <1>2, <1>3 DEF Serves
<1>12. ASSUME NEW t \in TS!Tests PROVE Running(t) => Running(t)'
  BY <1>2, <1>3, <1>5, <1>11 DEF Running
<1>13. ASSUME NEW t \in TS!Tests, Ending(t) PROVE Ending(t)'
  BY <1>2, <1>3, <1>4, <1>5, <1>11, <1>13 DEF Ending, Serves
<1> QED
  BY <1>2, <1>6, <1>7, <1>8, <1>9, <1>10, <1>12, <1>13 DEF Phase

\* Its activity's thread begins, or its timer expires.
LEMMA RemoteBeginsPhase ==
    ASSUME Phase, MB!TypeOK, RB!TypeOK, RB!ActivityBegins \/ RB!TimerExpires, UNCHANGED masterVars
    PROVE  Phase' /\ rState' = rState
<1>1. /\ Rest(rReady, rReady', 0)
      /\ UNCHANGED <<rState, toMaster, toRemote>>
  <2>1. CASE RB!ActivityBegins
    <3>1. UNCHANGED <<rState, rReady, toMaster, toRemote>>
      BY <2>1 DEF RB!ActivityBegins, RB!ActivityCancel, RB!ActivityRead
    <3>2. DOMAIN rReady \subseteq Nat \ {0}
      BY DEF RB!TypeOK
    <3> QED
      BY <3>1, <3>2 DEF Rest
  <2>2. CASE RB!TimerExpires
    BY <2>2, RemoteTables, RB!TimerEffect, RemoteRest DEF RB!Stays
  <2> QED
    BY <2>1, <2>2
<1>2. /\ <<>> \in Seq(Bytes) /\ toMaster' = toMaster \o <<>>
      /\ \A b \in ControlBytes : ~Has(<<>>, b)
  BY <1>1, LineTypes DEF Has
<1>3. UNCHANGED <<mState, mReady, mActivity>>
  BY DEF masterVars
<1> HIDE DEF Phase
<1> QED
  BY <1>1, <1>2, <1>3, RemoteKeeps

\* Any step of the remote's, unless it uses freed memory.
LEMMA RemotePhase ==
    ASSUME Sound, ~undefined, ~undefined', Phase, UNCHANGED masterVars,
           \/ R!FSM!ReadCompletes \/ R!FSM!ActivityBegins \/ R!FSM!TimerExpires
           \/ R!FSM!Handle /\ ~R!FSM!Runs("dangling")
    PROVE  Phase' /\ SessionStep
<1>1. MB!TypeOK /\ RB!TypeOK /\ RB!Owned /\ mState' = mState
  BY DEF Sound, masterVars
<1>2. rState' = rState => SessionStep
  BY <1>1, Seen DEF Gone, SessionStep, TS!vars
<1>3. CASE R!FSM!ReadCompletes
  BY <1>1, <1>2, <1>3, SameRemote, RemoteReadsPhase
<1>4. CASE R!FSM!ActivityBegins \/ R!FSM!TimerExpires
  BY <1>1, <1>2, <1>4, SameRemote, RemoteBeginsPhase
<1>5. CASE R!FSM!Handle /\ ~R!FSM!Runs("dangling")
  <2>1. /\ toRemote' = toRemote /\ rState # "Exited" /\ Rest(rReady, rReady', 1)
        /\ \/ \E on \in ControlBytes \cup {"Timeout"} :
                 (on = "Timeout" \/ HeadIs(rReady, on)) /\ RemoteMoved(on)
           \/ HeadIs(rReady, "EndTest") /\ RemoteQuits
           \/ /\ rState' = rState
              /\ \E w \in Seq(Bytes) : /\ toMaster' = toMaster \o w
                                       /\ \A b \in ControlBytes : ~Has(w, b)
                                       /\ rState \notin R!RemoteActivities => w = <<>>
    BY <1>1, <1>5, SameRemote, RemoteHandles
  <2>2. CASE \E on \in ControlBytes \cup {"Timeout"} :
                 (on = "Timeout" \/ HeadIs(rReady, on)) /\ RemoteMoved(on)
    BY <1>1, <2>1, <2>2, RemoteMoves
  <2>3. CASE HeadIs(rReady, "EndTest") /\ RemoteQuits
    <3>1. Over
      <4>1. \A S : ToRemote(S) => "EndTest" \in S
        BY <2>3, HeadPending DEF ToRemote, ControlBytes
      <4>2. ASSUME NEW t \in TS!Tests PROVE Asks(t) # "EndTest"
        BY StateNames
      <4>3. ~Rests("RemoteIdle") /\ ~Rests("EndModeReceived") /\ ~Ended
        BY <4>1 DEF Rests, Ended
      <4>4. ASSUME NEW t \in TS!Tests
            PROVE  ~Asked(t) /\ ~AcceptedTest(t) /\ ~Begun(t) /\ ~Running(t) /\ ~Ending(t)
        BY <4>1, <4>2 DEF Asked, AcceptedTest, Begun, Running, Ending
      <4> QED
        BY <4>3, <4>4 DEF Phase
    <3>2. Over'
      BY <1>1, <2>1, <3>1, RestKeeps DEF Over, ToRemote
    <3>3. TS!Follow
      BY <1>1, <2>3, <3>1 DEF Over, RemoteQuits, Gone, TS!Follow, TS!Become
    <3> QED
      BY <3>2, <3>3 DEF Phase, SessionStep, TS!Next
  <2>4. CASE /\ rState' = rState
             /\ \E w \in Seq(Bytes) : /\ toMaster' = toMaster \o w
                                      /\ \A b \in ControlBytes : ~Has(w, b)
                                      /\ rState \notin R!RemoteActivities => w = <<>>
    <3>1. UNCHANGED <<mState, mReady, mActivity>>
      BY DEF masterVars
    <3> HIDE DEF Phase
    <3>2. Phase'
      BY <1>1, <2>1, <2>4, <3>1, RemoteKeeps
    <3> QED
      BY <1>2, <2>4, <3>2
  <2> QED
    BY <2>1, <2>2, <2>3, <2>4
<1> QED
  BY <1>3, <1>4, <1>5

-------------------------------------------------------------------------------
(***************************************************************************)
(* The phases of a test under the master's steps.                          *)
(***************************************************************************)

\* The master sends a byte.
LEMMA CommandSent ==
    ASSUME toRemote \in Seq(Bytes), rReady' = rReady, NEW byte \in ControlBytes,
           toRemote' = toRemote \o <<byte>>
    PROVE  /\ \A S : ToRemote(S) => ToRemote(S \cup {byte})'
           /\ \A a, b : b # byte /\ Never(a, b, rReady, toRemote) => Never(a, b, rReady', toRemote')
<1> DEFINE w == <<byte>>
<1>1. byte \in Bytes
  BY DEF Bytes
<1>2. w \in Seq(Bytes) /\ \A c : Has(w, c) => c = byte
  BY <1>1, ShortLines
<1>3. toRemote' = toRemote \o w
  OBVIOUS
<1> HIDE DEF w
<1>4. \A S : Only(S, rReady, toRemote) => Only(S \cup {byte}, rReady, toRemote \o w)
  <2> SUFFICES ASSUME NEW S, Only(S, rReady, toRemote)
               PROVE  Only(S \cup {byte}, rReady, toRemote \o w)
    OBVIOUS
  <2>1. Only(S \cup {byte}, rReady, toRemote)
    BY DEF Only
  <2> QED
    BY <1>2, <2>1, SentKeeps
<1>5. \A a, b : b # byte /\ Never(a, b, rReady, toRemote) => Never(a, b, rReady, toRemote \o w)
  BY <1>2, SentKeeps
<1> QED
  BY <1>3, <1>4, <1>5 DEF ToRemote

\* The master stays where it is and sends nothing of the handshake; its thread
\* does not come by its results.
LEMMA MasterKeeps ==
    ASSUME Phase, MB!TypeOK, UNCHANGED <<mState, rState, rReady, toMaster>>,
           mActivity' \in {"ready", "done"} => mActivity \in {"ready", "done"},
           NEW d \in {0, 1}, Rest(mReady, mReady', d),
           NEW w \in Seq(Bytes), toRemote' = toRemote \o w,
           \A b \in ControlBytes : ~Has(w, b)
    PROVE  Phase'
<1>1. /\ toRemote \in Seq(Bytes)
      /\ {"MasterAck", "AvailabilityModeCommand", "ThroughputModeCommand"} \subseteq ControlBytes
  BY LineTypes DEF ControlBytes, UserCommands
<1>2. /\ \A S : ToMaster(S) => ToMaster(S)'
      /\ \A a, b : After(a, b, mReady, toMaster) => After(a, b, mReady', toMaster')
      /\ NoAckBehindResults(mReady, toMaster) => NoAckBehindResults(mReady', toMaster')
      /\ ResultsIn(mReady) = {} => ResultsIn(mReady') = {}
  BY RestKeeps DEF ToMaster
<1>3. /\ \A S : ToRemote(S) => ToRemote(S)'
      /\ \A a, b : b \in ControlBytes /\ Never(a, b, rReady, toRemote)
                      => Never(a, b, rReady', toRemote')
  BY <1>1, SentKeeps DEF ToRemote
<1>4. \A m, r : Ends(m, r) => Ends(m, r)'
  BY DEF Ends
<1>5. \A r : Rests(r) => Rests(r)'
  BY <1>2, <1>3, <1>4 DEF Rests
<1>6. (Ended => Ended') /\ (Over => Over')
  BY <1>2, <1>3, <1>4 DEF Ended, Over
<1>7. ASSUME NEW t \in TS!Tests PROVE Asked(t) => Asked(t)'
  BY <1>2, <1>3, <1>4 DEF Asked
<1>8. ASSUME NEW t \in TS!Tests PROVE AcceptedTest(t) => AcceptedTest(t)'
  BY <1>2, <1>3, <1>4 DEF AcceptedTest
<1>9. ASSUME NEW t \in TS!Tests, Begun(t) PROVE Begun(t)'
  <2>1. Asks(t) \in ControlBytes
    BY <1>1, StateNames
  <2> QED
    BY <1>2, <1>3, <1>4, <1>9, <2>1 DEF Begun
<1>10. ASSUME NEW t \in TS!Tests PROVE Serves(t) => Serves(t)'
  BY DEF Serves
<1>11. ASSUME NEW t \in TS!Tests PROVE Running(t) => Running(t)'
  BY <1>2, <1>3, <1>10 DEF Running
<1>12. ASSUME NEW t \in TS!Tests PROVE Ending(t) => Ending(t)'
  BY <1>1, <1>2, <1>3, <1>10 DEF Ending
<1> QED
  BY <1>5, <1>6, <1>7, <1>8, <1>9, <1>11, <1>12 DEF Phase

\* The master takes a transition by itself: it begins a test or closes it
\* exactly when the remote is one step ahead, and otherwise only repeats
\* itself.  The throughput thread that is done is not interrupted.
LEMMA MasterMoves ==
    ASSUME ~undefined, ~undefined', Phase, MB!TypeOK, TestThread,
           NEW on \in ControlBytes \cup {"Timeout"}, on = "Timeout" \/ HeadIs(mReady, on),
           MasterMoved(on), Rest(mReady, mReady', 1),
           UNCHANGED <<remoteVars, toMaster>>
    PROVE  Phase' /\ SessionStep /\ mState # "ThroughputMode"
<1>1. /\ rState' = rState /\ rReady' = rReady /\ toMaster' = toMaster
      /\ toRemote \in Seq(Bytes)
  BY LineTypes DEF remoteVars
<1>2. PICK byte \in ControlBytes : /\ MasterGoes(mState, on, mState', byte)
                                   /\ toRemote' = toRemote \o <<byte>>
  BY DEF MasterMoved
<1>3. /\ mState = "ThroughputMode" => mActivity = "done"
      /\ mActivity' \notin {"ready", "done"}
  BY DEF MasterMoved
<1>4. /\ \A S : ToRemote(S) => ToRemote(S \cup {byte})'
      /\ \A a, b : b # byte /\ Never(a, b, rReady, toRemote) => Never(a, b, rReady', toRemote')
  BY <1>1, <1>2, CommandSent
<1>5. /\ \A S : ToMaster(S) => ToMaster(S)'
      /\ \A a, b : After(a, b, mReady, toMaster) => After(a, b, mReady', toMaster')
      /\ NoAckBehindResults(mReady, toMaster) => NoAckBehindResults(mReady', toMaster')
      /\ ResultsIn(mReady) = {} => ResultsIn(mReady') = {}
  BY <1>1, RestKeeps DEF ToMaster
<1>6. \A S : ToMaster(S) => on = "Timeout" \/ on \in S
  BY HeadPending DEF ToMaster
<1>7. mState' = mState => SessionStep
  BY <1>1, Seen DEF Gone, SessionStep, TS!vars
<1>8. ASSUME NEW r, Rests(r) PROVE mState' = mState /\ Rests(r)' /\ mState # "ThroughputMode"
  <2>1. mState = "Idle" /\ on \in {"Timeout", "RemoteAck"}
    BY <1>6, <1>8 DEF Rests, Ends
  <2>2. mState' = mState /\ byte = "MasterAck"
    BY <1>2, <2>1, StateNames DEF MasterGoes
  <2>3. {"MasterAck", "EndModeCommand"} \cup {byte} = {"MasterAck", "EndModeCommand"}
    BY <2>2
  <2> QED
    BY <1>1, <1>4, <1>5, <1>8, <2>1, <2>2, <2>3 DEF Rests, Ends
<1>9. CASE Ended
  <2>1. mState = "WaitAckAfterEndMode" /\ on \in {"Timeout", "RemoteAck"}
    BY <1>6, <1>9 DEF Ended, Ends
  <2>2. \/ mState' = mState /\ byte = "EndModeCommand"
        \/ mState' = "Idle" /\ byte = "MasterAck"
    BY <1>2, <2>1, StateNames DEF MasterGoes
  <2>3. ToRemote({"EndModeCommand"} \cup {byte})' /\ ToMaster({"RemoteAck"})'
    BY <1>4, <1>5, <1>9 DEF Ended
  <2>4. CASE mState' = mState /\ byte = "EndModeCommand"
    <3>1. {"EndModeCommand"} \cup {byte} = {"EndModeCommand"}
      BY <2>4
    <3>2. Ended'
      BY <1>1, <1>9, <2>3, <2>4, <3>1 DEF Ended, Ends
    <3> QED
      BY <1>7, <2>1, <2>4, <3>2 DEF Phase
  <2>5. CASE mState' = "Idle" /\ byte = "MasterAck"
    <3>1. {"EndModeCommand"} \cup {byte} = {"MasterAck", "EndModeCommand"}
      BY <2>5
    <3>2. Rests("EndModeReceived")'
      BY <1>1, <1>9, <2>3, <2>5, <3>1 DEF Ended, Rests, Ends
    <3>3. TS!Close
      BY <1>9, <3>2, SessionSees DEF Ended, Rests, TS!Close
    <3> QED
      BY <2>1, <3>2, <3>3 DEF Phase, SessionStep, TS!Next
  <2> QED
    BY <2>2, <2>4, <2>5
<1>10. CASE Over
  <2>1. mState = "Exited"
    BY <1>10 DEF Over
  <2> QED
    BY <1>2, <2>1, StateNames DEF MasterGoes
<1>11. ASSUME NEW t \in TS!Tests, Asked(t)
       PROVE  Phase' /\ SessionStep /\ mState # "ThroughputMode"
  <2>1. mState = TS!Asking(t) /\ on = "Timeout"
    BY <1>6, <1>11 DEF Asked, Ends
  <2>2. mState' = mState /\ byte = Asks(t)
    BY <1>2, <2>1, StateNames, TestsDiffer DEF MasterGoes
  <2>3. {Asks(t)} \cup {byte} = {Asks(t)}
    BY <2>2
  <2>4. Asked(t)'
    BY <1>1, <1>4, <1>5, <1>11, <2>2, <2>3 DEF Asked, Ends
  <2> QED
    BY <1>7, <2>1, <2>2, <2>4, StateNames DEF Phase
<1>12. ASSUME NEW t \in TS!Tests, AcceptedTest(t)
       PROVE  Phase' /\ SessionStep /\ mState # "ThroughputMode"
  <2>1. mState = TS!Asking(t) /\ on \in {"Timeout", "RemoteAck"}
    BY <1>6, <1>12 DEF AcceptedTest, Ends
  <2>2. \/ mState' = mState /\ byte = Asks(t)
        \/ on = "RemoteAck" /\ mState' = TS!Mode(t) /\ byte = "MasterAck"
    BY <1>2, <2>1, StateNames, TestsDiffer DEF MasterGoes
  <2>3. ToRemote({Asks(t)} \cup {byte})'
    BY <1>4, <1>12 DEF AcceptedTest
  <2>4. CASE mState' = mState /\ byte = Asks(t)
    <3>1. {Asks(t)} \cup {byte} = {Asks(t)}
      BY <2>4
    <3>2. AcceptedTest(t)'
      BY <1>1, <1>5, <1>12, <2>3, <2>4, <3>1 DEF AcceptedTest, Ends
    <3> QED
      BY <1>7, <2>1, <2>4, <3>2, StateNames DEF Phase
  <2>5. CASE on = "RemoteAck" /\ mState' = TS!Mode(t) /\ byte = "MasterAck"
    <3>1. {Asks(t)} \cup {byte} = {Asks(t), "MasterAck"}
      BY <2>5
    <3>2. Never("MasterAck", Asks(t), rReady', toRemote')
      <4>1. "MasterAck" # Asks(t) /\ "MasterAck" \in ControlBytes
        BY StateNames DEF ControlBytes
      <4>2. ~Pending(rReady, toRemote, "MasterAck")
        BY <1>12, <4>1 DEF AcceptedTest, ToRemote, Only
      <4>3. Never("MasterAck", Asks(t), rReady, toRemote)
        BY <4>2, FreshNever
      <4> QED
        BY <1>4, <2>5, <4>1, <4>3
    <3>3. ~Has(toMaster', "Result")
      <4>1. Queued(mReady, "RemoteAck")
        BY <2>5, HeadQueued
      <4> QED
        BY <1>1, <1>12, <4>1 DEF AcceptedTest, After
    <3>4. ResultsIn(mReady') = {}
      <4>1. mState # "ThroughputMode" /\ mState \notin M!MasterActivities
        BY <2>1, StateNames DEF M!MasterActivities
      <4>2. mActivity # "waiting"
        BY <4>1 DEF TestThread
      <4> QED
        BY <1>5, <4>2 DEF TestThread
    <3>5. Begun(t)'
      BY <1>1, <1>3, <1>5, <1>12, <2>3, <2>5, <3>1, <3>2, <3>3, <3>4
      DEF AcceptedTest, Begun, Ends
    <3>6. TS!Begin(t)
      BY <1>12, <3>5, SessionSees, StateNames DEF AcceptedTest, Begun, TS!Begin
    <3> QED
      BY <2>1, <3>5, <3>6, StateNames DEF Phase, SessionStep, TS!Next
  <2> QED
    BY <2>2, <2>4, <2>5
<1>13. ASSUME NEW t \in TS!Tests, Begun(t)
       PROVE  Phase' /\ SessionStep /\ mState # "ThroughputMode"
  <2>1. mState = TS!Mode(t) /\ on \in {"Timeout", "RemoteAck"} /\ mState # "ThroughputMode"
    BY <1>3, <1>6, <1>13 DEF Begun, Ends
  <2>2. mState' = mState /\ byte = "MasterAck"
    BY <1>2, <2>1, StateNames, TestsDiffer DEF MasterGoes
  <2>3. {Asks(t), "MasterAck"} \cup {byte} = {Asks(t), "MasterAck"}
    BY <2>2
  <2>4. Never("MasterAck", Asks(t), rReady', toRemote')
    BY <1>4, <1>13, <2>2, StateNames DEF Begun
  <2>5. Begun(t)'
    BY <1>1, <1>3, <1>4, <1>5, <1>13, <2>2, <2>3, <2>4 DEF Begun, Ends
  <2> QED
    BY <1>7, <2>1, <2>2, <2>5 DEF Phase
<1>14. ASSUME NEW t \in TS!Tests, Running(t)
       PROVE  Phase' /\ SessionStep /\ mState # "ThroughputMode"
  <2>1. mState = TS!Mode(t) /\ on \in {"Timeout", "RemoteAck"}
    BY <1>6, <1>14 DEF Running
  <2>2. mState' = mState /\ byte = "MasterAck" /\ on = "RemoteAck"
    BY <1>2, <2>1, StateNames, TestsDiffer DEF MasterGoes
  <2>3. mState # "ThroughputMode"
    <3>1. ToMaster({}) => FALSE
      BY <1>6, <2>2
    <3> QED
      BY <1>3, <1>14, <3>1 DEF Running
  <2>4. {"MasterAck"} \cup {byte} = {"MasterAck"}
    BY <2>2
  <2>5. Serves(t)'
    BY <1>1, <1>14 DEF Running, Serves
  <2>6. Running(t)'
    BY <1>1, <1>3, <1>4, <1>5, <1>14, <2>2, <2>4, <2>5 DEF Running
  <2> QED
    BY <1>7, <2>2, <2>3, <2>6 DEF Phase
<1>15. ASSUME NEW t \in TS!Tests, Ending(t)
       PROVE  Phase' /\ SessionStep /\ mState # "ThroughputMode"
  <2>1. mState = "WaitAckAfterEndMode" /\ on = "Timeout"
    BY <1>6, <1>15 DEF Ending
  <2>2. mState' = mState /\ byte = "EndModeCommand"
    BY <1>2, <2>1, StateNames DEF MasterGoes
  <2>3. {"MasterAck", "EndModeCommand"} \cup {byte} = {"MasterAck", "EndModeCommand"}
    BY <2>2
  <2>4. Never("EndModeCommand", "MasterAck", rReady', toRemote')
    BY <1>4, <1>15, <2>2 DEF Ending
  <2>5. Serves(t)'
    BY <1>1, <1>15 DEF Ending, Serves
  <2>6. Ending(t)'
    BY <1>4, <1>5, <1>15, <2>2, <2>3, <2>4, <2>5 DEF Ending
  <2> QED
    BY <1>7, <2>1, <2>2, <2>6 DEF Phase
<1> QED
  BY <1>7, <1>8, <1>9, <1>10, <1>11, <1>12, <1>13, <1>14, <1>15 DEF Phase

\* The master reads a byte: it is under way as before.
LEMMA MasterReadsPhase ==
    ASSUME Phase, MB!TypeOK, MB!Owned, MB!ReadCompletes, UNCHANGED remoteVars
    PROVE  Phase' /\ UNCHANGED <<mState, mActivity>>
<1>1. PICK kind, owner : /\ kind # "results"
                         /\ Pulled(mReady, mReady', kind, owner, Head(toMaster))
  BY MasterReads
<1>2. /\ toMaster \in Seq(Bytes) /\ toMaster # <<>> /\ toMaster' = Tail(toMaster)
      /\ UNCHANGED <<mState, mActivity, toRemote, rState, rReady>>
  BY MasterReads, LineTypes DEF remoteVars
<1>3. /\ \A S : ToMaster(S) => ToMaster(S)'
      /\ \A a, b : After(a, b, mReady, toMaster) => After(a, b, mReady', toMaster')
      /\ NoAckBehindResults(mReady, toMaster) => NoAckBehindResults(mReady', toMaster')
      /\ ResultsIn(mReady) = {} => ResultsIn(mReady') = {}
  BY <1>1, <1>2, PulledKeeps DEF ToMaster
<1>4. /\ \A b : Has(toMaster', b) => Has(toMaster, b)
      /\ \A a, b : LineNever(a, b, toMaster) => LineNever(a, b, toMaster')
  BY <1>2, TailLine
<1>5. /\ \A m, r : Ends(m, r) => Ends(m, r)'
      /\ \A S : ToRemote(S) => ToRemote(S)'
  BY <1>2 DEF Ends, ToRemote
<1>6. \A r : Rests(r) => Rests(r)'
  BY <1>3, <1>5 DEF Rests
<1>7. (Ended => Ended') /\ (Over => Over')
  BY <1>2, <1>3, <1>5 DEF Ended, Over
<1>8. ASSUME NEW t \in TS!Tests PROVE Asked(t) => Asked(t)'
  BY <1>2, <1>3, <1>5 DEF Asked
<1>9. ASSUME NEW t \in TS!Tests PROVE AcceptedTest(t) => AcceptedTest(t)'
  BY <1>2, <1>3, <1>5 DEF AcceptedTest
<1>10. ASSUME NEW t \in TS!Tests PROVE Begun(t) => Begun(t)'
  BY <1>2, <1>3, <1>4, <1>5 DEF Begun
<1>11. ASSUME NEW t \in TS!Tests PROVE Serves(t) => Serves(t)'
  BY <1>2 DEF Serves
<1>12. ASSUME NEW t \in TS!Tests PROVE Running(t) => Running(t)'
  BY <1>2, <1>3, <1>4, <1>5, <1>11 DEF Running
<1>13. ASSUME NEW t \in TS!Tests PROVE Ending(t) => Ending(t)'
  BY <1>2, <1>3, <1>5, <1>11 DEF Ending
<1> QED
  BY <1>2, <1>6, <1>7, <1>8, <1>9, <1>10, <1>12, <1>13 DEF Phase

\* The thread waits for its results, or has them, only while both ends are in
\* the mode or the master has just begun.
LEMMA Waits ==
    ASSUME Phase, mState = "ThroughputMode"
    PROVE  Begun("Throughput") \/ Running("Throughput")
<1>1. ~Rests("RemoteIdle") /\ ~Rests("EndModeReceived") /\ ~Ended /\ ~Over
  BY DEF Rests, Ends, Ended, Over
<1>2. ASSUME NEW t \in TS!Tests PROVE ~Asked(t) /\ ~AcceptedTest(t) /\ ~Ending(t)
  BY StateNames DEF Asked, AcceptedTest, Ending, Ends
<1>3. \A t \in TS!Tests : Begun(t) \/ Running(t) => t = "Throughput"
  BY DEF Begun, Running, Ends, TS!Mode, TS!Tests
<1> QED
  BY <1>1, <1>2, <1>3 DEF Phase

\* The results arrive.
LEMMA ResultsArrivePhase ==
    ASSUME Phase, MasterSound, M!ResultsArrive, UNCHANGED remoteVars
    PROVE  Phase' /\ UNCHANGED <<mState, mActivity, mDispatchers>>
<1>1. /\ UNCHANGED <<mState, mActivity, toRemote, mDispatchers, rState, rReady>>
      /\ mActivity = "waiting" /\ ResultsIn(mReady) = {}
      /\ Has(toMaster, "Result")
      /\ \A b \in ControlBytes : Has(toMaster', b) => Has(toMaster, b)
      /\ LineNever("Result", "RemoteAck", toMaster) => ~Has(toMaster', "RemoteAck")
      /\ \A i \in DOMAIN mReady' :
            \/ i \in DOMAIN mReady /\ mReady'[i] = mReady[i]
            \/ mReady'[i].kind = "results" /\ \A j \in DOMAIN mReady' : j <= i
  BY ResultsArriveSound DEF remoteVars
<1>2. Running("Throughput")
  <2>1. mState = "ThroughputMode"
    BY <1>1 DEF MasterSound, TestThread
  <2> QED
    BY <1>1, <2>1, Waits DEF Begun
<1>3. ~Has(toMaster', "RemoteAck")
  BY <1>1, <1>2 DEF Running
<1>4. \A b : Queued(mReady', b) => Queued(mReady, b)
  BY <1>1 DEF Queued, ByteKinds
<1>5. ToMaster({"RemoteAck"})'
  BY <1>1, <1>2, <1>4 DEF Running, ToMaster, Only, Pending
<1>6. LineNever("Result", "RemoteAck", toMaster')
  BY <1>3 DEF LineNever, Has
<1>7. NoAckBehindResults(mReady', toMaster')
  <2> SUFFICES ASSUME NEW i \in DOMAIN mReady', mReady'[i].kind = "results",
                      NEW j \in DOMAIN mReady', i < j
               PROVE  mReady'[j].byte # "RemoteAck"
    BY <1>3 DEF NoAckBehindResults
  <2>1. i \in Nat /\ j \in Nat
    <3>1. MB!TypeOK'
      BY ResultsArriveSound DEF MasterSound
    <3> QED
      BY <3>1 DEF MB!TypeOK
  <2>2. \A k \in DOMAIN mReady' : k <= i
    BY <1>1 DEF ResultsIn
  <2> QED
    BY <2>1, <2>2
<1>8. Serves("Throughput")'
  BY <1>1, <1>2 DEF Running, Serves
<1>9. Running("Throughput")'
  BY <1>1, <1>2, <1>5, <1>6, <1>7, <1>8 DEF Running, ToRemote
<1> QED
  BY <1>1, <1>9 DEF Phase, TS!Tests

\* ... and are received: no acknowledgement is under way any more.
LEMMA ReceiveResultsPhase ==
    ASSUME Phase, MasterSound, M!ReceiveResults, UNCHANGED remoteVars
    PROVE  Phase' /\ UNCHANGED <<mState, mDispatchers>> /\ mActivity = "waiting"
<1>1. /\ UNCHANGED <<mState, toMaster, toRemote, mDispatchers, rState, rReady>>
      /\ Rest(mReady, mReady', 1)
      /\ 1 \in ResultsIn(mReady)
  BY ReceiveResultsSound DEF remoteVars
<1>2. mActivity = "waiting" /\ mState = "ThroughputMode"
  BY <1>1 DEF MasterSound, TestThread
<1>3. Running("Throughput")
  BY <1>1, <1>2, Waits DEF Begun
<1>4. /\ ~Has(toMaster, "RemoteAck")
      /\ \A j \in DOMAIN mReady : 1 < j /\ mReady[j].kind \in ByteKinds => mReady[j].byte # "RemoteAck"
  BY <1>1, <1>3 DEF Running, NoAckBehindResults, ResultsIn
<1>5. ~Queued(mReady', "RemoteAck")
  <2> SUFFICES ASSUME NEW i \in DOMAIN mReady', mReady'[i].kind \in ByteKinds
               PROVE  mReady'[i].byte # "RemoteAck"
    BY DEF Queued
  <2>1. i + 1 \in DOMAIN mReady /\ mReady'[i] = mReady[i + 1] /\ i \in Nat \ {0}
    BY <1>1 DEF Rest, ByteKinds, Carriers
  <2> QED
    BY <1>4, <2>1
<1>6. /\ ToMaster({"RemoteAck"})'
      /\ NoAckBehindResults(mReady', toMaster')
      /\ LineNever("Result", "RemoteAck", toMaster')
  BY <1>1, <1>3, RestKeeps DEF Running, ToMaster
<1>7. ToMaster({})'
  BY <1>1, <1>4, <1>5, <1>6 DEF ToMaster, Only, Pending
<1>8. Serves("Throughput")'
  BY <1>1, <1>3 DEF Running, Serves
<1>9. Running("Throughput")'
  BY <1>1, <1>3, <1>6, <1>7, <1>8 DEF Running, ToRemote
<1> QED
  BY <1>1, <1>2, <1>9 DEF Phase, TS!Tests

\* The master leaves the mode both ends are in.
LEMMA EndsPhase ==
    ASSUME ~undefined, ~undefined', NEW t \in TS!Tests, MB!TypeOK,
           mState = TS!Mode(t), mState' = "WaitAckAfterEndMode", Serves(t),
           ToRemote({"MasterAck"}), ToMaster({}), Rest(mReady, mReady', 0),
           toRemote' = toRemote \o <<"EndModeCommand">>, UNCHANGED <<remoteVars, toMaster>>
    PROVE  Phase' /\ SessionStep
<1>1. /\ rState' = rState /\ rReady' = rReady /\ toMaster' = toMaster
      /\ toRemote \in Seq(Bytes)
      /\ "EndModeCommand" \in ControlBytes /\ "MasterAck" # "EndModeCommand"
  BY LineTypes DEF remoteVars, ControlBytes, UserCommands
<1>2. ToRemote({"MasterAck", "EndModeCommand"})'
  <2>1. {"MasterAck"} \cup {"EndModeCommand"} = {"MasterAck", "EndModeCommand"}
    OBVIOUS
  <2> QED
    BY <1>1, <2>1, CommandSent
<1>3. ToMaster({})'
  BY <1>1, RestKeeps DEF ToMaster
<1>4. Never("EndModeCommand", "MasterAck", rReady', toRemote')
  <2>1. ~Pending(rReady, toRemote, "EndModeCommand")
    BY <1>1 DEF ToRemote, Only
  <2>2. Never("EndModeCommand", "MasterAck", rReady, toRemote)
    BY <2>1, FreshNever
  <2> QED
    BY <1>1, <2>2, CommandSent
<1>5. Serves(t)'
  BY <1>1 DEF Serves
<1>6. Ending(t)'
  BY <1>2, <1>3, <1>4, <1>5 DEF Ending
<1>7. Ends(TS!Mode(t), TS!Serving(t)) /\ Ends("WaitAckAfterEndMode", TS!Serving(t))'
  BY <1>5 DEF Serves, Ends
<1>8. TS!End(t)
  BY <1>7, SessionSees, StateNames DEF TS!End, R!RemoteActivities
<1> QED
  BY <1>6, <1>8 DEF Phase, SessionStep, TS!Next

\* A command of another thread's.
LEMMA MasterCommands ==
    ASSUME MB!TypeOK, NEW c \in UserCommands \cup {"EndTest"}, M!FSM!Command(c)
    PROVE  /\ toMaster' = toMaster /\ mState # "Exited" /\ Rest(mReady, mReady', 0)
           /\ \/ MasterMoved(c)
              \/ c = "EndTest" /\ MasterQuits
              \/ UNCHANGED <<mState, mActivity, mReads, toRemote>>
<1>1. MB!Command(c) /\ c \in MB!UserCommands \cup {"EndTest"}
  BY SameMaster
<1>2. mState # "Exited" /\ toMaster' = toMaster /\ MB!Effect(c, 0)
  BY <1>1, MasterTables, MB!CommandEffect
<1> QED
  BY <1>2, MasterDispatches

\* Nothing is sent.
LEMMA NothingSent ==
    ASSUME MB!TypeOK, toRemote' = toRemote
    PROVE  <<>> \in Seq(Bytes) /\ toRemote' = toRemote \o <<>> /\ \A b \in ControlBytes : ~Has(<<>>, b)
BY LineTypes DEF Has

\* The throughput thread ends the mode, once, and the master is still in it.
LEMMA DispatchEndPhase ==
    ASSUME ~undefined, ~undefined', EndsOnce, Phase, MasterSound, M!DispatchEnd,
           UNCHANGED remoteVars
    PROVE  EndsOnce' /\ Phase' /\ SessionStep
<1>1. mDispatchers = 1 /\ mDispatchers' = 0 /\ mActivity = "done"
  BY DEF EndsOnce, M!DispatchEnd
<1>2. Running("Throughput") /\ ToMaster({})
  <2>1. mState = "ThroughputMode"
    BY <1>1 DEF MasterSound, TestThread
  <2>2. Running("Throughput")
    BY <1>1, <2>1, Waits DEF Begun
  <2> QED
    BY <1>1, <2>2 DEF Running
<1>3. /\ toMaster' = toMaster /\ Rest(mReady, mReady', 0)
      /\ \/ MasterMoved("EndModeCommand")
         \/ UNCHANGED <<mState, mActivity, toRemote>>
  BY MasterCommands DEF MasterSound, M!DispatchEnd, UserCommands
<1>4. EndsOnce'
  BY <1>1 DEF EndsOnce
<1>5. CASE MasterMoved("EndModeCommand")
  <2>1. "Throughput" \in TS!Tests /\ mState = TS!Mode("Throughput")
    BY <1>2 DEF TS!Tests, Running
  <2>2. PICK byte \in ControlBytes : /\ MasterGoes(mState, "EndModeCommand", mState', byte)
                                     /\ toRemote' = toRemote \o <<byte>>
    BY <1>5 DEF MasterMoved
  <2>3. mState' = "WaitAckAfterEndMode" /\ byte = "EndModeCommand"
    BY <2>1, <2>2, StateNames DEF MasterGoes
  <2>4. Serves("Throughput") /\ ToRemote({"MasterAck"})
    BY <1>2 DEF Running
  <2> QED
    BY <1>2, <1>3, <1>4, <2>1, <2>2, <2>3, <2>4, EndsPhase DEF MasterSound
<1>6. CASE UNCHANGED <<mState, mActivity, toRemote>>
  <2>1. MB!TypeOK /\ UNCHANGED <<rState, rReady>> /\ mActivity' = mActivity
    BY <1>6 DEF MasterSound, remoteVars
  <2> HIDE DEF Phase
  <2>2. Phase'
    BY <1>3, <1>6, <2>1, NothingSent, MasterKeeps
  <2>3. SessionStep
    BY <1>6, <2>1, Seen DEF Gone, SessionStep, TS!vars
  <2> QED
    BY <1>4, <2>2, <2>3
<1> QED
  BY <1>3, <1>5, <1>6

\* Both ends are at rest in the same mode: no event is on its way to either, and
\* no timer runs.  A remote that has used freed memory may be gone.
Eventless(q) == \A i \in DOMAIN q : q[i].kind \notin TimerKinds /\ q[i].byte \notin ControlBytes
EventlessLine(s) == \A i \in DOMAIN s : s[i] \notin ControlBytes
AtRest(m, r) == mState = m /\ rState \in {r, "Exited"}
Steady ==
    /\ AtRest("Idle", "RemoteIdle") \/ \E t \in TS!Tests : AtRest(TS!Mode(t), TS!Serving(t))
    /\ EventlessLine(toMaster) /\ EventlessLine(toRemote)
    /\ Eventless(mReady) /\ Eventless(rReady)
    /\ rState = "RemoteIdle" => Owners(rReady, {"RemoteIdle"})
    /\ mDispatchers = 0

\* This is so when the user of ModemTester gives a command.
LEMMA SettledSteady == Settled => Steady
<1> SUFFICES ASSUME Settled PROVE Steady
  OBVIOUS
<1>1. AtRest("Idle", "RemoteIdle") \/ \E t \in TS!Tests : AtRest(TS!Mode(t), TS!Serving(t))
  BY DEF Settled, AtRest, TS!Tests, TS!Mode, TS!Serving
<1>2. EventlessLine(toMaster) /\ EventlessLine(toRemote)
  BY DEF Settled, Elements, EventlessLine
<1> QED
  BY <1>1, <1>2 DEF Settled, Steady, Eventless, Owners

\* The user gives a command when both ends are at rest.
LEMMA UserPhase ==
    ASSUME ~undefined, ~undefined', EndsOnce, Phase, MasterSound, Steady,
           NEW c \in Commands, M!Command(c), UNCHANGED remoteVars
    PROVE  EndsOnce' /\ Phase' /\ SessionStep
<1>1. rState' = rState /\ rReady' = rReady /\ mDispatchers = 0 /\ mDispatchers' = 0
  BY DEF remoteVars, Steady, M!Command
<1>2. ToMaster({}) /\ ToRemote({})
  BY DEF Steady, Eventless, EventlessLine, ToMaster, ToRemote, Only, Pending, Queued, Has
<1>3. c \in UserCommands \cup {"EndTest"} /\ M!FSM!Command(c) /\ MB!TypeOK
  BY SystemAssumption DEF M!Command, MasterSound
<1>4. /\ toMaster' = toMaster /\ mState # "Exited" /\ Rest(mReady, mReady', 0)
      /\ \/ MasterMoved(c)
         \/ c = "EndTest" /\ MasterQuits
         \/ UNCHANGED <<mState, mActivity, mReads, toRemote>>
  BY <1>3, MasterCommands
<1>5. EndsOnce'
  BY <1>1 DEF EndsOnce
<1>6. /\ toRemote \in Seq(Bytes) /\ {"EndTest", "EndModeCommand"} \subseteq ControlBytes
      /\ ToMaster({})'
  BY <1>2, <1>3, <1>4, LineTypes, RestKeeps DEF ControlBytes, UserCommands, ToMaster
<1>7. \/ Ends("Idle", "RemoteIdle")
      \/ \E t \in TS!Tests : Ends(TS!Mode(t), TS!Serving(t))
  <2>1. CASE AtRest("Idle", "RemoteIdle")
    <3>1. rState \in {"RemoteIdle", "EndModeReceived"}
      BY <2>1, StateNames
      DEF AtRest, Phase, Rests, Ended, Over, Asked, AcceptedTest, Begun, Running, Ending, Ends
    <3> QED
      BY <2>1, <3>1 DEF AtRest, Ends
  <2>2. ASSUME NEW t \in TS!Tests, AtRest(TS!Mode(t), TS!Serving(t))
        PROVE  Ends(TS!Mode(t), TS!Serving(t))
    <3>1. rState # "Exited"
      BY <2>2, StateNames
      DEF AtRest, Phase, Rests, Ended, Over, Asked, AcceptedTest, Begun, Running, Ending, Ends,
          Serves, R!RemoteActivities
    <3> QED
      BY <2>2, <3>1 DEF AtRest, Ends
  <2> QED
    BY <2>1, <2>2 DEF Steady
<1>8. CASE MasterMoved(c)
  <2>1. PICK byte \in ControlBytes : /\ MasterGoes(mState, c, mState', byte)
                                     /\ toRemote' = toRemote \o <<byte>>
    BY <1>8 DEF MasterMoved
  <2>2. c \notin {"RemoteAck", "Timeout"}
    BY <1>3 DEF UserCommands
  <2>3. ToRemote({} \cup {byte})'
    BY <1>1, <1>2, <1>6, <2>1, CommandSent
  <2>4. CASE Ends("Idle", "RemoteIdle")
    <3>1. PICK t \in TS!Tests : mState' = TS!Asking(t) /\ byte = Asks(t)
      BY <2>1, <2>2, <2>4, StateNames DEF MasterGoes, Ends
    <3>2. {} \cup {byte} = {Asks(t)}
      BY <3>1
    <3>3. Asked(t)'
      <4>1. Owners(rReady, {"RemoteIdle"})
        BY <2>4 DEF Steady, Ends
      <4> QED
        BY <1>1, <4>1, <1>2, <1>6, <2>3, <2>4, <3>1, <3>2 DEF Asked, Ends
    <3>4. TS!Ask(t)
      BY <2>4, <3>3, SessionSees, StateNames DEF Asked, TS!Ask
    <3> QED
      BY <1>5, <3>3, <3>4 DEF Phase, SessionStep, TS!Next
  <2>5. ASSUME NEW t \in TS!Tests, Ends(TS!Mode(t), TS!Serving(t))
        PROVE  Phase' /\ SessionStep
    <3>1. mState = TS!Mode(t) /\ rState = TS!Serving(t)
      BY <2>5 DEF Ends
    <3>2. mState' = "WaitAckAfterEndMode" /\ byte = "EndModeCommand"
      BY <2>1, <2>2, <3>1, StateNames DEF MasterGoes
    <3>3. Serves(t) /\ ToRemote({"MasterAck"})
      <4>1. Serves(t)
        <5>1. Running(t)
          BY <3>1, StateNames, TestsDiffer
          DEF Phase, Rests, Ended, Over, Asked, AcceptedTest, Begun, Running, Ending, Ends, Serves
        <5> QED
          BY <5>1 DEF Running
      <4> QED
        BY <1>2, <4>1 DEF ToRemote, Only
    <3>4. toRemote' = toRemote \o <<"EndModeCommand">>
      BY <2>1, <3>2
    <3> QED
      BY <1>2, <1>3, <1>4, <3>1, <3>2, <3>3, <3>4, EndsPhase
  <2> QED
    BY <1>5, <1>7, <2>4, <2>5
<1>9. CASE c = "EndTest" /\ MasterQuits
  <2>1. ToRemote({"EndTest"})'
    <3>1. {} \cup {"EndTest"} = {"EndTest"} /\ "EndTest" \in ControlBytes
      BY <1>6
    <3>2. toRemote' = toRemote \o <<"EndTest">>
      BY <1>9 DEF MasterQuits
    <3> QED
      BY <1>1, <1>2, <1>6, <3>1, <3>2, CommandSent
  <2>2. Over'
    BY <1>9, <2>1 DEF MasterQuits, Over
  <2>3. TS!Agreed
    <3>1. ASSUME NEW m, NEW r, Ends(m, r), "Exited" \notin {m, r} PROVE TS!At(m, r)
      BY <3>1 DEF Ends, Gone, TS!At
    <3> QED
      BY <1>7, <3>1, StateNames DEF TS!Agreed, R!RemoteActivities
  <2>4. TS!Quit
    BY <1>1, <1>9, <2>3 DEF TS!Quit, TS!Become, Gone, MasterQuits
  <2> QED
    BY <1>5, <2>2, <2>4 DEF Phase, SessionStep, TS!Next
<1>10. CASE UNCHANGED <<mState, mActivity, mReads, toRemote>>
  <2>1. mActivity' = mActivity
    BY <1>10
  <2> HIDE DEF Phase
  <2>2. Phase'
    BY <1>1, <1>3, <1>4, <1>10, <2>1, NothingSent, MasterKeeps
  <2>3. SessionStep
    BY <1>1, <1>10, Seen DEF Gone, SessionStep, TS!vars
  <2> QED
    BY <1>5, <2>2, <2>3
<1> QED
  BY <1>4, <1>8, <1>9, <1>10

\* The line loses a byte.
LEMMA LosePhase ==
    ASSUME Phase, Lose, toMaster \in Seq(Bytes), toRemote \in Seq(Bytes)
    PROVE  Phase' /\ UNCHANGED <<mState, rState, mActivity, mDispatchers, undefined>>
<1>1. UNCHANGED <<mState, rState, mReady, rReady, mActivity, mDispatchers, undefined>>
  BY DEF Lose, masterVars, remoteVars
<1>2. \/ toMaster # <<>> /\ toMaster' = Tail(toMaster) /\ toRemote' = toRemote
      \/ toRemote # <<>> /\ toRemote' = Tail(toRemote) /\ toMaster' = toMaster
  BY DEF Lose
<1>3. /\ \A S : ToMaster(S) => ToMaster(S)'
      /\ \A a, b : After(a, b, mReady, toMaster) => After(a, b, mReady', toMaster')
      /\ NoAckBehindResults(mReady, toMaster) => NoAckBehindResults(mReady', toMaster')
      /\ \A b : Has(toMaster', b) => Has(toMaster, b)
      /\ \A a, b : LineNever(a, b, toMaster) => LineNever(a, b, toMaster')
  <2>1. CASE toMaster' = toMaster
    BY <1>1, <2>1 DEF ToMaster
  <2>2. CASE toMaster # <<>> /\ toMaster' = Tail(toMaster)
    <3>1. mReady' = mReady
      BY <1>1
    <3> QED
      BY <2>2, <3>1, LostKeeps, TailLine DEF ToMaster
  <2> QED
    BY <1>2, <2>1, <2>2
<1>4. /\ \A S : ToRemote(S) => ToRemote(S)'
      /\ \A a, b : Never(a, b, rReady, toRemote) => Never(a, b, rReady', toRemote')
  BY <1>1, <1>2, LostKeeps DEF ToRemote
<1>5. \A m, r : Ends(m, r) => Ends(m, r)'
  BY <1>1 DEF Ends
<1>6. \A r : Rests(r) => Rests(r)'
  BY <1>3, <1>4, <1>5 DEF Rests
<1>7. (Ended => Ended') /\ (Over => Over')
  BY <1>1, <1>3, <1>4, <1>5 DEF Ended, Over
<1>8. ASSUME NEW t \in TS!Tests PROVE Asked(t) => Asked(t)'
  BY <1>1, <1>3, <1>4, <1>5 DEF Asked
<1>9. ASSUME NEW t \in TS!Tests PROVE AcceptedTest(t) => AcceptedTest(t)'
  BY <1>1, <1>3, <1>4, <1>5 DEF AcceptedTest
<1>10. ASSUME NEW t \in TS!Tests PROVE Begun(t) => Begun(t)'
  BY <1>1, <1>3, <1>4, <1>5 DEF Begun
<1>11. ASSUME NEW t \in TS!Tests PROVE Serves(t) => Serves(t)'
  BY <1>1 DEF Serves
<1>12. ASSUME NEW t \in TS!Tests PROVE Running(t) => Running(t)'
  BY <1>1, <1>3, <1>4, <1>11 DEF Running
<1>13. ASSUME NEW t \in TS!Tests PROVE Ending(t) => Ending(t)'
  BY <1>1, <1>3, <1>4, <1>11 DEF Ending
<1> QED
  BY <1>1, <1>6, <1>7, <1>8, <1>9, <1>10, <1>12, <1>13 DEF Phase

\* Any step of the master's, unless it uses freed memory.
LEMMA MasterPhase ==
    ASSUME Sound, ~undefined, ~undefined', EndsOnce, Phase, UNCHANGED remoteVars,
           \/ M!StreamStep \/ M!ActivityStep \/ M!DispatchEnd \/ M!TimerStep
           \/ M!TimeoutReceiveResults \/ M!PingerSend
           \/ M!IoStep /\ ~M!FSM!Runs("dangling")
           \/ Steady /\ \E c \in Commands : M!Command(c)
    PROVE  EndsOnce' /\ Phase' /\ SessionStep
<1>1. /\ MasterSound /\ MB!TypeOK /\ MB!Owned /\ TestThread
      /\ UNCHANGED <<rState, rReady>>
  BY DEF Sound, MasterSound, remoteVars
<1>2. mState' = mState => SessionStep
  BY <1>1, Seen DEF Gone, SessionStep, TS!vars
<1>3. \A i \in {mActivity} : i # "done" => mDispatchers = 0
  BY DEF EndsOnce
<1>4. ASSUME /\ UNCHANGED <<mState, toMaster>>
             /\ mActivity' \in {"ready", "done"} => mActivity \in {"ready", "done"}
             /\ Rest(mReady, mReady', 0)
             /\ \/ toRemote' = toRemote
                \/ \E b \in Bytes \ ControlBytes : toRemote' = toRemote \o <<b>>
      PROVE  Phase'
  <2> HIDE DEF Phase
  <2>1. CASE toRemote' = toRemote
    BY <1>1, <1>4, <2>1, NothingSent, MasterKeeps
  <2>2. ASSUME NEW b \in Bytes \ ControlBytes, toRemote' = toRemote \o <<b>> PROVE Phase'
    <3> DEFINE w == <<b>>
    <3>1. w \in Seq(Bytes) /\ \A k \in ControlBytes : ~Has(w, k)
      BY ShortLines
    <3>2. toRemote' = toRemote \o w
      BY <2>2
    <3> HIDE DEF w
    <3> QED
      BY <1>1, <1>4, <3>1, <3>2, MasterKeeps
  <2> QED
    BY <1>4, <2>1, <2>2
<1>5. Rest(mReady, mReady, 0)
  <2>1. DOMAIN mReady \subseteq Nat \ {0}
    BY <1>1 DEF MB!TypeOK
  <2> QED
    BY <2>1 DEF Rest
<1>6. {"Data", "EndData"} \subseteq Bytes \ ControlBytes
  BY DEF Bytes, ControlBytes, UserCommands
<1>7. CASE M!StreamStep
  <2>1. CASE M!ResultsArrive
    BY <1>1, <1>2, <2>1, ResultsArrivePhase DEF EndsOnce
  <2>2. CASE M!FSM!ReadCompletes /\ UNCHANGED mDispatchers
    BY <1>1, <1>2, <2>2, SameMaster, MasterReadsPhase DEF EndsOnce
  <2> QED
    BY <1>7, <2>1, <2>2 DEF M!StreamStep
<1>8. CASE M!IoStep /\ ~M!FSM!Runs("dangling")
  <2>1. CASE M!ReceiveResults
    BY <1>1, <1>2, <2>1, ReceiveResultsPhase DEF EndsOnce
  <2>2. CASE M!FSM!Handle /\ UNCHANGED mDispatchers
    <3>1. /\ toMaster' = toMaster /\ mState # "Exited" /\ Rest(mReady, mReady', 1)
          /\ \/ \E on \in ControlBytes \cup {"Timeout"} :
                   (on = "Timeout" \/ HeadIs(mReady, on)) /\ MasterMoved(on)
             \/ HeadIs(mReady, "EndTest") /\ MasterQuits
             \/ UNCHANGED <<mState, mActivity, toRemote>>
      BY <1>1, <1>8, <2>2, SameMaster, MasterHandles
    <3>2. CASE \E on \in ControlBytes \cup {"Timeout"} :
                   (on = "Timeout" \/ HeadIs(mReady, on)) /\ MasterMoved(on)
      <4>1. Phase' /\ SessionStep /\ mState # "ThroughputMode"
        BY <1>1, <3>1, <3>2, MasterMoves
      <4>2. mDispatchers = 0
        BY <4>1 DEF EndsOnce, Sound, TestThread
      <4> QED
        BY <2>2, <4>1, <4>2 DEF EndsOnce
    <3>3. CASE HeadIs(mReady, "EndTest") /\ MasterQuits
      <4>1. \A S : ToMaster(S) => "EndTest" \in S
        BY <3>3, HeadPending DEF ToMaster, ControlBytes
      <4>2. ~Rests("RemoteIdle") /\ ~Rests("EndModeReceived") /\ ~Ended
        BY <4>1 DEF Rests, Ended
      <4>3. ASSUME NEW t \in TS!Tests
            PROVE  ~Asked(t) /\ ~AcceptedTest(t) /\ ~Begun(t) /\ ~Running(t) /\ ~Ending(t)
        BY <4>1 DEF Asked, AcceptedTest, Begun, Running, Ending
      <4>4. ~Over
        BY <3>1 DEF Over
      <4> QED
        BY <4>2, <4>3, <4>4 DEF Phase
    <3>4. CASE UNCHANGED <<mState, mActivity, toRemote>>
      <4>1. mActivity' = mActivity
        BY <3>4
      <4> HIDE DEF Phase
      <4>2. Phase'
        BY <1>1, <3>1, <3>4, <4>1, NothingSent, MasterKeeps
      <4> QED
        BY <1>2, <2>2, <3>4, <4>2 DEF EndsOnce
    <3> QED
      BY <3>1, <3>2, <3>3, <3>4
  <2> QED
    BY <1>8, <2>1, <2>2 DEF M!IoStep
<1>9. CASE M!ActivityStep \/ M!TimerStep
  <2>1. CASE (M!FSM!ActivityBegins \/ M!FSM!TimerExpires) /\ UNCHANGED mDispatchers
    <3>1. /\ UNCHANGED <<mState, toMaster, toRemote>> /\ Rest(mReady, mReady', 0)
      BY <1>1, <2>1, SameMaster, BeginsSound
    <3>2. \/ mActivity' = mActivity
          \/ mActivity \in {"starting", "cancelled"} /\ mActivity' \in {"cancelled", "reading"}
      BY <2>1 DEF M!FSM!ActivityBegins, M!FSM!ActivityCancel, M!FSM!ActivityRead, M!FSM!TimerExpires
    <3> QED
      BY <1>2, <1>4, <2>1, <3>1, <3>2 DEF EndsOnce
  <2>2. CASE M!Flood \/ M!GetResults
    <3>1. /\ UNCHANGED <<mState, mReady, toMaster, mDispatchers>>
          /\ mActivity' \in {"flooded", "waiting"} /\ mActivity \in {"reading", "flooded"}
          /\ \/ toRemote' = toRemote
             \/ \E b \in {"Data", "EndData"} : toRemote' = toRemote \o <<b>>
      BY <1>1, <2>2, FloodSound, GetResultsSound
    <3> QED
      BY <1>2, <1>4, <1>5, <1>6, <3>1 DEF EndsOnce
  <2>3. CASE M!ThroughputEnds
    <3>1. /\ UNCHANGED <<mState, mReady, toMaster, toRemote>>
          /\ mActivity' = "done" /\ mActivity = "ready"
          /\ mDispatchers' = mDispatchers + 1
      BY <1>1, <2>3, ThroughputEndsSound
    <3>2. mDispatchers = 0
      BY <3>1 DEF EndsOnce
    <3> QED
      BY <1>2, <1>4, <1>5, <3>1, <3>2 DEF EndsOnce
  <2> QED
    BY <1>9, <2>1, <2>2, <2>3 DEF M!ActivityStep, M!ActivityWorks, M!TimerStep
<1>10. CASE M!DispatchEnd
  BY <1>1, <1>10, DispatchEndPhase
<1>11. CASE M!TimeoutReceiveResults \/ M!PingerSend
  <2>1. /\ UNCHANGED <<mState, mActivity, mReady, toMaster, mDispatchers>>
        /\ \E b \in Bytes \ ControlBytes : toRemote' = toRemote \o <<b>>
    BY <1>1, <1>11, TimeoutResultsSound
  <2> QED
    BY <1>2, <1>4, <1>5, <2>1 DEF EndsOnce
<1>12. CASE Steady /\ \E c \in Commands : M!Command(c)
  BY <1>1, <1>12, UserPhase
<1> QED
  BY <1>7, <1>8, <1>9, <1>10, <1>11, <1>12

-------------------------------------------------------------------------------
(***************************************************************************)
(* The session.                                                            *)
(***************************************************************************)

\* A step of the system, whoever it is that gives the commands, as long as both
\* ends are at rest then.
MasterOrderly ==
    \/ M!StreamStep \/ M!ActivityStep \/ M!DispatchEnd \/ M!TimerStep
    \/ M!TimeoutReceiveResults \/ M!PingerSend
    \/ M!IoStep /\ (M!FSM!Runs("dangling") => undefined')
    \/ Steady /\ \E c \in Commands : M!Command(c)
RemoteOrderly ==
    \/ R!FSM!ReadCompletes \/ R!FSM!ActivityBegins \/ R!FSM!TimerExpires
    \/ R!FSM!Handle /\ (R!FSM!Runs("dangling") => undefined')
Orderly ==
    /\ undefined => undefined'
    /\ \/ MasterOrderly /\ UNCHANGED remoteVars
       \/ RemoteOrderly /\ UNCHANGED masterVars
       \/ Lose
       \/ UNCHANGED <<masterVars, remoteVars, toMaster, toRemote, undefined>>

LEMMA NextOrderly == ASSUME [Next]_vars PROVE Orderly
<1>1. undefined => undefined'
  BY DEF Next, vars, MasterStream, MasterIo, MasterActivity, MasterEnds, MasterTimer,
         ResultsTimer, Ping, RemoteStream, RemoteIo, RemoteActivity, RemoteTimer, Lose,
         User, Master, Remote
<1>2. CASE MasterStream \/ MasterIo \/ MasterActivity \/ MasterEnds \/ MasterTimer
           \/ ResultsTimer \/ Ping \/ User
  BY <1>1, <1>2, SettledSteady
  DEF MasterStream, MasterIo, MasterActivity, MasterEnds, MasterTimer, ResultsTimer, Ping, User,
      Master, Orderly, MasterOrderly
<1>3. CASE RemoteStream \/ RemoteIo \/ RemoteActivity \/ RemoteTimer
  BY <1>1, <1>3
  DEF RemoteStream, RemoteIo, RemoteActivity, RemoteTimer, Remote, Orderly, RemoteOrderly
<1>4. CASE Lose \/ UNCHANGED vars
  BY <1>1, <1>4 DEF Orderly, vars
<1> QED
  BY <1>2, <1>3, <1>4 DEF Next

LEMMA OrderlySound == ASSUME Sound, Orderly PROVE Sound'
<1>1. CASE MasterOrderly /\ UNCHANGED remoteVars
  BY <1>1, SystemSound DEF MasterOrderly, MasterStep, SystemStep
<1>2. CASE RemoteOrderly /\ UNCHANGED masterVars
  BY <1>2, SystemSound DEF RemoteOrderly, RemoteStep, SystemStep
<1>3. CASE Lose
  BY <1>3, SystemSound DEF Lose, SystemStep
<1>4. CASE UNCHANGED <<masterVars, remoteVars, toMaster, toRemote, undefined>>
  BY <1>4, SystemSound DEF SystemStep
<1> QED
  BY <1>1, <1>2, <1>3, <1>4 DEF Orderly

\* What is proved by induction: until freed memory is used, the two machines
\* are in a phase of a test.
Tested == undefined \/ (EndsOnce /\ Phase)

LEMMA TestedStep ==
    ASSUME Sound, Tested, Orderly
    PROVE  Tested' /\ SessionStep
<1>1. CASE undefined'
  <2>1. (Gone(mState) /\ Gone(rState))'
    BY <1>1 DEF Gone
  <2>2. TS!Break
    BY <2>1 DEF TS!Break, TS!Become
  <2> QED
    BY <1>1, <2>2 DEF Tested, SessionStep, TS!Next
<1>2. CASE ~undefined'
  <2>1. ~undefined
    BY <1>2 DEF Orderly
  <2>2. EndsOnce /\ Phase
    BY <2>1 DEF Tested
  <2>3. CASE MasterOrderly /\ UNCHANGED remoteVars
    <3>1. /\ UNCHANGED remoteVars
          /\ \/ M!StreamStep \/ M!ActivityStep \/ M!DispatchEnd \/ M!TimerStep
             \/ M!TimeoutReceiveResults \/ M!PingerSend
             \/ M!IoStep /\ ~M!FSM!Runs("dangling")
             \/ Steady /\ \E c \in Commands : M!Command(c)
      BY <1>2, <2>3 DEF MasterOrderly
    <3> QED
      BY <1>2, <2>1, <2>2, <3>1, MasterPhase DEF Tested
  <2>4. CASE RemoteOrderly /\ UNCHANGED masterVars
    <3>1. /\ UNCHANGED masterVars
          /\ \/ R!FSM!ReadCompletes \/ R!FSM!ActivityBegins \/ R!FSM!TimerExpires
             \/ R!FSM!Handle /\ ~R!FSM!Runs("dangling")
      BY <1>2, <2>4 DEF RemoteOrderly
    <3>2. Phase' /\ SessionStep
      BY <1>2, <2>1, <2>2, <3>1, RemotePhase
    <3>3. EndsOnce'
      BY <2>2, <3>1 DEF EndsOnce, masterVars
    <3> QED
      BY <3>2, <3>3 DEF Tested
  <2>5. CASE Lose
    <3>1. Phase' /\ UNCHANGED <<mState, rState, mActivity, mDispatchers, undefined>>
      BY <2>2, <2>5, LosePhase, LineTypes DEF Sound
    <3>2. SessionStep
      BY <2>1, <3>1, Seen
    <3> QED
      BY <2>2, <3>1, <3>2 DEF Tested, EndsOnce
  <2>6. CASE UNCHANGED <<masterVars, remoteVars, toMaster, toRemote, undefined>>
    <3>1. Phase'
      BY <2>2, <2>6
      DEF masterVars, remoteVars, Phase, Rests, Ended, Over, Asked, AcceptedTest, Begun,
          Running, Ending, Serves, Ends, ToMaster, ToRemote
    <3>2. SessionStep
      BY <2>1, <2>6, Seen DEF masterVars, remoteVars
    <3> QED
      BY <2>2, <2>6, <3>1, <3>2 DEF Tested, EndsOnce, masterVars
  <2> QED
    BY <2>3, <2>4, <2>5, <2>6 DEF Orderly
<1> QED
  BY <1>1, <1>2

LEMMA TestedInit == Init => Tested /\ TS!Init
<1> SUFFICES ASSUME Init PROVE Tested /\ TS!Init
  OBVIOUS
<1>1. /\ mState = "Idle" /\ rState = "RemoteIdle" /\ mReady = <<>> /\ rReady = <<>>
      /\ toMaster = <<>> /\ toRemote = <<>> /\ mDispatchers = 0 /\ ~undefined
  BY DEF Init, M!Init, R!Init, M!FSM!Init, R!FSM!Init
<1>2. ToRemote({"MasterAck", "EndModeCommand"}) /\ ToMaster({"RemoteAck"})
  BY <1>1 DEF ToRemote, ToMaster, Only, Pending, Queued, Has
<1>3. Phase
  BY <1>1, <1>2 DEF Phase, Rests, Ends
<1>4. TS!Init
  BY <1>1 DEF TS!Init, TS!At, Gone
<1> QED
  BY <1>1, <1>3, <1>4 DEF Tested, EndsOnce

LEMMA TestedHolds == Spec => [](Sound /\ Tested)
<1>1. Init => Sound /\ Tested
  BY SoundInit, TestedInit
<1>2. Sound /\ Tested /\ [Next]_vars => (Sound /\ Tested)'
  BY SoundStep, NextOrderly, TestedStep
<1> QED
  BY <1>1, <1>2, PTL DEF Spec

\* Until a handler of a deleted activity runs, whatever is lost and whatever
\* comes late, only bytes are under way that take the two machines one step on
\* in the test or none (MasterFSM.cpp, RemoteFSM.cpp); and the thread of the
\* throughput test works in its mode only, waits for one answer and ends the
\* mode once (MasterThroughput.cpp).
THEOREM BytesUnderWay == Spec => []UnderWay
<1>1. Sound /\ Tested => UnderWay
  BY DEF Sound, Tested, UnderWay
<1> QED
  BY <1>1, TestedHolds, PTL

\* The two machines together carry out one test after another: neither end is
\* ever more than one step ahead of the other, for any line, timers and user.
THEOREM CarriesOutTests == Spec => Session
<1>1. Init => TS!Init
  BY TestedInit
<1>2. Sound /\ Tested /\ [Next]_vars => [TS!Next]_(TS!vars)
  BY NextOrderly, TestedStep DEF SessionStep
<1>3. Spec => TS!Init /\ [][TS!Next]_(TS!vars)
  BY <1>1, <1>2, TestedHolds, PTL DEF Spec
<1> QED
  BY <1>3 DEF Session, TS!Spec

LEMMA TestedEnds == Sound /\ Tested => EndIsCurrent
BY DEF Sound, Tested, EndsOnce, TestThread, EndIsCurrent, Gone

\* The EndModeCommand of the throughput thread ends the mode it was posted for,
\* for any retries and late acknowledgements before it.
THEOREM EndsItsOwnMode == Spec => []EndIsCurrent
BY TestedEnds, TestedHolds, PTL

-------------------------------------------------------------------------------
(***************************************************************************)
(* The timers of the handshake under the master's steps.                   *)
(***************************************************************************)

\* The predicates of a machine's timers are those of BaseFSMProofs.
LEMMA SameTimers ==
    /\ \A q : (NoTimers(q) <=> MB!NoTimers(q)) /\ (NoTimers(q) <=> RB!NoTimers(q))
    /\ OneTimer(mReady, mTimer, mState) <=> MB!OneTimer
    /\ OneTimer(rReady, rTimer, rState) <=> RB!OneTimer
    /\ OneTimer(mReady, mTimer, mState)' <=> MB!OneTimer'
    /\ OneTimer(rReady, rTimer, rState)' <=> RB!OneTimer'
BY DEF NoTimers, MB!NoTimers, RB!NoTimers, OneTimer, MB!OneTimer, RB!OneTimer, TimerKinds,
       MB!TimerKinds, RB!TimerKinds

\* Every handshake state of the master's has a move on its timeout; no timer
\* runs in any other state.
LEMMA MasterTimeouts ==
    /\ mState \in M!MasterTimers => MB!MovesOn("Timeout") # {}
    /\ MB!TypeOK /\ mState \notin M!MasterTimers => mTimer = "none"
<1>1. ASSUME mState \in M!MasterTimers PROVE MB!MovesOn("Timeout") # {}
  <2>1. \E m \in M!MasterMoves : m.from = mState /\ m.on = "Timeout"
    BY <1>1 DEF M!MasterTimers, M!MasterMoves, M!MasterMove
  <2> QED
    BY <2>1 DEF MB!MovesOn
<1> QED
  BY <1>1 DEF MB!TypeOK

\* A handler of the master's dispatches none of the user's commands.
LEMMA MasterCarries ==
    ASSUME MB!TypeOK, Unasked, mReady # <<>>, NEW event, MB!Dispatched(event)
    PROVE  event \notin UserCommands
<1>1. 1 \in DOMAIN mReady /\ Head(mReady) = mReady[1]
  BY EmptySeq DEF MB!TypeOK
<1> QED
  BY <1>1 DEF MB!Dispatched, Unasked, UserCommands

LEMMA UnaskedLeft ==
    ASSUME Unasked, NEW d, MB!LeftOf(mReady', d), \A b \in UserCommands : ~Has(toMaster', b),
           mDispatchers' > 0 =>
              mState' \in {"ThroughputMode", "WaitAckAfterEndMode", "Idle", "Exited"}
    PROVE  Unasked'
BY DEF Unasked, MB!LeftOf, MB!From, UserCommands

\* Where no timer runs, no handler of one is queued behind the results.
LEMMA DoneLeft ==
    ASSUME MB!TypeOK, TestThread, DoneLast, NEW d \in {0, 1}, MB!LeftOf(mReady', d),
           mActivity' = mActivity
    PROVE  DoneLast'
<1>1. mActivity \in {"waiting", "ready", "done"} => mTimer = "none"
  BY MasterTimeouts DEF TestThread, M!MasterTimers
<1>2. mActivity' \in {"ready", "done"} => NoTimers(mReady')
  BY <1>1, MasterTables, MB!NoTimersLeft, SameTimers DEF DoneLast
<1>3. ASSUME NEW i \in DOMAIN mReady', NEW j \in DOMAIN mReady',
             mReady'[i].kind = "results", i < j
      PROVE  mReady'[j].kind \notin TimerKinds
  <2>1. i + d \in DOMAIN mReady /\ mReady[i + d].kind = "results"
    BY <1>3 DEF MB!LeftOf, MB!From
  <2>2. mTimer = "none"
    BY <1>1, <2>1 DEF TestThread, ResultsIn
  <2>3. j + d \in DOMAIN mReady /\ MB!From(mReady'[j], mReady[j + d])
    BY <2>2 DEF MB!LeftOf
  <2>4. i + d < j + d
    BY <1>3 DEF MB!LeftOf
  <2>5. mReady[j + d].kind \notin TimerKinds
    BY <2>1, <2>3, <2>4 DEF DoneLast
  <2> QED
    BY <2>3, <2>5 DEF MB!From, TimerKinds
<1> QED
  BY <1>2, <1>3 DEF DoneLast

\* An activity that begins, or none, waits for nothing.
LEMMA BegunLast ==
    ASSUME TestThread', mActivity' \in {"none", "starting", "cancelled", "reading"}
    PROVE  DoneLast'
BY DEF TestThread, DoneLast, ResultsIn

\* The master asks again, or says nothing of the tests.
AsksAgain == \E t \in TS!Tests : /\ mState = TS!Asking(t) /\ mState' = TS!Asking(t)
                                 /\ toRemote' = toRemote \o <<Asks(t)>>
AsksNothing ==
    \E w \in Seq(Bytes) :
        /\ toRemote' = toRemote \o w
        /\ \A t \in TS!Tests : /\ ~Has(w, Asks(t))
                               /\ mState' = TS!Asking(t) =>
                                     mState = TS!Asking(t) /\ ~Has(w, "MasterAck")

LEMMA SaysByte ==
    ASSUME toRemote \in Seq(Bytes), NEW b \in Bytes \ {"AvailabilityModeCommand", "ThroughputModeCommand"},
           toRemote' = toRemote \o <<b>> \/ toRemote' = toRemote,
           \A t \in TS!Tests : mState' = TS!Asking(t) =>
                 mState = TS!Asking(t) /\ (toRemote' = toRemote \/ b # "MasterAck")
    PROVE  AsksNothing
<1>1. ASSUME toRemote' = toRemote PROVE AsksNothing
  <2>1. <<>> \in Seq(Bytes) /\ toRemote' = toRemote \o <<>> /\ \A c : ~Has(<<>>, c)
    BY <1>1, ShortLines
  <2> QED
    BY <1>1, <2>1 DEF AsksNothing
<1>2. ASSUME toRemote' = toRemote \o <<b>>, toRemote' # toRemote PROVE AsksNothing
  <2> DEFINE w == <<b>>
  <2>1. w \in Seq(Bytes) /\ \A c : Has(w, c) => c = b
    BY ShortLines
  <2>2. toRemote' = toRemote \o w
    BY <1>2
  <2> HIDE DEF w
  <2>3. \A t \in TS!Tests : Asks(t) # b
    BY StateNames
  <2> QED
    BY <1>2, <2>1, <2>2, <2>3 DEF AsksNothing
<1> QED
  BY <1>1, <1>2

\* A handler.
LEMMA MasterHandleTimers ==
    ASSUME MasterSound, MasterSound', MasterRetries, MB!Handle, mDispatchers' = mDispatchers
    PROVE  MasterRetries' /\ (AsksAgain \/ AsksNothing)
<1>1. MB!TypeOK /\ MB!TypeOK' /\ TestThread /\ TestThread'
      /\ MasterTimed /\ DoneLast /\ Unasked
      /\ toRemote \in Seq(Bytes) /\ toRemote' \in Seq(Bytes) /\ 1 \in {0, 1}
  BY Names DEF MasterSound, MasterRetries, MB!TypeOK
<1>2. /\ mReady # <<>> /\ toMaster' = toMaster
      /\ \/ MB!Halted /\ (toRemote' = toRemote \/ toRemote' = toRemote \o <<"EndTest">>)
         \/ \E event \in MB!Events :
               /\ MB!Dispatched(event) /\ MB!MovesBy(event) /\ MB!Moved
               /\ MB!LeftOf(mReady', 1)
               /\ mState \in M!MasterTimers /\ event = "Timeout" => NoTimers(mReady')
         \/ /\ MB!Passes /\ MB!LeftOf(mReady', 1)
            /\ mState \in M!MasterTimers => OneTimer(mReady, mTimer, mState)'
  <2>1. CASE mState \in M!MasterTimers
    <3>1. MB!OneTimer /\ MB!MovesOn("Timeout") # {}
      BY <1>1, <2>1, MasterTimeouts, SameTimers DEF MasterTimed
    <3> QED
      BY <1>1, <3>1, MasterTables, MB!HandleLeft, MB!OneTimerHandles, SameTimers
  <2>2. CASE mState \notin M!MasterTimers
    BY <1>1, <2>2, MasterTables, MB!HandleLeft
  <2> QED
    BY <2>1, <2>2
<1>3. \A b \in UserCommands : ~Has(toMaster', b)
  BY <1>1, <1>2 DEF Unasked
<1>4. CASE MB!Halted /\ (toRemote' = toRemote \/ toRemote' = toRemote \o <<"EndTest">>)
  <2>1. mState' = "Exited" /\ mReady' = <<>> /\ mActivity' = "none"
    BY <1>4 DEF MB!Halted
  <2>2. MasterTimed' /\ Unasked'
    BY <1>3, <2>1 DEF MasterTimed, M!MasterTimers, Unasked
  <2>3. DoneLast'
    BY <1>1, <2>1, BegunLast
  <2>4. AsksNothing
    <3>1. /\ "EndTest" \in Bytes \ {"AvailabilityModeCommand", "ThroughputModeCommand"}
          /\ \A t \in TS!Tests : mState' # TS!Asking(t)
      BY <2>1, StateNames DEF Bytes, ControlBytes
    <3> QED
      BY <1>1, <1>4, <3>1, SaysByte
  <2> QED
    BY <2>2, <2>3, <2>4 DEF MasterRetries
<1>5. ASSUME NEW event \in MB!Events,
             MB!Dispatched(event), MB!MovesBy(event), MB!Moved, MB!LeftOf(mReady', 1),
             mState \in M!MasterTimers /\ event = "Timeout" => NoTimers(mReady')
      PROVE  MasterRetries' /\ (AsksAgain \/ AsksNothing)
  <2>1. event \notin UserCommands /\ MasterMoved(event)
    BY <1>1, <1>2, <1>5, MasterCarries, MasterMovedFacts
  <2>2. PICK byte \in ControlBytes : /\ MasterGoes(mState, event, mState', byte)
                                     /\ toRemote' = toRemote \o <<byte>>
    BY <2>1 DEF MasterMoved
  <2>3. \A t \in TS!Tests : event # Asks(t) /\ event # "EndModeCommand"
    BY <2>1, StateNames DEF UserCommands
  <2>4. \/ /\ mState' \in {"Idle", "AvailabilityMode", "ThroughputMode"} /\ byte = "MasterAck"
           /\ \/ mState = mState' \/ mState' = "Idle"
              \/ \E t \in TS!Tests : mState = TS!Asking(t)
        \/ /\ event = "Timeout" /\ mState' = mState
           /\ \/ mState = "WaitAckAfterEndMode" /\ byte = "EndModeCommand"
              \/ \E t \in TS!Tests : mState = TS!Asking(t) /\ byte = Asks(t)
    BY <2>2, <2>3, StateNames DEF MasterGoes
  <2>5. \A t \in TS!Tests : /\ TS!Asking(t) \in M!MasterTimers
                            /\ TS!Asking(t) \notin {"Idle", "AvailabilityMode", "ThroughputMode",
                                                    "WaitAckAfterEndMode", "Exited"}
    BY StateNames DEF M!MasterTimers
  <2>6. DoneLast'
    BY <1>1, <2>1, BegunLast DEF MasterMoved
  <2>7. Unasked'
    <3>1. mDispatchers' > 0 =>
              mState' \in {"ThroughputMode", "WaitAckAfterEndMode", "Idle", "Exited"}
      BY <1>1, <2>4, <2>5 DEF Unasked
    <3> QED
      BY <1>1, <1>3, <1>5, <3>1, UnaskedLeft
  <2>8. MasterTimed'
    <3> SUFFICES ASSUME mState' \in M!MasterTimers PROVE OneTimer(mReady, mTimer, mState)'
      BY DEF MasterTimed
    <3>1. event = "Timeout" /\ mState \in M!MasterTimers
      BY <2>4 DEF M!MasterTimers
    <3>2. MB!NoTimers(mReady')
      BY <1>5, <3>1, SameTimers
    <3> QED
      BY <1>5, <3>2, MasterTables, MB!TimerStarted, SameTimers
  <2>9. AsksAgain \/ AsksNothing
    <3>1. CASE byte \in {"MasterAck", "EndModeCommand"} /\ \A t \in TS!Tests : mState' # TS!Asking(t)
      <4>1. byte \in Bytes \ {"AvailabilityModeCommand", "ThroughputModeCommand"}
        BY <3>1 DEF Bytes
      <4> QED
        BY <1>1, <2>2, <3>1, <4>1, SaysByte
    <3>2. CASE mState' = mState /\ \E t \in TS!Tests : mState = TS!Asking(t) /\ byte = Asks(t)
      BY <2>2, <3>2 DEF AsksAgain
    <3> QED
      BY <2>4, <2>5, <3>1, <3>2
  <2> QED
    BY <2>6, <2>7, <2>8, <2>9 DEF MasterRetries
<1>6. CASE /\ MB!Passes /\ MB!LeftOf(mReady', 1)
           /\ mState \in M!MasterTimers => OneTimer(mReady, mTimer, mState)'
  <2>1. mState' = mState /\ mActivity' = mActivity
    BY <1>6 DEF MB!Passes
  <2>2. MasterTimed'
    BY <1>6, <2>1 DEF MasterTimed
  <2>3. DoneLast'
    BY <1>1, <1>6, <2>1, DoneLeft
  <2>4. Unasked'
    BY <1>1, <1>3, <1>6, <2>1, UnaskedLeft DEF Unasked
  <2>5. toRemote' = toRemote
    <3>1. \A a \in M!MasterActivities, b \in MB!Bytes : M!MasterReplies[a][b] = <<>>
      BY Names DEF M!MasterReplies
    <3>2. toRemote \o <<>> = toRemote
      BY <1>1
    <3> QED
      BY <1>6, <3>1, <3>2 DEF MB!Passes
  <2>6. AsksNothing
    <3>1. "Data" \in Bytes \ {"AvailabilityModeCommand", "ThroughputModeCommand"}
      BY DEF Bytes
    <3> QED
      BY <1>1, <2>1, <2>5, <3>1, SaysByte
  <2> QED
    BY <2>2, <2>3, <2>4, <2>6 DEF MasterRetries
<1> QED
  BY <1>2, <1>4, <1>5, <1>6

\* A command, from a thread that waits for no handler or with none queued.
LEMMA MasterCommandTimers ==
    ASSUME MasterSound, MasterSound', MasterRetries, NEW c \in UserCommands \cup {"EndTest"},
           MB!Command(c),
           NoTimers(mReady) \/ (c = "EndModeCommand" /\ mState # "AvailabilityMode"),
           mDispatchers' > 0 => /\ mState \in {"ThroughputMode", "WaitAckAfterEndMode", "Idle"}
                                /\ c = "EndModeCommand"
    PROVE  /\ MasterRetries'
           /\ \/ AsksNothing
              \/ \E t \in TS!Tests : /\ c = Asks(t) /\ mState = "Idle" /\ mState' = TS!Asking(t)
                                     /\ toRemote' = toRemote \o <<Asks(t)>>
<1>1. MB!TypeOK /\ MB!TypeOK' /\ TestThread /\ TestThread'
      /\ MasterTimed /\ DoneLast /\ Unasked
      /\ toRemote \in Seq(Bytes) /\ toRemote' \in Seq(Bytes) /\ 0 \in {0, 1}
  BY Names DEF MasterSound, MasterRetries, MB!TypeOK
<1>2. /\ toMaster' = toMaster
      /\ \/ MB!Quits
         \/ MB!MovesBy(c) /\ MB!Moved /\ MB!LeftOf(mReady', 0)
         \/ UNCHANGED <<mState, mTimer, mReady, mActivity, toRemote>>
  <2>1. c \in MB!UserCommands \cup {"EndTest"}
    BY Names
  <2> QED
    BY <1>1, <2>1, MasterTables, MB!CommandLeft
<1>3. \A b \in UserCommands : ~Has(toMaster', b)
  BY <1>1, <1>2 DEF Unasked
<1>4. CASE MB!Quits
  <2>1. mState' = "Exited" /\ mReady' = <<>> /\ mActivity' = "none"
        /\ toRemote' = toRemote \o <<"EndTest">>
    BY <1>4 DEF MB!Quits, MB!Halted
  <2>2. MasterTimed' /\ Unasked'
    BY <1>3, <2>1 DEF MasterTimed, M!MasterTimers, Unasked
  <2>3. DoneLast'
    BY <1>1, <2>1, BegunLast
  <2>4. AsksNothing
    <3>1. /\ "EndTest" \in Bytes \ {"AvailabilityModeCommand", "ThroughputModeCommand"}
          /\ \A t \in TS!Tests : mState' # TS!Asking(t)
      BY <2>1, StateNames DEF Bytes, ControlBytes
    <3> QED
      BY <1>1, <2>1, <3>1, SaysByte
  <2> QED
    BY <2>2, <2>3, <2>4 DEF MasterRetries
<1>5. CASE MB!MovesBy(c) /\ MB!Moved /\ MB!LeftOf(mReady', 0)
  <2>1. MasterMoved(c)
    BY <1>1, <1>5, MasterMovedFacts
  <2>2. PICK byte \in ControlBytes : /\ MasterGoes(mState, c, mState', byte)
                                     /\ toRemote' = toRemote \o <<byte>>
    BY <2>1 DEF MasterMoved
  <2>3. c \notin {"RemoteAck", "Timeout"}
    BY DEF UserCommands
  <2>4. \/ /\ mState' = "WaitAckAfterEndMode" /\ byte = "EndModeCommand"
           /\ mState \in {"AvailabilityMode", "ThroughputMode"}
        \/ \E t \in TS!Tests : /\ mState = "Idle" /\ mState' = TS!Asking(t)
                               /\ c = Asks(t) /\ byte = Asks(t)
    BY <2>2, <2>3, StateNames DEF MasterGoes
  <2>5. DoneLast'
    BY <1>1, <2>1, BegunLast DEF MasterMoved
  <2>6. MasterTimed'
    <3> SUFFICES ASSUME mState' \in M!MasterTimers PROVE OneTimer(mReady, mTimer, mState)'
      BY DEF MasterTimed
    <3>1. NoTimers(mReady)
      <4>1. c = "EndModeCommand" /\ mState # "AvailabilityMode" => mState = "ThroughputMode"
        BY <2>4, StateNames
      <4> QED
        BY <1>1, <2>1, <4>1 DEF MasterMoved, DoneLast
    <3>2. mTimer = "none"
      BY <1>1, <2>4, MasterTimeouts DEF M!MasterTimers
    <3>3. MB!NoTimers(mReady')
      BY <1>5, <3>1, <3>2, MasterTables, MB!NoTimersLeft, SameTimers
    <3> QED
      BY <1>5, <3>3, MasterTables, MB!TimerStarted, SameTimers
  <2>7. Unasked'
    <3>1. mDispatchers' > 0 =>
              mState' \in {"ThroughputMode", "WaitAckAfterEndMode", "Idle", "Exited"}
      BY <2>4, StateNames
    <3> QED
      BY <1>1, <1>3, <1>5, <3>1, UnaskedLeft
  <2>8. CASE mState' = "WaitAckAfterEndMode" /\ byte = "EndModeCommand"
    <3>1. /\ "EndModeCommand" \in Bytes \ {"AvailabilityModeCommand", "ThroughputModeCommand"}
          /\ \A t \in TS!Tests : mState' # TS!Asking(t)
      BY <2>8, StateNames DEF Bytes, ControlBytes, UserCommands
    <3>2. AsksNothing
      BY <1>1, <2>2, <2>8, <3>1, SaysByte
    <3> QED
      BY <2>5, <2>6, <2>7, <3>2 DEF MasterRetries
  <2> QED
    BY <2>2, <2>4, <2>5, <2>6, <2>7, <2>8 DEF MasterRetries
<1>6. CASE UNCHANGED <<mState, mTimer, mReady, mActivity, toRemote>>
  <2>1. MasterTimed' /\ DoneLast' /\ Unasked'
    BY <1>1, <1>3, <1>6 DEF MasterTimed, DoneLast, Unasked
  <2>2. AsksNothing
    <3>1. "Data" \in Bytes \ {"AvailabilityModeCommand", "ThroughputModeCommand"}
      BY DEF Bytes
    <3> QED
      BY <1>1, <1>6, <3>1, SaysByte
  <2> QED
    BY <2>1, <2>2 DEF MasterRetries
<1> QED
  BY <1>2, <1>4, <1>5, <1>6

\* A step that leaves the queue as it is, and the machine where it is.
LEMMA MasterWorksTimers ==
    ASSUME MasterSound, MasterRetries, UNCHANGED <<mState, mTimer, mReady, toMaster>>,
           mActivity' \in {"ready", "done"} => mActivity \in {"ready", "done"},
           mDispatchers' > 0 => mDispatchers > 0 \/ mState = "ThroughputMode",
           \/ toRemote' = toRemote
           \/ \E b \in Bytes \ ControlBytes : toRemote' = toRemote \o <<b>>
    PROVE  MasterRetries' /\ AsksNothing
<1>1. MasterTimed' /\ DoneLast' /\ Unasked'
  BY DEF MasterRetries, MasterTimed, DoneLast, Unasked
<1>2. AsksNothing
  <2>1. /\ \A b \in Bytes \ ControlBytes :
              /\ b \in Bytes \ {"AvailabilityModeCommand", "ThroughputModeCommand"}
              /\ b # "MasterAck"
        /\ "Data" \in Bytes \ ControlBytes /\ toRemote \in Seq(Bytes)
    BY LineTypes DEF Bytes, ControlBytes, UserCommands, MasterSound
  <2> QED
    BY <2>1, SaysByte
<1> QED
  BY <1>1, <1>2 DEF MasterRetries

\* A read of the master's.
LEMMA MasterReadTimers ==
    ASSUME MasterSound, MasterRetries, MB!ReadCompletes, mDispatchers' = mDispatchers
    PROVE  MasterRetries' /\ AsksNothing
<1>1. MB!TypeOK /\ MasterTimed /\ DoneLast /\ Unasked /\ toRemote \in Seq(Bytes)
      /\ toMaster \in Seq(Bytes)
  BY LineTypes DEF MasterSound, MasterRetries
<1>2. /\ toMaster # <<>> /\ toMaster' = Tail(toMaster)
      /\ UNCHANGED <<mState, mActivity, toRemote>>
      /\ \E kind, owner : Pulled(mReady, mReady', kind, owner, Head(toMaster))
  BY MasterReads DEF MasterSound
<1>3. /\ NoTimers(mReady) => NoTimers(mReady')
      /\ OneTimer(mReady, mTimer, mState) => OneTimer(mReady, mTimer, mState)'
      /\ \A i \in DOMAIN mReady' : mReady'[i].kind \in TimerKinds \cup {"results"} =>
            i \in DOMAIN mReady /\ mReady'[i].kind = mReady[i].kind
  BY <1>1, MasterTables, MB!ReadTimers, SameTimers DEF TimerKinds, MB!TimerKinds
<1>4. MasterTimed' /\ DoneLast'
  BY <1>1, <1>2, <1>3 DEF MasterTimed, DoneLast
<1>5. Unasked'
  <2>1. Has(toMaster, Head(toMaster)) /\ \A b : Has(toMaster', b) => Has(toMaster, b)
    BY <1>1, <1>2, TailLine
  <2>2. \A i \in DOMAIN mReady' : \/ mReady'[i].byte = Head(toMaster)
                                  \/ i \in DOMAIN mReady /\ mReady'[i].byte = mReady[i].byte
    BY <1>2 DEF Pulled
  <2> QED
    BY <1>1, <1>2, <2>1, <2>2 DEF Unasked
<1>6. AsksNothing
  <2>1. "Data" \in Bytes \ {"AvailabilityModeCommand", "ThroughputModeCommand"}
    BY DEF Bytes
  <2> QED
    BY <1>1, <1>2, <2>1, SaysByte
<1> QED
  BY <1>4, <1>5, <1>6 DEF MasterRetries

\* The results arrive behind every other handler ...
LEMMA ResultsArriveTimers ==
    ASSUME MasterSound, MasterRetries, M!ResultsArrive
    PROVE  MasterRetries' /\ AsksNothing
<1>1. MB!TypeOK /\ MB!TypeOK' /\ MasterTimed /\ DoneLast /\ Unasked /\ toRemote \in Seq(Bytes)
  BY LineTypes, ResultsArriveSound DEF MasterSound, MasterRetries
<1>2. /\ UNCHANGED <<mState, mActivity, toRemote, mDispatchers>>
      /\ mActivity = "waiting" /\ mState = "ThroughputMode"
      /\ \A b \in ControlBytes : Has(toMaster', b) => Has(toMaster, b)
      /\ \A i \in DOMAIN mReady' :
            \/ i \in DOMAIN mReady /\ mReady'[i] = mReady[i]
            \/ mReady'[i].kind = "results" /\ \A j \in DOMAIN mReady' : j <= i
  BY ResultsArriveSound DEF MasterSound, TestThread
<1>3. DOMAIN mReady' \subseteq Nat
  BY <1>1 DEF MB!TypeOK
<1>4. MasterTimed'
  BY <1>2 DEF MasterTimed, M!MasterTimers
<1>5. DoneLast'
  <2> SUFFICES ASSUME NEW i \in DOMAIN mReady', NEW j \in DOMAIN mReady',
                      mReady'[i].kind = "results", i < j
               PROVE  mReady'[j].kind \notin TimerKinds
    BY <1>2 DEF DoneLast
  <2>1. i \in DOMAIN mReady /\ mReady'[i] = mReady[i]
    <3>1. ~(j <= i)
      BY <1>3
    <3> QED
      BY <1>2, <3>1
  <2> QED
    BY <1>1, <1>2, <2>1 DEF DoneLast, TimerKinds
<1>6. Unasked'
  <2>1. \A i \in DOMAIN mReady' : mReady'[i].byte \notin UserCommands
    <3> DEFINE h == M!FSM!Handler("results", mState, "Result")
               S == MB!HandlerSet \cup {h}
    <3>1. mReady \in Seq(S) /\ h \in S /\ h.byte = "Result"
      BY <1>1 DEF MB!TypeOK, M!FSM!Handler
    <3>2. mReady' = Append(mReady, h)
      BY DEF M!ResultsArrive
    <3> HIDE DEF h, S
    <3>3. \A i \in DOMAIN mReady' : (i \in DOMAIN mReady /\ mReady'[i] = mReady[i]) \/ mReady'[i] = h
      BY <3>1, <3>2, AppendProperties
    <3> QED
      BY <1>1, <3>1, <3>3 DEF Unasked, UserCommands
  <2> QED
    BY <1>1, <1>2, <2>1 DEF Unasked, ControlBytes
<1>7. AsksNothing
  <2>1. "Data" \in Bytes \ {"AvailabilityModeCommand", "ThroughputModeCommand"}
    BY DEF Bytes
  <2> QED
    BY <1>1, <1>2, <2>1, SaysByte
<1> QED
  BY <1>4, <1>5, <1>6, <1>7 DEF MasterRetries

\* ... and are received before every handler that was queued after them.
LEMMA ReceiveResultsTimers ==
    ASSUME MasterSound, MasterRetries, M!ReceiveResults
    PROVE  MasterRetries' /\ AsksNothing
<1>1. MB!TypeOK /\ MB!TypeOK' /\ MasterTimed /\ DoneLast /\ Unasked /\ toRemote \in Seq(Bytes)
  BY LineTypes, ReceiveResultsSound DEF MasterSound, MasterRetries
<1>2. /\ UNCHANGED <<mState, toMaster, toRemote, mDispatchers>>
      /\ 1 \in ResultsIn(mReady) /\ mState = "ThroughputMode"
  BY ReceiveResultsSound DEF MasterSound, TestThread
<1>3. /\ \A i \in DOMAIN mReady' : i + 1 \in DOMAIN mReady /\ mReady'[i] = mReady[i + 1]
      /\ DOMAIN mReady' \subseteq Nat \ {0}
  <2>1. mReady # <<>> /\ mReady' = Tail(mReady)
    BY DEF M!ReceiveResults, M!FSM!Runs
  <2>2. \A i \in DOMAIN Tail(mReady) : i + 1 \in DOMAIN mReady /\ Tail(mReady)[i] = mReady[i + 1]
    BY <1>1, <2>1, MasterTables, MB!TailLeft
  <2> QED
    BY <1>1, <2>1, <2>2 DEF MB!TypeOK
<1>4. MasterTimed'
  BY <1>2 DEF MasterTimed, M!MasterTimers
<1>5. DoneLast'
  <2>1. \A i \in DOMAIN mReady' : mReady'[i].kind \notin TimerKinds
    <3>1. \A i \in DOMAIN mReady' : 1 < i + 1
      BY <1>3
    <3> QED
      BY <1>1, <1>2, <1>3, <3>1 DEF DoneLast, ResultsIn
  <2> QED
    BY <2>1 DEF DoneLast, NoTimers
<1>6. Unasked'
  BY <1>1, <1>2, <1>3 DEF Unasked
<1>7. AsksNothing
  <2>1. "Data" \in Bytes \ {"AvailabilityModeCommand", "ThroughputModeCommand"}
    BY DEF Bytes
  <2> QED
    BY <1>1, <1>2, <2>1, SaysByte
<1> QED
  BY <1>4, <1>5, <1>6, <1>7 DEF MasterRetries

\* A timer expires.
LEMMA MasterExpiresTimers ==
    ASSUME MasterSound, MasterRetries, MB!TimerExpires, mDispatchers' = mDispatchers
    PROVE  MasterRetries' /\ AsksNothing
<1>1. MB!TypeOK /\ MasterTimed /\ DoneLast /\ Unasked /\ toRemote \in Seq(Bytes) /\ TestThread
  BY LineTypes DEF MasterSound, MasterRetries
<1>2. /\ mTimer = "armed" /\ UNCHANGED <<mState, mActivity, toMaster, toRemote>>
      /\ mReady' = Append(mReady, MB!Handler("expired", mState, "Timeout"))
  BY DEF MB!TimerExpires
<1>3. mState \in M!MasterTimers
  BY <1>1, <1>2, MasterTimeouts
<1>4. mActivity \notin {"waiting", "ready", "done"} /\ ResultsIn(mReady) = {}
  BY <1>1, <1>3 DEF TestThread, M!MasterTimers
<1>5. MasterTimed'
  <2>1. MB!OneTimer
    BY <1>1, <1>3, SameTimers DEF MasterTimed
  <2> QED
    BY <1>1, <2>1, MasterTables, MB!ExpiresTimers, SameTimers DEF MasterTimed
<1>6. \A i \in DOMAIN mReady' : \/ i \in DOMAIN mReady /\ mReady'[i] = mReady[i]
                                \/ mReady'[i].kind = "expired" /\ mReady'[i].byte = "Timeout"
  <2> DEFINE h == MB!Handler("expired", mState, "Timeout")
             S == MB!HandlerSet \cup {h}
  <2>1. mReady \in Seq(S) /\ h \in S /\ h.byte = "Timeout" /\ h.kind = "expired"
    BY <1>1 DEF MB!TypeOK, MB!Handler
  <2>2. mReady' = Append(mReady, h)
    BY <1>2
  <2> HIDE DEF h, S
  <2> QED
    BY <2>1, <2>2, AppendProperties
<1>7. DoneLast'
  BY <1>2, <1>4, <1>6 DEF DoneLast, ResultsIn
<1>8. Unasked'
  BY <1>1, <1>2, <1>6 DEF Unasked, UserCommands
<1>9. AsksNothing
  <2>1. "Data" \in Bytes \ {"AvailabilityModeCommand", "ThroughputModeCommand"}
    BY DEF Bytes
  <2> QED
    BY <1>1, <1>2, <2>1, SaysByte
<1> QED
  BY <1>5, <1>7, <1>8, <1>9 DEF MasterRetries

\* A test is asked for only when both ends are at rest.
AsksFirst ==
    /\ Steady /\ mState = "Idle"
    /\ \E t \in TS!Tests : mState' = TS!Asking(t) /\ toRemote' = toRemote \o <<Asks(t)>>

\* Any step of the master's.
LEMMA MasterStepTimers ==
    ASSUME MasterSound, MasterSound', MasterRetries,
           \/ M!StreamStep \/ M!IoStep \/ M!ActivityStep \/ M!DispatchEnd \/ M!TimerStep
           \/ M!TimeoutReceiveResults \/ M!PingerSend
           \/ Steady /\ \E c \in Commands : M!Command(c)
    PROVE  MasterRetries' /\ (AsksFirst \/ AsksAgain \/ AsksNothing)
<1>1. {"Data", "EndData"} \subseteq Bytes \ ControlBytes
  BY DEF Bytes, ControlBytes, UserCommands
<1>2. CASE M!StreamStep
  BY <1>2, SameMaster, ResultsArriveTimers, MasterReadTimers DEF M!StreamStep
<1>3. CASE M!IoStep
  BY <1>3, SameMaster, ReceiveResultsTimers, MasterHandleTimers DEF M!IoStep
<1>4. CASE M!ActivityStep \/ M!TimerStep
  <2>1. CASE M!FSM!TimerExpires /\ UNCHANGED mDispatchers
    BY <2>1, SameMaster, MasterExpiresTimers
  <2>2. CASE M!FSM!ActivityBegins /\ UNCHANGED mDispatchers
    <3>1. /\ UNCHANGED <<mState, mTimer, mReady, toMaster, toRemote, mDispatchers>>
          /\ mActivity' \in {"cancelled", "reading"}
      BY <2>2 DEF M!FSM!ActivityBegins, M!FSM!ActivityCancel, M!FSM!ActivityRead
    <3> QED
      BY <3>1, MasterWorksTimers
  <2>3. CASE M!Flood \/ M!GetResults
    <3>1. /\ UNCHANGED <<mState, mReady, toMaster, mDispatchers>>
          /\ mActivity' \in {"flooded", "waiting"}
          /\ \/ toRemote' = toRemote
             \/ \E b \in {"Data", "EndData"} : toRemote' = toRemote \o <<b>>
      BY <2>3, FloodSound, GetResultsSound
    <3>2. mTimer' = mTimer
      BY <2>3 DEF M!Flood, M!GetResults
    <3> QED
      BY <1>1, <3>1, <3>2, MasterWorksTimers
  <2>4. CASE M!ThroughputEnds
    <3>1. /\ UNCHANGED <<mState, mReady, toMaster, toRemote>>
          /\ mActivity' = "done" /\ mActivity = "ready" /\ mTimer' = mTimer
      BY <2>4, ThroughputEndsSound DEF M!ThroughputEnds
    <3>2. mState = "ThroughputMode"
      BY <3>1 DEF MasterSound, TestThread
    <3> QED
      BY <3>1, <3>2, MasterWorksTimers
  <2> QED
    BY <1>4, <2>1, <2>2, <2>3, <2>4 DEF M!ActivityStep, M!ActivityWorks, M!TimerStep
<1>5. CASE M!DispatchEnd
  <2>1. MB!Command("EndModeCommand") /\ mDispatchers > 0 /\ mState # "Exited"
    BY <1>5, SameMaster DEF M!DispatchEnd, UserCommands, MB!Command
  <2>2. mState \in {"ThroughputMode", "WaitAckAfterEndMode", "Idle"}
    BY <2>1 DEF MasterRetries, Unasked
  <2>3. mState # "AvailabilityMode" /\ "EndModeCommand" \in UserCommands \cup {"EndTest"}
    BY <2>2 DEF UserCommands
  <2>4. /\ MasterRetries'
        /\ \/ AsksNothing
           \/ \E t \in TS!Tests : /\ "EndModeCommand" = Asks(t)
                                  /\ mState = "Idle" /\ mState' = TS!Asking(t)
                                  /\ toRemote' = toRemote \o <<Asks(t)>>
    BY <2>1, <2>2, <2>3, MasterCommandTimers
  <2>5. \A t \in TS!Tests : Asks(t) # "EndModeCommand"
    BY StateNames
  <2> QED
    BY <2>4, <2>5
<1>6. CASE M!TimeoutReceiveResults \/ M!PingerSend
  <2>1. /\ UNCHANGED <<mState, mActivity, mReady, toMaster, mDispatchers>>
        /\ \E b \in Bytes \ ControlBytes : toRemote' = toRemote \o <<b>>
    BY <1>6, TimeoutResultsSound
  <2>2. mTimer' = mTimer
    BY <1>6 DEF M!TimeoutReceiveResults, M!PingerSend
  <2> QED
    BY <2>1, <2>2, MasterWorksTimers
<1>7. CASE Steady /\ \E c \in Commands : M!Command(c)
  <2>1. PICK c \in Commands : M!Command(c)
    BY <1>7
  <2>2. c \in UserCommands \cup {"EndTest"} /\ MB!Command(c) /\ mDispatchers' = mDispatchers
    BY <2>1, SystemAssumption, SameMaster DEF M!Command
  <2>3. ~(mDispatchers' > 0)
    BY <1>7, <2>2 DEF Steady
  <2>4. NoTimers(mReady)
    BY <1>7 DEF Steady, Eventless, NoTimers
  <2>5. /\ MasterRetries'
        /\ \/ AsksNothing
           \/ \E t \in TS!Tests : /\ mState = "Idle" /\ mState' = TS!Asking(t)
                                  /\ toRemote' = toRemote \o <<Asks(t)>>
    BY <2>2, <2>3, <2>4, MasterCommandTimers
  <2> QED
    BY <1>7, <2>5 DEF AsksFirst
<1> QED
  BY <1>2, <1>3, <1>4, <1>5, <1>6, <1>7

-------------------------------------------------------------------------------
(***************************************************************************)
(* ... and what the master's bytes and the remote's steps do to the        *)
(* remote's.                                                               *)
(***************************************************************************)

\* The remote may still accept this test.
Concerned(t) == mState = TS!Asking(t) \/ Pending(rReady, toRemote, Asks(t))

LEMMA MasterAsks ==
    ASSUME NEW t \in TS!Tests, Open(t), ~Pending(rReady, toRemote, "MasterAck"), RemoteRetries,
           toRemote \in Seq(Bytes), UNCHANGED <<rState, rTimer, rReady>>,
           mState' = TS!Asking(t), toRemote' = toRemote \o <<Asks(t)>>
    PROVE  RemoteRetries'
<1> DEFINE w == <<Asks(t)>>
<1>1. Asks(t) \in Bytes /\ Asks(t) # "MasterAck"
  BY StateNames DEF Bytes, ControlBytes, UserCommands
<1>2. w \in Seq(Bytes) /\ \A b : Has(w, b) => b = Asks(t)
  BY <1>1, ShortLines
<1>3. toRemote' = toRemote \o w
  OBVIOUS
<1> HIDE DEF w
<1>4. \A b : Pending(rReady', toRemote', b) => Pending(rReady, toRemote, b) \/ b = Asks(t)
  BY <1>2, <1>3, SentKeeps
<1>5. ~Pending(rReady', toRemote', "MasterAck")
  BY <1>1, <1>4
<1>6. \A u \in TS!Tests : Pending(rReady', toRemote', Asks(u)) \/ mState' = TS!Asking(u) => u = t
  <2>1. \A u \in TS!Tests : Pending(rReady, toRemote, Asks(u)) => u = t
    BY DEF Open
  <2> QED
    BY <1>4, <2>1, TestsDiffer
<1>7. Open(t)'
  <2>1. Never("MasterAck", Asks(t), rReady', toRemote')
    BY <1>5, FreshNever
  <2> QED
    BY <1>6, <2>1 DEF Open
<1> QED
  BY <1>5, <1>6, <1>7 DEF RemoteRetries

\* Whatever the master says.
LEMMA RemoteHears ==
    ASSUME RemoteRetries, toRemote \in Seq(Bytes), UNCHANGED remoteVars,
           AsksFirst \/ AsksAgain \/ AsksNothing
    PROVE  RemoteRetries'
<1>1. UNCHANGED <<rState, rTimer, rReady>>
  BY DEF remoteVars
<1>2. CASE AsksAgain
  BY <1>1, <1>2, MasterAsks DEF AsksAgain, RemoteRetries
<1>3. CASE AsksFirst
  <2>1. PICK t \in TS!Tests : mState' = TS!Asking(t) /\ toRemote' = toRemote \o <<Asks(t)>>
    BY <1>3 DEF AsksFirst
  <2>2. /\ rState \in {"RemoteIdle", "Exited"} /\ NoTimers(rReady)
        /\ rState = "RemoteIdle" => Owners(rReady, {"RemoteIdle"})
        /\ \A b \in ControlBytes : ~Pending(rReady, toRemote, b)
    BY <1>3, StateNames
    DEF AsksFirst, Steady, AtRest, Eventless, EventlessLine, NoTimers, Pending, Queued, Has
  <2>3. ~Pending(rReady, toRemote, "MasterAck") /\ \A u \in TS!Tests : ~Pending(rReady, toRemote, Asks(u))
    <3>1. "MasterAck" \in ControlBytes /\ \A u \in TS!Tests : Asks(u) \in ControlBytes
      BY StateNames DEF ControlBytes, UserCommands
    <3> QED
      BY <2>2, <3>1
  <2>4. Open(t)
    <3>1. TS!Accepted(t) \notin {"RemoteIdle", "Exited"}
      BY StateNames
    <3> QED
      BY <2>2, <2>3, <3>1, FreshNever DEF Open
  <2> QED
    BY <1>1, <2>1, <2>3, <2>4, MasterAsks
<1>4. CASE AsksNothing
  <2>1. PICK w \in Seq(Bytes) :
            /\ toRemote' = toRemote \o w
            /\ \A t \in TS!Tests : /\ ~Has(w, Asks(t))
                                   /\ mState' = TS!Asking(t) =>
                                         mState = TS!Asking(t) /\ ~Has(w, "MasterAck")
    BY <1>4 DEF AsksNothing
  <2>2. \A b : Pending(rReady', toRemote', b) => Pending(rReady, toRemote, b) \/ Has(w, b)
    BY <1>1, <2>1, SentKeeps
  <2>3. \A t \in TS!Tests : Open(t) => Open(t)'
    <3>1. \A t \in TS!Tests : Never("MasterAck", Asks(t), rReady, toRemote)
                                 => Never("MasterAck", Asks(t), rReady', toRemote')
      BY <1>1, <2>1, SentKeeps
    <3> QED
      BY <1>1, <2>1, <2>2, <3>1 DEF Open
  <2> QED
    BY <1>1, <2>1, <2>2, <2>3 DEF RemoteRetries
<1> QED
  BY <1>2, <1>3, <1>4

\* The remote stays where it is.
LEMMA RemoteWaits ==
    ASSUME RemoteRetries, UNCHANGED <<mState, rState>>,
           \A b : Pending(rReady', toRemote', b) => Pending(rReady, toRemote, b),
           \A t \in TS!Tests : Open(t) => Never("MasterAck", Asks(t), rReady', toRemote'),
           \A k : rState \in k /\ Owners(rReady, k) => Owners(rReady', k),
           OwnLast(rReady, rState) => OwnLast(rReady', rState),
           rState = "RemoteIdle" /\ NoTimers(rReady) => NoTimers(rReady'),
           (\E t \in TS!Tests : rState = TS!Accepted(t)) => OneTimer(rReady, rTimer, rState)'
    PROVE  RemoteRetries'
<1>1. ASSUME NEW t \in TS!Tests, Open(t) PROVE Open(t)'
  <2>1. rState' = "RemoteIdle" => NoTimers(rReady') /\ Owners(rReady', {"RemoteIdle"})
    BY <1>1 DEF Open
  <2>2. rState' = TS!Accepted(t) =>
            Owners(rReady', {"RemoteIdle", TS!Accepted(t)}) /\ OwnLast(rReady', rState')
    BY <1>1 DEF Open
  <2> QED
    BY <1>1, <2>1, <2>2 DEF Open
<1> QED
  BY <1>1 DEF RemoteRetries

\* Every state in which the remote accepts a test or its end has a move on its
\* timeout; no timer runs in any other state.
LEMMA RemoteTimeouts ==
    /\ rState \in R!RemoteTimers => RB!MovesOn("Timeout") # {}
    /\ RB!TypeOK /\ rState \notin R!RemoteTimers => rTimer = "none"
<1>1. ASSUME rState \in R!RemoteTimers PROVE RB!MovesOn("Timeout") # {}
  <2>1. \E m \in R!RemoteMoves : m.from = rState /\ m.on = "Timeout"
    BY <1>1 DEF R!RemoteTimers, R!RemoteMoves, R!RemoteMove
  <2> QED
    BY <2>1 DEF RB!MovesOn
<1> QED
  BY <1>1 DEF RB!TypeOK

\* What the remote says is none of the user's commands.
Replies(w) == w \in Seq(Bytes) /\ \A b \in UserCommands : ~Has(w, b)
RemoteSays == \E w : Replies(w) /\ toMaster' = toMaster \o w

LEMMA SaysShort ==
    /\ Replies(<<>>)
    /\ \A b \in {"RemoteAck", "EndTest", "Data", "EndData", "Result"} : Replies(<<b>>)
<1>1. {"RemoteAck", "EndTest", "Data", "EndData", "Result"} \subseteq Bytes \ UserCommands
  BY DEF Bytes, ControlBytes, UserCommands
<1> QED
  BY <1>1, ShortLines DEF Replies

LEMMA SaysNone == ASSUME toMaster \in Seq(Bytes), toMaster' = toMaster PROVE RemoteSays
<1>1. toMaster' = toMaster \o <<>>
  OBVIOUS
<1> QED
  BY <1>1, SaysShort DEF RemoteSays

\* The master does not mind.
LEMMA MasterHears ==
    ASSUME MasterRetries, toMaster \in Seq(Bytes), UNCHANGED masterVars, RemoteSays
    PROVE  MasterRetries'
<1>1. \A b \in UserCommands : ~Has(toMaster', b)
  BY HasConcat DEF RemoteSays, Replies, MasterRetries, Unasked
<1> QED
  BY <1>1 DEF MasterRetries, MasterTimed, DoneLast, Unasked, masterVars

\* The remote's own handlers carry the bytes it moves on; its activities pass on
\* the end of a test.
LEMMA RemoteCarries ==
    ASSUME RB!TypeOK, rReady # <<>>, NEW event, RB!Dispatched(event)
    PROVE  \/ event \in {"Timeout", "EndModeCommand", "EndTest"}
           \/ HeadIs(rReady, event)
<1>1. 1 \in DOMAIN rReady /\ Head(rReady) = rReady[1]
  BY EmptySeq DEF RB!TypeOK
<1> QED
  BY <1>1 DEF RB!Dispatched, HeadIs, ByteKinds, R!RemoteHandled, R!RemoteActivities

\* The remote accepts a test that it has been asked for, or repeats itself.
LEMMA RemoteMovesTimers ==
    ASSUME Sound, RemoteRetries, UNCHANGED mState, Rest(rReady, rReady', 1),
           rReady # <<>>, toRemote' = toRemote,
           NEW event, RB!Dispatched(event), RB!MovesBy(event), RB!Moved, RB!LeftOf(rReady', 1),
           rState \in R!RemoteTimers /\ event = "Timeout" /\ OneTimer(rReady, rTimer, rState) =>
               NoTimers(rReady')
    PROVE  RemoteRetries' /\ RemoteSays
<1>1. RB!TypeOK /\ toMaster \in Seq(Bytes) /\ 1 \in {0, 1}
  BY LineTypes DEF Sound
<1>2. RemoteMoved(event)
  BY <1>1, RemoteMovedFacts
<1>3. /\ \A b : Pending(rReady', toRemote', b) => Pending(rReady, toRemote, b)
      /\ \A t \in TS!Tests : Never("MasterAck", Asks(t), rReady, toRemote)
                                => Never("MasterAck", Asks(t), rReady', toRemote')
      /\ \A k : Owners(rReady, k) => Owners(rReady', k)
      /\ \A st : OwnLast(rReady, st) => OwnLast(rReady', st)
  BY <1>1, RestKeeps DEF Pending
<1>4. \/ event \in {"Timeout", "EndModeCommand", "EndTest"}
      \/ HeadIs(rReady, event) /\ Pending(rReady, toRemote, event)
  BY <1>1, RemoteCarries, HeadQueued DEF Pending
<1>5. RemoteSays
  BY <1>1, <1>2, SaysShort, SaysNone DEF RemoteMoved, RemoteSays
<1>6. \A t \in TS!Tests : Concerned(t)' => Concerned(t) /\ Open(t)
  BY <1>3 DEF Concerned, RemoteRetries
<1>7. RemoteGoes(rState, event, rState') /\ \A i \in DOMAIN rReady' : rReady'[i].kind # "activity"
  BY <1>2 DEF RemoteMoved
<1>8. \A t \in TS!Tests : Asks(t) \notin {"Timeout", "EndModeCommand", "EndTest"}
  BY StateNames
<1>9. ASSUME NEW t \in TS!Tests, rState' = TS!Accepted(t)
      PROVE  /\ OneTimer(rReady, rTimer, rState)'
             /\ rState = "RemoteIdle" => Pending(rReady, toRemote, Asks(t))
             /\ rState \in {"RemoteIdle", TS!Accepted(t)}
  <2>1. \/ rState = "RemoteIdle" /\ event = Asks(t)
        \/ rState = TS!Accepted(t) /\ event = "Timeout"
    BY <1>7, <1>9, StateNames, TestsDiffer DEF RemoteGoes, R!RemoteActivities
  <2>2. CASE rState = "RemoteIdle" /\ event = Asks(t)
    <3>1. Pending(rReady, toRemote, Asks(t))
      BY <1>4, <1>8, <2>2
    <3>2. NoTimers(rReady) /\ rTimer = "none"
      BY <1>1, <2>2, <3>1, RemoteTimeouts DEF RemoteRetries, Open, R!RemoteTimers
    <3>3. RB!NoTimers(rReady')
      BY <3>2, RemoteTables, RB!NoTimersLeft, SameTimers
    <3>4. rState' \in R!RemoteTimers
      BY <1>9, StateNames
    <3> QED
      BY <2>2, <3>1, <3>3, <3>4, RemoteTables, RB!TimerStarted, SameTimers
  <2>3. CASE rState = TS!Accepted(t) /\ event = "Timeout"
    <3>1. NoTimers(rReady') /\ rState' \in R!RemoteTimers
      BY <1>9, <2>3, StateNames DEF RemoteRetries
    <3>2. OneTimer(rReady, rTimer, rState)'
      BY <3>1, RemoteTables, RB!TimerStarted, SameTimers
    <3>3. rState # "RemoteIdle"
      BY <2>3, StateNames
    <3> QED
      BY <2>3, <3>2, <3>3
  <2> QED
    BY <2>1, <2>2, <2>3
<1>10. ASSUME NEW t \in TS!Tests, Concerned(t)' PROVE Open(t)'
  <2>1. Open(t) /\ Concerned(t)
    BY <1>6, <1>10
  <2>2. rState' = TS!Accepted(t)
    <3>1. CASE rState = "RemoteIdle"
      <4>1. PICK u \in TS!Tests : event = Asks(u) /\ rState' = TS!Accepted(u)
        BY <1>7, <3>1, StateNames DEF RemoteGoes, R!RemoteActivities
      <4>2. Pending(rReady, toRemote, Asks(u))
        BY <1>4, <1>8, <4>1
      <4> QED
        BY <2>1, <4>1, <4>2 DEF Open
    <3>2. CASE rState = TS!Accepted(t)
      <4>1. \/ event = "Timeout" /\ rState' = rState
            \/ event = "MasterAck"
        BY <1>7, <3>2, StateNames DEF RemoteGoes, R!RemoteActivities
      <4>2. CASE event = "MasterAck"
        <5>1. HeadIs(rReady, "MasterAck") /\ Pending(rReady, toRemote, "MasterAck")
          BY <1>4, <4>2
        <5>2. ~Pending(rReady', toRemote, Asks(t))
          BY <1>7, <2>1, <5>1, HeadNever DEF Open, HeadIs
        <5> QED
          BY <1>10, <5>1, <5>2 DEF Concerned, RemoteRetries
      <4> QED
        BY <3>2, <4>1, <4>2
    <3>3. rState # "Exited"
      BY <1>7, StateNames DEF RemoteGoes, R!RemoteActivities
    <3> QED
      BY <2>1, <3>1, <3>2, <3>3 DEF Open
  <2>3. rState' # "RemoteIdle"
    BY <2>2, StateNames
  <2>4. Owners(rReady', {"RemoteIdle", TS!Accepted(t)}) /\ OwnLast(rReady', rState')
    <3>1. CASE rState = "RemoteIdle"
      <4>1. Owners(rReady', {"RemoteIdle"})
        BY <1>3, <2>1, <3>1 DEF Open
      <4>2. OwnLast(rReady', rState')
        BY <2>3, <4>1, OwnLastFresh
      <4>3. Owners(rReady', {"RemoteIdle", TS!Accepted(t)})
        BY <4>1 DEF Owners
      <4> QED
        BY <4>2, <4>3
    <3>2. CASE rState = TS!Accepted(t)
      BY <1>3, <2>1, <2>2, <3>2 DEF Open
    <3> QED
      BY <1>9, <2>2, <3>1, <3>2
  <2> QED
    BY <1>3, <2>1, <2>2, <2>3, <2>4 DEF Open
<1>11. \A t \in TS!Tests : mState' = TS!Asking(t) => ~Pending(rReady', toRemote', "MasterAck")
  BY <1>3 DEF RemoteRetries
<1> QED
  BY <1>5, <1>9, <1>10, <1>11 DEF RemoteRetries, Concerned

\* A handler of the remote's.
LEMMA RemoteHandleTimers ==
    ASSUME Sound, RemoteRetries, RB!Handle, UNCHANGED mState
    PROVE  RemoteRetries' /\ RemoteSays
<1>1. RB!TypeOK /\ RB!Owned /\ toMaster \in Seq(Bytes) /\ 1 \in {0, 1}
  BY LineTypes DEF Sound
<1>2. /\ rReady # <<>> /\ toRemote' = toRemote
      /\ \/ RB!Halted /\ (toMaster' = toMaster \/ toMaster' = toMaster \o <<"EndTest">>)
         \/ \E event \in RB!Events :
               /\ RB!Dispatched(event) /\ RB!MovesBy(event) /\ RB!Moved
               /\ RB!LeftOf(rReady', 1)
               /\ rState \in R!RemoteTimers /\ event = "Timeout"
                     /\ OneTimer(rReady, rTimer, rState) => NoTimers(rReady')
         \/ /\ RB!Passes /\ RB!LeftOf(rReady', 1)
            /\ rState \in R!RemoteTimers /\ OneTimer(rReady, rTimer, rState) =>
                  OneTimer(rReady, rTimer, rState)'
  <2>1. CASE rState \in R!RemoteTimers /\ OneTimer(rReady, rTimer, rState)
    <3>1. RB!OneTimer /\ RB!MovesOn("Timeout") # {}
      BY <2>1, RemoteTimeouts, SameTimers
    <3> QED
      BY <1>1, <3>1, RemoteTables, RB!HandleLeft, RB!OneTimerHandles, SameTimers
  <2>2. CASE ~(rState \in R!RemoteTimers /\ OneTimer(rReady, rTimer, rState))
    BY <1>1, <2>2, RemoteTables, RB!HandleLeft
  <2> QED
    BY <2>1, <2>2
<1>3. Rest(rReady, rReady', 1)
  <2>1. DOMAIN rReady \subseteq Nat \ {0}
    BY <1>1 DEF RB!TypeOK
  <2>2. RB!Halted => Rest(rReady, rReady', 1)
    BY <2>1 DEF RB!Halted, Rest
  <2>3. RB!Outcome(1)
    BY <1>1, RemoteTables, RB!HandleOutcome
  <2> QED
    BY <1>1, <2>2, <2>3, RemoteRest DEF RB!Outcome
<1>4. /\ \A b : Pending(rReady', toRemote', b) => Pending(rReady, toRemote, b)
      /\ \A t \in TS!Tests : Never("MasterAck", Asks(t), rReady, toRemote)
                                => Never("MasterAck", Asks(t), rReady', toRemote')
      /\ \A k : Owners(rReady, k) => Owners(rReady', k)
      /\ \A st : OwnLast(rReady, st) => OwnLast(rReady', st)
  BY <1>1, <1>2, <1>3, RestKeeps DEF Pending
<1>5. CASE RB!Halted /\ (toMaster' = toMaster \/ toMaster' = toMaster \o <<"EndTest">>)
  <2>1. RemoteSays
    BY <1>1, <1>5, SaysShort, SaysNone DEF RemoteSays
  <2>2. rState' = "Exited" /\ \A t \in TS!Tests : TS!Accepted(t) \notin {"Exited", "RemoteIdle"}
    BY <1>5, StateNames DEF RB!Halted
  <2>3. \A t \in TS!Tests : Open(t) => Open(t)'
    BY <1>4, <2>2 DEF Open
  <2> QED
    BY <1>4, <2>1, <2>2, <2>3 DEF RemoteRetries
<1>6. ASSUME NEW event \in RB!Events,
             RB!Dispatched(event), RB!MovesBy(event), RB!Moved, RB!LeftOf(rReady', 1),
             rState \in R!RemoteTimers /\ event = "Timeout"
                /\ OneTimer(rReady, rTimer, rState) => NoTimers(rReady')
      PROVE  RemoteRetries' /\ RemoteSays
  BY <1>2, <1>3, <1>6, RemoteMovesTimers
<1>7. CASE /\ RB!Passes /\ RB!LeftOf(rReady', 1)
           /\ rState \in R!RemoteTimers /\ OneTimer(rReady, rTimer, rState) =>
                 OneTimer(rReady, rTimer, rState)'
  <2>1. rState' = rState
    BY <1>7 DEF RB!Passes
  <2>2. RemoteSays
    <3>1. \A a \in R!RemoteActivities, b \in RB!Bytes :
              R!RemoteReplies[a][b] \in {<<>>, <<"Data">>, <<"EndData">>, <<"Result">>}
      BY Names DEF R!RemoteReplies
    <3>2. \A a \in R!RemoteActivities, b \in RB!Bytes : Replies(R!RemoteReplies[a][b])
      BY <3>1, SaysShort
    <3> QED
      BY <1>1, <1>7, <3>2, SaysNone DEF RB!Passes, RemoteSays
  <2>3. rState = "RemoteIdle" /\ NoTimers(rReady) => NoTimers(rReady')
    <3>1. rState = "RemoteIdle" => rTimer = "none"
      BY <1>1, RemoteTimeouts DEF R!RemoteTimers
    <3> QED
      BY <1>7, <3>1, RemoteTables, RB!NoTimersLeft, SameTimers
  <2>4. (\E t \in TS!Tests : rState = TS!Accepted(t)) => OneTimer(rReady, rTimer, rState)'
    BY <1>7, StateNames DEF RemoteRetries
  <2>5. \A t \in TS!Tests : Open(t) => Never("MasterAck", Asks(t), rReady', toRemote')
    BY <1>4 DEF Open
  <2>6. /\ \A k : rState \in k /\ Owners(rReady, k) => Owners(rReady', k)
        /\ OwnLast(rReady, rState) => OwnLast(rReady', rState)
    BY <1>4
  <2> HIDE DEF NoTimers, OneTimer, Owners, OwnLast
  <2> QED
    BY <1>4, <2>1, <2>2, <2>3, <2>4, <2>5, <2>6, RemoteWaits
<1> QED
  BY <1>2, <1>5, <1>6, <1>7

\* A read of the remote's.
LEMMA RemoteReadTimers ==
    ASSUME Sound, RemoteRetries, RB!ReadCompletes, UNCHANGED mState
    PROVE  RemoteRetries' /\ RemoteSays
<1>1. RB!TypeOK /\ RB!Owned /\ toMaster \in Seq(Bytes) /\ toRemote \in Seq(Bytes)
  BY LineTypes DEF Sound
<1>2. /\ toRemote # <<>> /\ toRemote' = Tail(toRemote)
      /\ UNCHANGED <<rState, rActivity, toMaster>>
  BY <1>1, RemoteReads
<1>3. PICK kind, owner : /\ kind # "results"
                         /\ kind = "fsm" => owner = rState
                         /\ Pulled(rReady, rReady', kind, owner, Head(toRemote))
  BY <1>1, RemoteReads
<1>4. /\ \A b : Pending(rReady', toRemote', b) => Pending(rReady, toRemote, b)
      /\ \A k : rState \in k /\ Owners(rReady, k) => Owners(rReady', k)
      /\ OwnLast(rReady, rState) => OwnLast(rReady', rState)
  <2>1. /\ \A b : Pending(rReady', Tail(toRemote), b) => Pending(rReady, toRemote, b)
        /\ \A k : (kind = "fsm" => owner \in k) /\ Owners(rReady, k) => Owners(rReady', k)
        /\ \A st : (kind = "fsm" => owner = st) /\ OwnLast(rReady, st) => OwnLast(rReady', st)
    BY <1>1, <1>2, <1>3, PulledKeeps
  <2> QED
    BY <1>2, <1>3, <2>1
<1>5. ASSUME NEW t \in TS!Tests, Open(t) PROVE Never("MasterAck", Asks(t), rReady', toRemote')
  <2>1. OwnLast(rReady, rState)
    <3>1. CASE rState = "RemoteIdle"
      BY <1>5, <3>1 DEF Open, Owners, OwnLast
    <3>2. CASE rState = "Exited"
      <4>1. \A h \in RB!HandlerSet : h.owner # "Exited"
        BY DEF RB!HandlerSet, R!RemoteStates, R!RemoteTimers, R!RemoteActivities
      <4>2. \A i \in DOMAIN rReady : rReady[i].owner # "Exited"
        BY <1>1, <4>1 DEF RB!TypeOK
      <4> QED
        BY <3>2, <4>2 DEF OwnLast
    <3> QED
      BY <1>5, <3>1, <3>2 DEF Open
  <2>2. Never("MasterAck", Asks(t), rReady, toRemote) /\ Asks(t) # "MasterAck"
    BY <1>5, StateNames DEF Open
  <2> QED
    BY <1>1, <1>2, <1>3, <2>1, <2>2, PulledNever
<1>6. /\ NoTimers(rReady) => NoTimers(rReady')
      /\ OneTimer(rReady, rTimer, rState) => OneTimer(rReady, rTimer, rState)'
  BY <1>1, RemoteTables, RB!ReadTimers, SameTimers
<1>7. (\E t \in TS!Tests : rState = TS!Accepted(t)) => OneTimer(rReady, rTimer, rState)'
  BY <1>6 DEF RemoteRetries
<1>8. RemoteSays
  BY <1>1, <1>2, SaysNone
<1> HIDE DEF NoTimers, OneTimer, Owners, OwnLast
<1> QED
  BY <1>2, <1>4, <1>5, <1>6, <1>7, <1>8, RemoteWaits

\* Its activity's thread begins, or its timer expires.
LEMMA RemoteBeginsTimers ==
    ASSUME Sound, RemoteRetries, RB!ActivityBegins \/ RB!TimerExpires, UNCHANGED mState
    PROVE  RemoteRetries' /\ RemoteSays
<1>1. RB!TypeOK /\ toMaster \in Seq(Bytes) /\ 0 \in {0, 1}
  BY LineTypes DEF Sound
<1>2. /\ UNCHANGED <<rState, toRemote, toMaster>>
      /\ Rest(rReady, rReady', 0)
      /\ rState = "RemoteIdle" => rReady' = rReady
      /\ OneTimer(rReady, rTimer, rState) => OneTimer(rReady, rTimer, rState)'
  <2>1. CASE RB!ActivityBegins
    <3>1. UNCHANGED <<rState, rTimer, rReady, toRemote, toMaster>>
      BY <2>1 DEF RB!ActivityBegins, RB!ActivityCancel, RB!ActivityRead
    <3>2. DOMAIN rReady \subseteq Nat \ {0} /\ \A i \in DOMAIN rReady : i + 0 = i
      BY <1>1 DEF RB!TypeOK
    <3> QED
      BY <3>1, <3>2 DEF Rest, OneTimer
  <2>2. CASE RB!TimerExpires
    <3>1. UNCHANGED <<rState, toRemote, toMaster>> /\ Rest(rReady, rReady', 0)
      BY <1>1, <2>2, RemoteTables, RB!TimerEffect, RemoteRest DEF RB!Stays
    <3>2. rState # "RemoteIdle"
      BY <1>1, <2>2, RemoteTimeouts DEF RB!TimerExpires, R!RemoteTimers
    <3>3. OneTimer(rReady, rTimer, rState) => OneTimer(rReady, rTimer, rState)'
      BY <1>1, <2>2, RemoteTables, RB!ExpiresTimers, SameTimers
    <3> QED
      BY <3>1, <3>2, <3>3
  <2> QED
    BY <2>1, <2>2
<1>3. /\ \A b : Pending(rReady', toRemote', b) => Pending(rReady, toRemote, b)
      /\ \A t \in TS!Tests : Open(t) => Never("MasterAck", Asks(t), rReady', toRemote')
      /\ \A k : rState \in k /\ Owners(rReady, k) => Owners(rReady', k)
      /\ OwnLast(rReady, rState) => OwnLast(rReady', rState)
  BY <1>1, <1>2, RestKeeps DEF Pending, Open
<1>4. (\E t \in TS!Tests : rState = TS!Accepted(t)) => OneTimer(rReady, rTimer, rState)'
  BY <1>2 DEF RemoteRetries
<1>5. RemoteSays
  BY <1>1, <1>2, SaysNone
<1> HIDE DEF NoTimers, OneTimer, Owners, OwnLast
<1> QED
  BY <1>2, <1>3, <1>4, <1>5, RemoteWaits

\* The line loses a byte.
LEMMA LoseTimers ==
    ASSUME Sound, OwnTimers, Lose
    PROVE  OwnTimers'
<1>1. toMaster \in Seq(Bytes) /\ toRemote \in Seq(Bytes)
  BY LineTypes DEF Sound
<1>2. /\ UNCHANGED <<mState, mTimer, mReads, mReady, mActivity, mDispatchers>>
      /\ UNCHANGED <<rState, rTimer, rReads, rReady, rActivity>>
  BY DEF Lose, masterVars, remoteVars
<1>3. MasterRetries'
  <2>1. \/ toMaster' = toMaster
        \/ toMaster # <<>> /\ toMaster' = Tail(toMaster)
    BY DEF Lose
  <2>2. \A b : Has(toMaster', b) => Has(toMaster, b)
    <3>1. toMaster # <<>> => \A b : Has(Tail(toMaster), b) => Has(toMaster, b)
      BY <1>1, TailLine
    <3>2. CASE toMaster' = toMaster
      BY <3>2
    <3>3. CASE toMaster # <<>> /\ toMaster' = Tail(toMaster)
      BY <3>1, <3>3
    <3> QED
      BY <2>1, <3>2, <3>3
  <2> QED
    BY <1>2, <2>2 DEF OwnTimers, MasterRetries, MasterTimed, DoneLast, Unasked
<1>4. RemoteRetries'
  <2>1. \/ toRemote' = toRemote
        \/ toRemote # <<>> /\ toRemote' = Tail(toRemote)
    BY DEF Lose
  <2>2. \A b : Has(toRemote', b) => Has(toRemote, b)
    <3>1. toRemote # <<>> => \A b : Has(Tail(toRemote), b) => Has(toRemote, b)
      BY <1>1, TailLine
    <3>2. CASE toRemote' = toRemote
      BY <3>2
    <3>3. CASE toRemote # <<>> /\ toRemote' = Tail(toRemote)
      BY <3>1, <3>3
    <3> QED
      BY <2>1, <3>2, <3>3
  <2>3. \A t \in TS!Tests : Open(t) => Never("MasterAck", Asks(t), rReady', toRemote')
    <3>1. \A t \in TS!Tests : Never("MasterAck", Asks(t), rReady, toRemote)
                                 => Never("MasterAck", Asks(t), rReady, toRemote')
      BY <1>1, <2>1, LostKeeps
    <3> QED
      BY <1>2, <3>1 DEF Open
  <2>4. \A b : Pending(rReady', toRemote', b) => Pending(rReady, toRemote, b)
    BY <1>2, <2>2 DEF Pending
  <2>5. /\ UNCHANGED <<mState, rState>>
        /\ (\E t \in TS!Tests : rState = TS!Accepted(t)) => OneTimer(rReady, rTimer, rState)'
    BY <1>2 DEF OwnTimers, RemoteRetries
  <2> HIDE DEF NoTimers, OneTimer, Owners, OwnLast
  <2> QED
    BY <1>2, <2>3, <2>4, <2>5, RemoteWaits DEF OwnTimers
<1> QED
  BY <1>3, <1>4 DEF OwnTimers

LEMMA OwnTimersStep == ASSUME Sound, OwnTimers, Orderly PROVE OwnTimers'
<1>1. /\ MasterSound /\ MasterRetries /\ RemoteRetries
      /\ toMaster \in Seq(Bytes) /\ toRemote \in Seq(Bytes)
  BY LineTypes DEF Sound, MasterSound, OwnTimers
<1>2. CASE MasterOrderly /\ UNCHANGED remoteVars
  <2>1. /\ UNCHANGED remoteVars
        /\ \/ M!StreamStep \/ M!IoStep \/ M!ActivityStep \/ M!DispatchEnd \/ M!TimerStep
           \/ M!TimeoutReceiveResults \/ M!PingerSend
           \/ Steady /\ \E c \in Commands : M!Command(c)
    BY <1>2 DEF MasterOrderly
  <2>2. MasterSound'
    BY OrderlySound DEF Sound, MasterSound
  <2>3. MasterRetries' /\ (AsksFirst \/ AsksAgain \/ AsksNothing)
    BY <1>1, <2>1, <2>2, MasterStepTimers
  <2> QED
    BY <1>1, <2>1, <2>3, RemoteHears DEF OwnTimers
<1>3. CASE RemoteOrderly /\ UNCHANGED masterVars
  <2>1. UNCHANGED masterVars /\ RemoteStep
    BY <1>3 DEF RemoteOrderly, RemoteStep
  <2>2. UNCHANGED mState
    BY <2>1 DEF masterVars
  <2>3. RemoteRetries' /\ RemoteSays
    BY <1>1, <2>1, <2>2, SameRemote, RemoteHandleTimers, RemoteReadTimers, RemoteBeginsTimers
    DEF RemoteStep
  <2> QED
    BY <1>1, <2>1, <2>3, MasterHears DEF OwnTimers
<1>4. CASE Lose
  BY <1>4, LoseTimers
<1>5. CASE UNCHANGED <<masterVars, remoteVars, toMaster, toRemote, undefined>>
  BY <1>5 DEF masterVars, remoteVars, OwnTimers, MasterRetries, MasterTimed, DoneLast,
              Unasked, RemoteRetries, Open
<1> QED
  BY <1>2, <1>3, <1>4, <1>5 DEF Orderly

LEMMA OwnTimersInit == Init => OwnTimers
<1> SUFFICES ASSUME Init PROVE OwnTimers
  OBVIOUS
<1>1. /\ mState = "Idle" /\ rState = "RemoteIdle" /\ mReady = <<>> /\ rReady = <<>>
      /\ toMaster = <<>> /\ toRemote = <<>> /\ mDispatchers = 0 /\ mActivity = "none"
  BY DEF Init, M!Init, R!Init, M!FSM!Init, R!FSM!Init
<1>2. MasterRetries
  BY <1>1 DEF MasterRetries, MasterTimed, M!MasterTimers, DoneLast, Unasked, Has
<1>3. RemoteRetries
  BY <1>1, StateNames DEF RemoteRetries, Pending, Queued, Has
<1> QED
  BY <1>2, <1>3 DEF OwnTimers

\* The handler of an older timer never deletes the timer of a state that waits
\* for the peer: none is left when the machine comes to that state, even after a
\* handler of a deleted activity has run (BaseFSM.h, dispatchTimeout).
THEOREM TimersAreOwn == Spec => []OwnTimers
<1>1. Init => Sound /\ OwnTimers
  BY SoundInit, OwnTimersInit
<1>2. Sound /\ OwnTimers /\ [Next]_vars => (Sound /\ OwnTimers)'
  BY SoundStep, NextOrderly, OwnTimersStep
<1> QED
  BY <1>1, <1>2, PTL DEF Spec

LEMMA TimersRetry == OwnTimers => RetryPending
<1>1. ASSUME OwnTimers, mState \in M!MasterTimers PROVE mTimer # "none"
  BY <1>1 DEF OwnTimers, MasterRetries, MasterTimed, OneTimer
<1>2. ASSUME OwnTimers, rState \in R!RemoteTimers \ {"EndModeReceived"} PROVE rTimer # "none"
  <2>1. \E t \in TS!Tests : rState = TS!Accepted(t)
    BY <1>2 DEF R!RemoteTimers, TS!Tests, TS!Accepted
  <2> QED
    BY <1>2, <2>1 DEF OwnTimers, RemoteRetries, OneTimer
<1> QED
  BY <1>1, <1>2 DEF RetryPending

\* Every retry of the handshake stays possible: a state in which a test is asked
\* for, accepted or ended by the master keeps the timer that repeats its message.
THEOREM RetriesGoOn == Spec => []RetryPending
BY TimersRetry, TimersAreOwn, PTL

===============================================================================
