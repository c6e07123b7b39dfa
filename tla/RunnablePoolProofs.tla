------------------------- MODULE RunnablePoolProofs -------------------------
(***************************************************************************)
(* The pool neither leaks nor doubles a runnable, however many threads add *)
(* to it and whenever they end.  NothingLeaks is inductive given the types *)
(* of the three variables.                                                 *)
(***************************************************************************)
EXTENDS RunnablePool, TLAPS

Inv == TypeOK /\ NothingLeaks

Records == [event : Events, by : Adders, stage : {"running", "ended", "deleted"}]

LEMMA InvInit == Init => Inv
<1> SUFFICES ASSUME Init PROVE Inv
  OBVIOUS
<1>1. TypeOK
  <2>1. ASSUME NEW S PROVE <<>> \in Seq(S)
    OBVIOUS
  <2> QED
    BY <2>1, Zenon DEF Init, TypeOK
<1>2. DOMAIN runnables = {} /\ DOMAIN vector = {}
  BY DEF Init
<1> QED
  BY <1>1, <1>2 DEF Inv, NothingLeaks

\* A runnable changes its stage and nothing else of it.
LEMMA StageTyped ==
  ASSUME NEW s \in Seq(Records), NEW r \in DOMAIN s,
         NEW stage \in {"running", "ended", "deleted"}
  PROVE  [s EXCEPT ![r].stage = stage] \in Seq(Records)
<1>1. s \in [1..Len(s) -> Records] /\ Len(s) \in Nat /\ DOMAIN s = 1..Len(s)
  OBVIOUS
<1>2. s[r] \in Records
  BY <1>1
<1>3. [s[r] EXCEPT !.stage = stage] \in Records
  BY <1>2 DEF Records
<1>4. [s EXCEPT ![r] = [s[r] EXCEPT !.stage = stage]] \in [1..Len(s) -> Records]
  BY <1>1, <1>3
<1> QED
  BY <1>1, <1>4

\* Adding puts the number of the new runnable, greater than all, at the end.
LEMMA AddKeeps ==
  ASSUME Inv, NEW event \in Events, NEW by \in Adders, AddAndStart(event, by)
  PROVE  Inv'
<1> DEFINE new == Len(runnables) + 1
<1>1. TypeOK'
  BY DEF Inv, TypeOK, AddAndStart, Runnable
<1>2. /\ DOMAIN runnables' = DOMAIN runnables \cup {new}
      /\ DOMAIN vector' = DOMAIN vector \cup {Len(vector) + 1}
      /\ new \notin DOMAIN runnables
      /\ \A r \in DOMAIN runnables : runnables'[r] = runnables[r]
      /\ \A i \in DOMAIN vector : vector'[i] = vector[i]
      /\ runnables'[new].stage = "running"
      /\ vector'[Len(vector) + 1] = new
  BY DEF Inv, TypeOK, AddAndStart, Runnable
<1>3. {r \in DOMAIN runnables : runnables[r].stage # "deleted"} = {vector[i] : i \in DOMAIN vector}
  BY DEF Inv, NothingLeaks
<1>4. {r \in DOMAIN runnables' : runnables'[r].stage # "deleted"} = {vector'[i] : i \in DOMAIN vector'}
  BY <1>2, <1>3
<1>5. ASSUME NEW i \in DOMAIN vector', NEW j \in DOMAIN vector', i < j
      PROVE  vector'[i] < vector'[j]
  <2>1. \A k \in DOMAIN vector : vector[k] \in DOMAIN runnables
    BY <1>3
  <2>2. i \in DOMAIN vector
    BY <1>2, <1>5 DEF Inv, TypeOK
  <2>3. CASE j \in DOMAIN vector
    BY <1>2, <1>5, <2>2, <2>3 DEF Inv, NothingLeaks
  <2>4. CASE j = Len(vector) + 1
    BY <1>2, <2>1, <2>2, <2>4 DEF Inv, TypeOK
  <2> QED
    BY <1>2, <2>3, <2>4
<1> QED
  BY <1>1, <1>4, <1>5 DEF Inv, NothingLeaks

\* The end of a thread changes no number and deletes nothing.
LEMMA EndKeeps ==
  ASSUME Inv, NEW r \in DOMAIN runnables, End(r)
  PROVE  Inv'
<1>1. TypeOK'
  BY StageTyped DEF Inv, TypeOK, Records, End, Running
<1>2. /\ DOMAIN runnables' = DOMAIN runnables
      /\ \A s \in DOMAIN runnables :
            runnables'[s].stage = "deleted" <=> runnables[s].stage = "deleted"
  BY DEF Inv, TypeOK, End, Running
<1> QED
  BY <1>1, <1>2 DEF Inv, NothingLeaks, End

\* The collector deletes the first of the vector and drops it: it is the
\* smallest number there, and so is not there a second time.
LEMMA DeleteKeeps ==
  ASSUME Inv, StopAndDelete
  PROVE  Inv'
<1> DEFINE head == Head(vector)
<1>1. vector \in Seq(Nat) /\ vector # <<>> /\ vector' = Tail(vector)
  BY DEF Inv, TypeOK, StopAndDelete
<1>2. /\ head = vector[1]
      /\ 1 \in DOMAIN vector
      /\ \A i \in DOMAIN vector' : i + 1 \in DOMAIN vector /\ vector'[i] = vector[i + 1]
      /\ \A i \in DOMAIN vector : i # 1 => i - 1 \in DOMAIN vector' /\ vector'[i - 1] = vector[i]
  BY <1>1
<1>3. head \in DOMAIN runnables
  BY <1>2 DEF Inv, NothingLeaks
<1>4. TypeOK'
  <2>1. vector' \in Seq(Nat) /\ collecting' \in BOOLEAN
    BY <1>1 DEF Inv, TypeOK, StopAndDelete
  <2>2. runnables' \in Seq(Records)
    BY <1>3, StageTyped DEF Inv, TypeOK, Records, StopAndDelete
  <2> QED
    BY <2>1, <2>2 DEF TypeOK, Records
<1>5. /\ DOMAIN runnables' = DOMAIN runnables
      /\ runnables'[head].stage = "deleted"
      /\ \A r \in DOMAIN runnables : r # head => runnables'[r] = runnables[r]
  BY <1>3 DEF Inv, TypeOK, StopAndDelete
<1>6. \A i \in DOMAIN vector : i # 1 => head < vector[i]
  BY <1>1, <1>2 DEF Inv, NothingLeaks
<1>7. {vector'[i] : i \in DOMAIN vector'} = {vector[i] : i \in DOMAIN vector} \ {head}
  <2>1. ASSUME NEW i \in DOMAIN vector'
        PROVE  vector'[i] \in {vector[k] : k \in DOMAIN vector} \ {head}
    <3>1. i + 1 \in DOMAIN vector /\ vector'[i] = vector[i + 1] /\ i + 1 # 1
      BY <1>1, <1>2
    <3>2. head < vector[i + 1] /\ head \in Nat /\ vector[i + 1] \in Nat
      BY <1>1, <1>2, <1>6, <3>1
    <3> QED
      BY <3>1, <3>2
  <2>2. ASSUME NEW k \in DOMAIN vector, vector[k] # head
        PROVE  vector[k] \in {vector'[i] : i \in DOMAIN vector'}
    BY <1>2, <2>2
  <2> QED
    BY <2>1, <2>2
<1>8. {r \in DOMAIN runnables' : runnables'[r].stage # "deleted"}
        = {r \in DOMAIN runnables : runnables[r].stage # "deleted"} \ {head}
  BY <1>5
<1>9. \A i, j \in DOMAIN vector' : i < j => vector'[i] < vector'[j]
  BY <1>1, <1>2 DEF Inv, NothingLeaks
<1> QED
  BY <1>4, <1>7, <1>8, <1>9 DEF Inv, NothingLeaks

LEMMA StepKeeps == Inv /\ [Next]_vars => Inv'
<1> SUFFICES ASSUME Inv, [Next]_vars PROVE Inv'
  OBVIOUS
<1>1. ASSUME NEW event \in Events, NEW by \in Adders, AddAndStart(event, by) PROVE Inv'
  BY <1>1, AddKeeps
<1>2. ASSUME NEW r \in DOMAIN runnables, End(r) PROVE Inv'
  BY <1>2, EndKeeps
<1>3. CASE StopAndDelete
  BY <1>3, DeleteKeeps
<1>4. CASE Collect \/ Sleep \/ UNCHANGED vars
  BY <1>4 DEF Inv, TypeOK, NothingLeaks, Collect, Sleep, vars
<1> QED
  BY <1>1, <1>2, <1>3, <1>4 DEF Next, Round

\* Whoever adds whatever and whenever a thread ends: the vector holds exactly
\* the runnables that are not deleted, each once (RunnablePool.cpp, operator()
\* and addAndStartRunnable under the mutex).
THEOREM Leaks == Spec => []NothingLeaks
<1>1. Spec => []Inv
  BY InvInit, StepKeeps, PTL DEF Spec
<1>2. Inv => NothingLeaks
  BY DEF Inv
<1> QED
  BY <1>1, <1>2, PTL

=============================================================================
