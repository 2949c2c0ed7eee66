-------------------------- MODULE ThreadPoolProofs --------------------------
(***************************************************************************)
(* For every finite set of workers and every set of callables: no worker   *)
(* pops an empty queue.  The semaphore's count alone does not bound the    *)
(* queue; count plus the workers past acquire() does (Balance).            *)
(***************************************************************************)
EXTENDS ThreadPool, FiniteSetTheorems, TLAPS

\* join() stores to done_ before it touches the semaphore.
Closing == client \in {"interrupt", "notify", "joining", "joined"} => done

IInv == TypeOK /\ Closing /\ Balance

\* The set of workers in a state is finite, and its size is a number.
LEMMA InFinite ==
    ASSUME NEW s
    PROVE  IsFiniteSet(In(s)) /\ Cardinality(In(s)) \in Nat
  BY WorkersAssumption, FS_Subset, FS_CardinalityType DEF In

\* A worker that goes elsewhere neither joins nor was in the set: it stays.
LEMMA MoveElsewhere ==
    ASSUME TypeOK, NEW w \in Workers, NEW s \in WorkerStates, NEW t,
           pc[w] # t, s # t, Goto(w, s)
    PROVE  Cardinality(In(t))' = Cardinality(In(t))
<1>1. In(t)' = In(t)
  BY DEF In, Goto, TypeOK
<1>2. QED BY <1>1

\* A worker that comes into the set makes it one larger.
LEMMA MoveInto ==
    ASSUME TypeOK, NEW w \in Workers, NEW t \in WorkerStates,
           pc[w] # t, Goto(w, t)
    PROVE  Cardinality(In(t))' = Cardinality(In(t)) + 1
<1>1. In(t)' = In(t) \cup {w} /\ w \notin In(t)
  BY DEF In, Goto, TypeOK
<1>2. QED BY <1>1, InFinite, FS_AddElement

\* A worker that leaves the set makes it one smaller.
LEMMA MoveOutOf ==
    ASSUME TypeOK, NEW w \in Workers, NEW s \in WorkerStates, NEW t,
           pc[w] = t, s # t, Goto(w, s)
    PROVE  Cardinality(In(t))' = Cardinality(In(t)) - 1
<1>1. In(t)' = In(t) \ {w} /\ w \in In(t)
  BY DEF In, Goto, TypeOK
<1>2. QED BY <1>1, InFinite, FS_RemoveElement

LEMMA InitIInv == Init => IInv
<1> SUFFICES ASSUME Init PROVE IInv
  OBVIOUS
<1>1. TypeOK
  <2>1. queue \in Seq(Tasks)
    BY DEF Init
  <2>2. job \in [Workers -> SUBSET Tasks]
    BY DEF Init
  <2>3. pc \in [Workers -> WorkerStates]
    BY DEF Init, WorkerStates
  <2>4. QED BY <2>1, <2>2, <2>3 DEF Init, TypeOK, ClientStates
<1>2. Closing
  BY DEF Init, Closing
<1>3. In("acquired") = {}
  BY DEF Init, In
<1>4. Cardinality(In("acquired")) = 0
  BY <1>3, FS_EmptySet
<1>5. Balance
  BY <1>4 DEF Init, Balance
<1>6. QED BY <1>1, <1>2, <1>5 DEF IInv

LEMMA TypeStep == IInv /\ [Next]_vars => TypeOK'
<1> SUFFICES ASSUME IInv, [Next]_vars PROVE TypeOK'
  OBVIOUS
<1> USE DEF IInv, TypeOK, ClientStates, WorkerStates, vars, poolVars, semVars
<1>1. CASE Start
  BY <1>1 DEF Start
<1>2. ASSUME NEW t \in Tasks, Queue(t) PROVE TypeOK'
  BY <1>2 DEF Queue
<1>3. CASE Join
  BY <1>3 DEF Join
<1>4. CASE ClientStep
  <2>1. CASE Release          BY <2>1 DEF Release
  <2>2. CASE InterruptSet     BY <2>2 DEF InterruptSet
  <2>3. CASE InterruptNotify  BY <2>3 DEF InterruptNotify
  <2>4. CASE Joined           BY <2>4 DEF Joined
  <2>5. QED BY <1>4, <2>1, <2>2, <2>3, <2>4 DEF ClientStep
<1>5. ASSUME NEW w \in Workers, WorkerStep(w) PROVE TypeOK'
  <2>1. CASE AcquireCheck(w) BY <2>1 DEF AcquireCheck, Goto
  <2>2. CASE AcquireLock(w)  BY <2>2 DEF AcquireLock, Goto
  <2>3. CASE AcquireTest(w)  BY <2>3 DEF AcquireTest, Goto
  <2>4. CASE Wake(w)         BY <2>4 DEF Wake, Goto
  <2>5. CASE Pop(w)
    <3>1. CASE done  BY <2>5, <3>1 DEF Pop, Goto
    <3>2. CASE ~done
      <4>1. Head(queue) \in Tasks /\ Tail(queue) \in Seq(Tasks)
        BY <2>5, <3>2 DEF Pop
      <4>2. QED BY <2>5, <3>2, <4>1 DEF Pop, Goto
    <3>3. QED BY <3>1, <3>2
  <2>6. CASE Execute(w)      BY <2>6 DEF Execute, Goto
  <2>7. QED BY <1>5, <2>1, <2>2, <2>3, <2>4, <2>5, <2>6 DEF WorkerStep
<1>6. ASSUME NEW w \in Workers, SpuriousWakeup(w) PROVE TypeOK'
  BY <1>6 DEF SpuriousWakeup
<1>7. CASE UNCHANGED vars
  BY <1>7
<1>8. QED BY <1>1, <1>2, <1>3, <1>4, <1>5, <1>6, <1>7 DEF Next

LEMMA ClosingStep == IInv /\ [Next]_vars => Closing'
  BY DEF IInv, Closing, Next, ClientStep, WorkerStep, vars, poolVars, semVars,
         Start, Queue, Join, Release, InterruptSet, InterruptNotify, Joined,
         AcquireCheck, AcquireLock, AcquireTest, Wake, Pop, Execute,
         SpuriousWakeup

LEMMA BalanceStep == IInv /\ [Next]_vars => Balance'
<1> SUFFICES ASSUME IInv, [Next]_vars PROVE Balance'
  OBVIOUS
<1> DEFINE acq == Cardinality(In("acquired"))
<1>a. acq \in Nat
  BY InFinite
<1>k. ASSUME pc' = pc PROVE acq' = acq
  BY <1>k DEF In
<1> USE DEF IInv, Balance, poolVars, semVars
<1>1. CASE Start
  <2>1. In("acquired")' = {} /\ In("acquired") = {}
    BY <1>1 DEF Start, In
  <2>2. QED BY <1>1, <2>1 DEF Start
<1>2. ASSUME NEW t \in Tasks, Queue(t) PROVE Balance'
  <2>1. Len(queue') = Len(queue) + 1
    BY <1>2 DEF Queue, TypeOK
  <2>2. QED BY <1>2, <1>k, <1>a, <2>1 DEF Queue, TypeOK
<1>3. CASE Join
  BY <1>3, <1>k, <1>a DEF Join
<1>4. CASE Release
  BY <1>4, <1>k, <1>a DEF Release, TypeOK
<1>5. CASE InterruptSet \/ InterruptNotify \/ Joined
  BY <1>5, <1>k, <1>a DEF InterruptSet, InterruptNotify, Joined, Closing
<1>6. ASSUME NEW w \in Workers, WorkerStep(w) PROVE Balance'
  <2>1. CASE AcquireCheck(w)
    <3>1. CASE semDone  BY <2>1, <3>1 DEF AcquireCheck
    <3>2. CASE ~semDone
      <4>1. acq' = acq
        BY <2>1, <3>2, MoveElsewhere DEF AcquireCheck, WorkerStates
      <4>2. QED BY <2>1, <4>1 DEF AcquireCheck
    <3>3. QED BY <3>1, <3>2
  <2>2. CASE AcquireLock(w)
    <3>1. acq' = acq
      BY <2>2, MoveElsewhere DEF AcquireLock, WorkerStates
    <3>2. QED BY <2>2, <3>1 DEF AcquireLock
  <2>3. CASE AcquireTest(w)
    <3>1. CASE count > 0
      <4>1. acq' = acq + 1
        BY <2>3, <3>1, MoveInto DEF AcquireTest, WorkerStates, TypeOK
      <4>2. count' = count - 1
        BY <2>3, <3>1 DEF AcquireTest, TypeOK
      <4>3. QED BY <2>3, <4>1, <4>2, <1>a DEF AcquireTest, TypeOK
    <3>2. CASE ~(count > 0)
      <4>1. acq' = acq
        BY <2>3, <3>2, MoveElsewhere DEF AcquireTest, WorkerStates, TypeOK
      <4>2. QED BY <2>3, <3>2, <4>1 DEF AcquireTest, TypeOK
    <3>3. QED BY <3>1, <3>2
  <2>4. CASE Wake(w)
    <3>1. CASE semDone  BY <2>4, <3>1 DEF Wake
    <3>2. CASE ~semDone
      <4>1. acq' = acq
        BY <2>4, <3>2, MoveElsewhere DEF Wake, WorkerStates
      <4>2. QED BY <2>4, <4>1 DEF Wake
    <3>3. QED BY <3>1, <3>2
  <2>5. CASE Pop(w)
    <3>1. CASE done  BY <2>5, <3>1 DEF Pop
    <3>2. CASE ~done
      <4>1. acq' = acq - 1
        BY <2>5, <3>2, MoveOutOf DEF Pop, WorkerStates
      <4>2. Len(queue') = Len(queue) - 1
        BY <2>5, <3>2 DEF Pop, TypeOK
      <4>3. QED BY <2>5, <3>2, <4>1, <4>2, <1>a DEF Pop, TypeOK
    <3>3. QED BY <3>1, <3>2
  <2>6. CASE Execute(w)
    <3>1. acq' = acq
      BY <2>6, MoveElsewhere DEF Execute, WorkerStates
    <3>2. QED BY <2>6, <3>1 DEF Execute
  <2>7. QED BY <1>6, <2>1, <2>2, <2>3, <2>4, <2>5, <2>6 DEF WorkerStep
<1>7. ASSUME NEW w \in Workers, SpuriousWakeup(w) PROVE Balance'
  BY <1>7, <1>k DEF SpuriousWakeup
<1>8. CASE UNCHANGED vars
  BY <1>8, <1>k DEF vars
<1>9. QED
  BY <1>1, <1>2, <1>3, <1>4, <1>5, <1>6, <1>7, <1>8 DEF Next, ClientStep

\* The types, the order of join()'s two stores and the accounting of the queue
\* together are an inductive invariant.
THEOREM InductiveInvariant == Spec => []IInv
<1>1. Init => IInv
  BY InitIInv
<1>2. IInv /\ [Next]_vars => IInv'
  BY TypeStep, ClosingStep, BalanceStep DEF IInv
<1>3. QED BY <1>1, <1>2, PTL DEF Spec

\* The semaphore's count and the workers past acquire() account for the queue.
THEOREM BalanceInvariant == Spec => []Balance
<1>1. IInv => Balance
  BY DEF IInv
<1>2. QED BY <1>1, InductiveInvariant, PTL

\* Every variable of the pool keeps its type.
THEOREM TypeCorrect == Spec => []TypeOK
<1>1. IInv => TypeOK
  BY DEF IInv
<1>2. QED BY <1>1, InductiveInvariant, PTL

\* run_() never pops an empty queue, whatever the number of workers.
THEOREM PopsCovered == Spec => []PopsAreCovered
<1>1. IInv => PopsAreCovered
  <2>1. Cardinality(In("acquired")) \in Nat
    BY InFinite
  <2>2. QED BY <2>1 DEF IInv, TypeOK, Balance, PopsAreCovered
<1>2. QED BY <1>1, InductiveInvariant, PTL
=============================================================================
