----------------------------- MODULE ThreadPool -----------------------------
(***************************************************************************)
(* flecsi/concurrency: thread_pool, a FIFO of callables served by worker   *)
(* threads, and the virtual_semaphore (a counter under a mutex, a          *)
(* condition variable and an atomic "done" flag) the workers block on.     *)
(*                                                                         *)
(* One action per step that another thread can observe: a step made under  *)
(* a mutex that releases it at once is one action; the unlocked read of    *)
(* done_ in acquire(), and the unlocked store and notification of          *)
(* interrupt(), are actions of their own.                                  *)
(***************************************************************************)
EXTENDS Integers, Sequences, FiniteSets

CONSTANTS Workers,    \* the threads start() creates
          Tasks       \* the callables a client may queue

ASSUME WorkersAssumption == Workers # {} /\ IsFiniteSet(Workers)

VARIABLES
    client,     \* what the owner of the pool is doing
    queue,      \* thread_pool::queue_
    done,       \* thread_pool::done_
    count,      \* virtual_semaphore::count_ of sem_
    semDone,    \* virtual_semaphore::done_ of sem_
    lock,       \* the worker that holds sem_'s mutex_, or {}
    waiting,    \* the workers in cond_.wait that nobody has notified
    pc,         \* where each worker is in run_()
    job,        \* the callable each worker popped, as a set
    ran         \* the callables that have been executed

poolVars == <<client, queue, done>>
semVars  == <<count, semDone, lock, waiting>>
vars     == <<client, queue, done, count, semDone, lock, waiting, pc, job, ran>>

Queued == {queue[i] : i \in DOMAIN queue}
Taken  == UNION {job[w] : w \in Workers}

WorkerStates == {"new", "acquire", "enter", "test", "blocked", "acquired",
                 "run", "exited"}
ClientStates == {"idle", "release", "interrupt", "notify", "joining", "joined"}

TypeOK ==
    /\ client \in ClientStates
    /\ queue \in Seq(Tasks)
    /\ done \in BOOLEAN
    /\ count \in Nat
    /\ semDone \in BOOLEAN
    /\ lock \in SUBSET Workers
    /\ waiting \in SUBSET Workers
    /\ pc \in [Workers -> WorkerStates]
    /\ job \in [Workers -> SUBSET Tasks]
    /\ ran \in SUBSET Tasks

Init ==
    /\ client = "idle"
    /\ queue = <<>>
    /\ done = FALSE
    /\ count = 0
    /\ semDone = FALSE
    /\ lock = {}
    /\ waiting = {}
    /\ pc = [w \in Workers |-> "new"]
    /\ job = [w \in Workers |-> {}]
    /\ ran = {}

-----------------------------------------------------------------------------
(* The owner of the pool *)

\* start(): one thread per worker; asserts that no thread was started yet.
Start ==
    /\ client = "idle"
    /\ \A w \in Workers : pc[w] = "new"
    /\ pc' = [w \in Workers |-> "acquire"]
    /\ UNCHANGED <<poolVars, semVars, job, ran>>

\* queue(): the callable is pushed under the pool's mutex ...
Queue(t) ==
    /\ client = "idle"
    /\ t \notin Queued \cup Taken \cup ran
    /\ queue' = Append(queue, t)
    /\ client' = "release"
    /\ UNCHANGED <<done, semVars, pc, job, ran>>

\* Mutant: release() without notify_one.
ReleaseSilently ==
    /\ client = "release"
    /\ lock = {}
    /\ count' = count + 1
    /\ client' = "idle"
    /\ UNCHANGED <<queue, done, semDone, lock, waiting, pc, job, ran>>

\* ... and sem_.release() then counts it and notifies one waiter.
Release ==
    /\ client = "release"
    /\ lock = {}
    /\ count' = count + 1
    /\ IF waiting = {}
         THEN UNCHANGED waiting
         ELSE \E w \in waiting : waiting' = waiting \ {w}
    /\ client' = "idle"
    /\ UNCHANGED <<queue, done, semDone, lock, pc, job, ran>>

\* Mutant: join() interrupts the semaphore without setting the pool's done_.
JoinWithoutDone ==
    /\ client = "idle"
    /\ ~done
    /\ client' = "interrupt"
    /\ UNCHANGED <<queue, done, semVars, pc, job, ran>>

\* join(): done_ = true, then sem_.interrupt(), then every thread is joined.
Join ==
    /\ client = "idle"
    /\ ~done
    /\ done' = TRUE
    /\ client' = "interrupt"
    /\ UNCHANGED <<queue, semVars, pc, job, ran>>

\* interrupt(): the store to done_ ...
InterruptSet ==
    /\ client = "interrupt"
    /\ semDone' = TRUE
    /\ client' = "notify"
    /\ UNCHANGED <<queue, done, count, lock, waiting, pc, job, ran>>

\* Mutant: interrupt() with notify_one in the place of notify_all.
InterruptNotifyOne ==
    /\ client = "notify"
    /\ \/ waiting = {} /\ UNCHANGED waiting
       \/ \E w \in waiting : waiting' = waiting \ {w}
    /\ client' = "joining"
    /\ UNCHANGED <<queue, done, count, semDone, lock, pc, job, ran>>

\* ... and notify_all, neither of them under the semaphore's mutex.
InterruptNotify ==
    /\ client = "notify"
    /\ waiting' = {}
    /\ client' = "joining"
    /\ UNCHANGED <<queue, done, count, semDone, lock, pc, job, ran>>

\* A pool that was never started has no thread to join.
Joined ==
    /\ client = "joining"
    /\ \A w \in Workers : pc[w] \in {"new", "exited"}
    /\ client' = "joined"
    /\ UNCHANGED <<queue, done, semVars, pc, job, ran>>

-----------------------------------------------------------------------------
(* A worker in run_() *)

Goto(w, state) == pc' = [pc EXCEPT ![w] = state]

\* acquire() reads done_ before it takes the mutex; run_() ignores what
\* acquire() returns.
AcquireCheck(w) ==
    /\ pc[w] = "acquire"
    /\ Goto(w, IF semDone THEN "acquired" ELSE "enter")
    /\ UNCHANGED <<poolVars, semVars, job, ran>>

AcquireLock(w) ==
    /\ pc[w] = "enter"
    /\ lock = {}
    /\ lock' = {w}
    /\ Goto(w, "test")
    /\ UNCHANGED <<poolVars, count, semDone, waiting, job, ran>>

\* Mutant: an off-by-one in the loop condition, while(count_ < 0).
AcquireTestOffByOne(w) ==
    /\ pc[w] = "test"
    /\ lock' = {}
    /\ count' = count - 1
    /\ Goto(w, "acquired")
    /\ UNCHANGED <<poolVars, semDone, waiting, job, ran>>

\* while(count_ <= 0) cond_.wait(lock): waiting gives the mutex up.
AcquireTest(w) ==
    /\ pc[w] = "test"
    /\ lock' = {}
    /\ \/ /\ count > 0
          /\ count' = count - 1
          /\ Goto(w, "acquired")
          /\ UNCHANGED waiting
       \/ /\ count <= 0
          /\ waiting' = waiting \cup {w}
          /\ Goto(w, "blocked")
          /\ UNCHANGED count
    /\ UNCHANGED <<poolVars, semDone, job, ran>>

\* Mutant: "if" for "while" in acquire(), the count not tested again.
WakeWithoutTest(w) ==
    /\ pc[w] = "blocked"
    /\ w \notin waiting
    /\ lock = {}
    /\ Goto(w, "acquired")
    /\ count' = IF semDone \/ count = 0 THEN count ELSE count - 1
    /\ UNCHANGED <<poolVars, semDone, lock, waiting, job, ran>>

\* A notified waiter takes the mutex again and reads done_.
Wake(w) ==
    /\ pc[w] = "blocked"
    /\ w \notin waiting
    /\ lock = {}
    /\ IF semDone
         THEN Goto(w, "acquired") /\ UNCHANGED lock
         ELSE Goto(w, "test") /\ lock' = {w}
    /\ UNCHANGED <<poolVars, count, semDone, waiting, job, ran>>

\* Under the pool's mutex: leave if done_, else pop the front of the queue.
\* Popping an empty std::queue is undefined: see PopsAreCovered.
Pop(w) ==
    /\ pc[w] = "acquired"
    /\ \/ /\ done
          /\ Goto(w, "exited")
          /\ UNCHANGED <<queue, job>>
       \/ /\ ~done
          /\ queue # <<>>
          /\ job' = [job EXCEPT ![w] = {Head(queue)}]
          /\ queue' = Tail(queue)
          /\ Goto(w, "run")
    /\ UNCHANGED <<client, done, semVars, ran>>

\* f(), and back to the top of the loop.
Execute(w) ==
    /\ pc[w] = "run"
    /\ ran' = ran \cup job[w]
    /\ job' = [job EXCEPT ![w] = {}]
    /\ Goto(w, "acquire")
    /\ UNCHANGED <<poolVars, semVars>>

\* The standard lets a waiter return from cond_.wait unnotified.
SpuriousWakeup(w) ==
    /\ w \in waiting
    /\ waiting' = waiting \ {w}
    /\ UNCHANGED <<poolVars, count, semDone, lock, pc, job, ran>>

-----------------------------------------------------------------------------
WorkerStep(w) == \/ AcquireCheck(w) \/ AcquireLock(w) \/ AcquireTest(w)
                 \/ Wake(w) \/ Pop(w) \/ Execute(w)

\* What the client has begun it goes on with; starting, queueing and joining
\* are its own choice.
ClientStep == Release \/ InterruptSet \/ InterruptNotify \/ Joined

Next ==
    \/ Start
    \/ \E t \in Tasks : Queue(t)
    \/ Join
    \/ ClientStep
    \/ \E w \in Workers : WorkerStep(w) \/ SpuriousWakeup(w)

Spec == Init /\ [][Next]_vars

\* The scheduler runs every runnable thread, and a mutex that is free again
\* and again is got in the end; a spurious wakeup is never owed.
Fairness == SF_vars(ClientStep) /\ \A w \in Workers : WF_vars(WorkerStep(w))
FairSpec == Spec /\ Fairness

-----------------------------------------------------------------------------
(* Properties *)

In(state) == {w \in Workers : pc[w] = state}

\* run_() calls queue_.front() without looking whether the queue is empty: as
\* long as the pool is not done, every worker that came out of acquire() has a
\* callable of its own waiting in the queue, however queue(), release() and
\* the other workers' pops interleave.
PopsAreCovered == ~done => Cardinality(In("acquired")) <= Len(queue)

\* What makes PopsAreCovered inductive: the semaphore's count and the workers
\* past acquire() account for the queue exactly, but for the callable that
\* queue() has pushed and not yet released.
Balance ==
    /\ semDone => done
    /\ ~done => count + Cardinality(In("acquired"))
                  + (IF client = "release" THEN 1 ELSE 0) = Len(queue)

\* queue() promises execution: once the pool runs, a queued callable is
\* executed unless the pool is interrupted first; no notification is lost.
QueuedIsExecuted ==
    \A t \in Tasks :
        (t \in Queued /\ In("new") = {}) ~> (t \in ran \/ done)

\* join() returns when no worker was between its unlocked test of done_ and
\* cond_.wait at the time interrupt() stored to done_.
JoinReturnsWhenSettled ==
    (client = "notify" /\ In("enter") \cup In("test") = {})
        ~> (client = "joined")

\* "Disable semaphore and unblock all acquire operations": once interrupt()
\* is called every worker leaves acquire() and join() returns.
InterruptUnblocksAll == (client = "interrupt") ~> (client = "joined")
=============================================================================
