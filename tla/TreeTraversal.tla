---------------------------- MODULE TreeTraversal ---------------------------
(***************************************************************************)
(* The concurrent traversals of tree_topology.h: find_in_radius,           *)
(* find_in_box, apply_in_radius, apply_in_box, visit and visit_children    *)
(* with a thread_pool.  The calling thread descends to queue_depth and     *)
(* queues one job per branch there; a virtual_semaphore that starts at     *)
(* 1 - m counts the m branches a complete tree would have there, and the   *)
(* caller acquires it to wait for them.  A branch above queue_depth that   *)
(* is a leaf, or is left out, releases it for all that would be below it.  *)
(*                                                                         *)
(* A job may itself start a traversal with the pool, as the visitor of     *)
(* topology/test/gravity.cc does.  The pool is taken as ThreadPool shows   *)
(* it to be: every queued job is executed once, in the order of queueing.  *)
(***************************************************************************)
EXTENDS Integers, FiniteSets, SequencesExt

CONSTANTS Workers,    \* the threads of the pool
          Dimension,
          Inner,      \* the branches with children, ids as in TreeTopology
          LeftOut,    \* the branches the query or the visitor turns down
          Nesting     \* the branches whose job starts a traversal

\* branch_int_t(1) << n
PowerOfTwo(n) ==
    LET power[i \in 0..n] == IF i = 0 THEN 1 ELSE 2 * power[i - 1] IN power[n]

num_children == PowerOfTwo(Dimension)
Children == 0..num_children - 1
Root == <<>>
Kids(b) == IF b \in Inner THEN [i \in 1..num_children |-> Append(b, i - 1)] ELSE <<>>
Branches == {Root} \cup {Append(b, i) : b \in Inner, i \in Children}
Under(b) == {a \in Branches : IsPrefix(b, a)}

\* get_queue_depth: log_2^Dimension of the number of threads, rounded down, + 1
QueueDepth ==
    1 + CHOOSE k \in 0..Cardinality(Workers) :
            /\ PowerOfTwo(k * Dimension) <= Cardinality(Workers)
            /\ PowerOfTwo((k + 1) * Dimension) > Cardinality(Workers)

\* The tree has a branch above each; a job is that of a branch at queue_depth.
ASSUME TraversalAssumption ==
    /\ IsFiniteSet(Workers) /\ Workers # {}
    /\ Dimension \in Nat \ {0}
    /\ Inner \subseteq Seq(Children)
    /\ \A b \in Inner : \A k \in 0..Len(b) : SubSeq(b, 1, k) \in Inner
    /\ LeftOut \subseteq Branches \ {Root}
    /\ Nesting \subseteq Branches \ LeftOut
    /\ \A b \in Nesting : Len(b) = QueueDepth

\* A traversal is named by the branch it starts from: the caller's by the
\* root, a nested one by the branch of the job that starts it.
Traversals == {Root} \cup Nesting

VARIABLES
    testsFirst, \* whether the caller tests a branch before it descends, as
                \* find_ and apply_ do, or when it is there, as visit_ does
    phase,    \* where the thread is that called a traversal
    todo,     \* the branches it has yet to come to, in order
    sem,      \* the count of the traversal's virtual_semaphore
    queue,    \* the pool's queue of jobs
    job,      \* the job each worker executes, none or one
    stage,    \* how far it is in it
    handled   \* how often each leaf's entities were handled, by traversal

vars == <<testsFirst, phase, todo, sem, queue, job, stage, handled>>

Jobs == [of : Traversals, at : Branches]

Init ==
    /\ testsFirst \in BOOLEAN
    /\ phase = [t \in Traversals |-> "uncalled"]
    /\ todo = [t \in Traversals |-> <<>>]
    /\ sem = [t \in Traversals |-> 0]
    /\ queue = <<>>
    /\ job = [w \in Workers |-> {}]
    /\ stage = [w \in Workers |-> "idle"]
    /\ handled = [t \in Traversals |-> [l \in Branches \ Inner |-> 0]]

-----------------------------------------------------------------------------
\* The jobs of a complete tree at queue_depth, below a branch of traversal t.
Weight(t, b) == PowerOfTwo((QueueDepth - (Len(b) - Len(t))) * Dimension)

\* Mutant: off by one.
StartAtTwo(t) ==
    /\ phase' = [phase EXCEPT ![t] = "descend"]
    /\ todo' = [todo EXCEPT ![t] = <<t>>]
    /\ sem' = [sem EXCEPT ![t] = 2 - Weight(t, t)]

\* The traversal is called: its semaphore starts at 1 - m.
Start(t) ==
    /\ phase' = [phase EXCEPT ![t] = "descend"]
    /\ todo' = [todo EXCEPT ![t] = <<t>>]
    /\ sem' = [sem EXCEPT ![t] = 1 - Weight(t, t)]

Call ==
    /\ phase[Root] = "uncalled"
    /\ Start(Root)
    /\ UNCHANGED <<queue, job, stage, handled>>

\* The entities of the leaves in S are handled for traversal t.
Handle(t, S) ==
    handled' = [handled EXCEPT ![t] = [l \in Branches \ Inner |->
                    IF l \in S THEN @[l] + 1 ELSE @[l]]]

\* The calling thread is about to come to branch b.
Comes(t, b) == phase[t] = "descend" /\ todo[t] # <<>> /\ Head(todo[t]) = b
AtQueueDepth(t, b) == Len(b) - Len(t) = QueueDepth

\* The caller turns b down: before it queues it if it tests first.  A nested
\* visit_children turns down nothing.
TurnsDown(t, b) == /\ t = Root
                   /\ b \in LeftOut
                   /\ testsFirst \/ ~AtQueueDepth(t, b)

\* Mutant: a branch that is left out releases for itself only.
LeaveOutOnce(t, b) ==
    /\ Comes(t, b)
    /\ TurnsDown(t, b)
    /\ sem' = [sem EXCEPT ![t] = @ + 1]
    /\ todo' = [todo EXCEPT ![t] = Tail(@)]
    /\ UNCHANGED <<phase, queue, job, stage, handled>>

LeaveOut(t, b) ==
    /\ Comes(t, b)
    /\ TurnsDown(t, b)
    /\ sem' = [sem EXCEPT ![t] = @ + Weight(t, b)]
    /\ todo' = [todo EXCEPT ![t] = Tail(@)]
    /\ UNCHANGED <<phase, queue, job, stage, handled>>

Enqueue(t, b) ==
    /\ Comes(t, b)
    /\ ~TurnsDown(t, b)
    /\ AtQueueDepth(t, b)
    /\ queue' = Append(queue, [of |-> t, at |-> b])
    /\ todo' = [todo EXCEPT ![t] = Tail(@)]
    /\ UNCHANGED <<phase, sem, job, stage, handled>>

\* Mutant: a leaf releases for itself only.
HandleLeafOnce(t, b) ==
    /\ Comes(t, b)
    /\ ~TurnsDown(t, b) /\ ~AtQueueDepth(t, b)
    /\ b \notin Inner
    /\ Handle(t, {b})
    /\ sem' = [sem EXCEPT ![t] = @ + 1]
    /\ todo' = [todo EXCEPT ![t] = Tail(@)]
    /\ UNCHANGED <<phase, queue, job, stage>>

\* A leaf above queue_depth is handled by the caller itself.
HandleLeaf(t, b) ==
    /\ Comes(t, b)
    /\ ~TurnsDown(t, b) /\ ~AtQueueDepth(t, b)
    /\ b \notin Inner
    /\ Handle(t, {b})
    /\ sem' = [sem EXCEPT ![t] = @ + Weight(t, b)]
    /\ todo' = [todo EXCEPT ![t] = Tail(@)]
    /\ UNCHANGED <<phase, queue, job, stage>>

Descend(t, b) ==
    /\ Comes(t, b)
    /\ ~TurnsDown(t, b) /\ ~AtQueueDepth(t, b)
    /\ b \in Inner
    /\ todo' = [todo EXCEPT ![t] = Kids(b) \o Tail(@)]
    /\ UNCHANGED <<phase, sem, queue, job, stage, handled>>

\* The caller has come to the end and waits in sem.acquire().
Wait(t) ==
    /\ phase[t] = "descend" /\ todo[t] = <<>>
    /\ phase' = [phase EXCEPT ![t] = "acquire"]
    /\ UNCHANGED <<todo, sem, queue, job, stage, handled>>

\* The traversal returns; a worker that called it comes to the end of its job.
Return(t) ==
    /\ phase[t] = "acquire"
    /\ sem[t] > 0
    /\ sem' = [sem EXCEPT ![t] = @ - 1]
    /\ phase' = [phase EXCEPT ![t] = "returned"]
    /\ stage' = [w \in Workers |->
           IF stage[w] = "nested" /\ \E j \in job[w] : j.at = t THEN "release" ELSE stage[w]]
    /\ UNCHANGED <<todo, queue, job, handled>>

-----------------------------------------------------------------------------
(* A worker of the pool *)

Pop(w) ==
    /\ stage[w] = "idle"
    /\ queue # <<>>
    /\ job' = [job EXCEPT ![w] = {Head(queue)}]
    /\ stage' = [stage EXCEPT ![w] = "run"]
    /\ queue' = Tail(queue)
    /\ UNCHANGED <<phase, todo, sem, handled>>

\* The leaves that traversal t reaches from b: below no branch left out.
LeavesFor(t, b) ==
    {l \in Under(b) \ Inner :
        t = Root => \A a \in Under(b) : IsPrefix(a, l) => a \notin LeftOut}

\* The job starts a traversal of its own at its branch.
Nests(j) == j.at \in Nesting /\ j.of = Root

\* The sequential traversal of the branch; find_ puts what it found into the
\* result under a mutex, at the end.
Run(w, j) ==
    /\ stage[w] = "run"
    /\ j \in job[w]
    /\ ~Nests(j)
    /\ Handle(j.of, LeavesFor(j.of, j.at))
    /\ stage' = [stage EXCEPT ![w] = "release"]
    /\ UNCHANGED <<phase, todo, sem, queue, job>>

\* The visitor turns the branch down, after a traversal with the pool.
RunNested(w, j) ==
    /\ stage[w] = "run"
    /\ j \in job[w]
    /\ Nests(j)
    /\ Start(j.at)
    /\ stage' = [stage EXCEPT ![w] = "nested"]
    /\ UNCHANGED <<queue, job, handled>>

Release(w, j) ==
    /\ stage[w] = "release"
    /\ j \in job[w]
    /\ sem' = [sem EXCEPT ![j.of] = @ + 1]
    /\ job' = [job EXCEPT ![w] = {}]
    /\ stage' = [stage EXCEPT ![w] = "idle"]
    /\ UNCHANGED <<phase, todo, queue, handled>>

\* The pool's workers wait for jobs for as long as there are none.
Idle ==
    /\ queue = <<>>
    /\ \A w \in Workers : stage[w] = "idle"
    /\ UNCHANGED vars

-----------------------------------------------------------------------------
Caller(t) == \/ \E b \in Branches : \/ LeaveOut(t, b) \/ Enqueue(t, b)
                                    \/ HandleLeaf(t, b) \/ Descend(t, b)
             \/ Wait(t) \/ Return(t)

Worker(w) == \/ Pop(w)
             \/ \E j \in Jobs : Run(w, j) \/ RunNested(w, j) \/ Release(w, j)

Next == /\ \/ Call \/ Idle
           \/ \E t \in Traversals : Caller(t)
           \/ \E w \in Workers : Worker(w)
        /\ UNCHANGED testsFirst

Spec == Init /\ [][Next]_vars

\* The caller and every worker run.
FairSpec == /\ Spec
            /\ WF_vars(Call /\ UNCHANGED testsFirst)
            /\ \A t \in Traversals : WF_vars(Caller(t) /\ UNCHANGED testsFirst)
            /\ \A w \in Workers : WF_vars(Worker(w) /\ UNCHANGED testsFirst)

-----------------------------------------------------------------------------
(* Properties *)

JobsOf(t) == {i \in DOMAIN queue : queue[i].of = t}
RunningFor(t) == {w \in Workers : \E j \in job[w] : j.of = t}

\* The leaves a sequential traversal handles.
Reference(t) ==
    {l \in LeavesFor(t, t) : t = Root => \A a \in Nesting : ~IsPrefix(a, l)}

\* When a traversal returns, nothing of it is left in the pool, so that no job
\* uses the semaphore, the mutex or the result on the caller's stack, and the
\* entities of every leaf that is not left out were handled exactly once.
ReturnsComplete ==
    \A t \in Traversals : phase[t] = "returned" =>
        /\ JobsOf(t) = {} /\ RunningFor(t) = {}
        /\ \A l \in Branches \ Inner : handled[t][l] = IF l \in Reference(t) THEN 1 ELSE 0

\* The jobs a complete tree has below a sequence of branches, from its end.
JobsBelow(t, seq) ==
    LET n == Len(seq)
        below[i \in 0..n] == IF i = 0 THEN 0 ELSE below[i - 1] + Weight(t, seq[n + 1 - i])
    IN  below[n]

\* The semaphore lacks one count for every job queued or running and, for each
\* branch still ahead of the caller, for the jobs a complete tree has below it.
SemCountsJobs ==
    \A t \in Traversals : phase[t] \in {"descend", "acquire"} =>
        sem[t] = 1 - Cardinality(JobsOf(t)) - Cardinality(RunningFor(t)) - JobsBelow(t, todo[t])

\* A traversal that is called returns.
Returns == \A t \in Traversals : phase[t] = "descend" ~> phase[t] = "returned"
=============================================================================
