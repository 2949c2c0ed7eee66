--------------------------- MODULE LegionHandshake --------------------------
(***************************************************************************)
(* How the Legion backend runs MPI tasks.  Every process has an MPI thread,*)
(* in context_policy's initialize(), and runs point tasks of Legion.  The  *)
(* top-level task launches, for each MPI task, four index launches over    *)
(* all processes, one after the other; the MPI thread gets control from    *)
(* Legion in a handshake, calls the function that was set and gives it     *)
(* back, with MPI barriers around.  mpi_active_ and mpi_task_ are plain    *)
(* members that both sides write.                                          *)
(*                                                                         *)
(* A handshake with one participant on each side is, in each direction, a  *)
(* count of handoffs not yet waited for.                                   *)
(***************************************************************************)
EXTENDS Integers, Sequences

CONSTANTS Ranks,         \* the processes
          NumMpiTasks    \* the MPI tasks the program executes

ASSUME HandshakeAssumption == Ranks # {} /\ NumMpiTasks \in Nat

VARIABLES
    launch,     \* the index launch the top-level task is waiting for
    points,     \* the processes that have run their point of it
    pc,         \* where each MPI thread is
    entered,    \* how many MPI barriers each has entered
    toLegion,   \* handoffs to Legion of each process, not yet waited for
    toMpi,      \* handoffs to MPI
    mpiActive,  \* mpi_active_
    mpiTask,    \* mpi_task_, by its number; 0: none yet
    invoked     \* the MPI tasks that each MPI thread has called

legion == <<launch, points>>
shake  == <<toLegion, toMpi>>
handshakeVars ==
    <<launch, points, pc, entered, shake, mpiActive, mpiTask, invoked>>

Launches == {"wait_on_mpi", "execute", "handoff_to_mpi", "unset_call_mpi"}
States == {"handoff_barrier", "handoff", "wait", "wait_barrier", "loop", "returned"}

\* Mutant: the driver does not give control back at the end.
ScriptKeepingControl ==
    [i \in 1..4 * NumMpiTasks + 2 |->
        IF i = 1 THEN "wait_on_mpi"
        ELSE IF i = 4 * NumMpiTasks + 2 THEN "unset_call_mpi"
        ELSE <<"execute", "handoff_to_mpi", "wait_on_mpi", "unset_call_mpi">>[((i - 2) % 4) + 1]]

\* runtime_driver waits for MPI first; execute_task launches, hands off,
\* waits and resets; runtime_driver resets and hands off at the end.
Script ==
    [i \in 1..4 * NumMpiTasks + 3 |->
        IF i = 1 THEN "wait_on_mpi"
        ELSE IF i = 4 * NumMpiTasks + 2 THEN "unset_call_mpi"
        ELSE IF i = 4 * NumMpiTasks + 3 THEN "handoff_to_mpi"
        ELSE <<"execute", "handoff_to_mpi", "wait_on_mpi", "unset_call_mpi">>[((i - 2) % 4) + 1]]

\* The MPI task that launch i belongs to.
TaskOf(i) == (i + 2) \div 4

HandshakeTypeOK ==
    /\ launch \in 1..Len(Script) + 1
    /\ points \in SUBSET Ranks
    /\ pc \in [Ranks -> States]
    /\ entered \in [Ranks -> Nat]
    /\ toLegion \in [Ranks -> 0..1] /\ toMpi \in [Ranks -> 0..1]
    /\ mpiActive \in [Ranks -> BOOLEAN]
    /\ mpiTask \in [Ranks -> 0..NumMpiTasks]
    /\ invoked \in [Ranks -> Seq(1..NumMpiTasks)]

HandshakeInit ==
    /\ launch = 1
    /\ points = {}
    /\ pc = [r \in Ranks |-> "handoff_barrier"]
    /\ entered = [r \in Ranks |-> 1]
    /\ toLegion = [r \in Ranks |-> 0]
    /\ toMpi = [r \in Ranks |-> 0]
    /\ mpiActive = [r \in Ranks |-> FALSE]
    /\ mpiTask = [r \in Ranks |-> 0]
    /\ invoked = [r \in Ranks |-> <<>>]

-----------------------------------------------------------------------------
(* Legion *)

\* Process r has yet to run its point of a launch of this kind.
Runs(r, kind) ==
    /\ launch <= Len(Script)
    /\ Script[launch] = kind
    /\ r \notin points

WaitOnMpi(r) ==
    /\ Runs(r, "wait_on_mpi")
    /\ toLegion[r] > 0
    /\ toLegion' = [toLegion EXCEPT ![r] = @ - 1]
    /\ points' = points \cup {r}
    /\ UNCHANGED <<launch, pc, entered, toMpi, mpiActive, mpiTask, invoked>>

\* execute_mpi_task
ExecuteMpiTask(r) ==
    /\ Runs(r, "execute")
    /\ mpiTask' = [mpiTask EXCEPT ![r] = TaskOf(launch)]
    /\ mpiActive' = [mpiActive EXCEPT ![r] = TRUE]
    /\ points' = points \cup {r}
    /\ UNCHANGED <<launch, pc, entered, shake, invoked>>

HandoffToMpi(r) ==
    /\ Runs(r, "handoff_to_mpi")
    /\ toMpi' = [toMpi EXCEPT ![r] = @ + 1]
    /\ points' = points \cup {r}
    /\ UNCHANGED <<launch, pc, entered, toLegion, mpiActive, mpiTask, invoked>>

UnsetCallMpi(r) ==
    /\ Runs(r, "unset_call_mpi")
    /\ mpiActive' = [mpiActive EXCEPT ![r] = FALSE]
    /\ points' = points \cup {r}
    /\ UNCHANGED <<launch, pc, entered, shake, mpiTask, invoked>>

\* Mutant: the top-level task does not wait for its launches.
WaitForOne ==
    /\ points # {}
    /\ launch' = launch + 1
    /\ points' = {}
    /\ UNCHANGED <<pc, entered, shake, mpiActive, mpiTask, invoked>>

\* wait_all_results: the top-level task goes on to its next launch.
WaitAllResults ==
    /\ points = Ranks
    /\ launch' = launch + 1
    /\ points' = {}
    /\ UNCHANGED <<pc, entered, shake, mpiActive, mpiTask, invoked>>

-----------------------------------------------------------------------------
(* The MPI threads *)

\* r leaves the MPI barrier it is in for state next.
Leave(r, next) ==
    /\ \A s \in Ranks : entered[s] >= entered[r]
    /\ pc' = [pc EXCEPT ![r] = next]
    /\ UNCHANGED <<legion, entered, shake, mpiActive, mpiTask, invoked>>

\* handoff_to_legion: a barrier, then the handoff.
LeaveHandoffBarrier(r) == pc[r] = "handoff_barrier" /\ Leave(r, "handoff")

HandoffToLegion(r) ==
    /\ pc[r] = "handoff"
    /\ toLegion' = [toLegion EXCEPT ![r] = @ + 1]
    /\ pc' = [pc EXCEPT ![r] = "wait"]
    /\ UNCHANGED <<legion, entered, toMpi, mpiActive, mpiTask, invoked>>

\* Mutant: wait_on_legion without its barrier.
WaitOnLegionOnly(r) ==
    /\ pc[r] = "wait"
    /\ toMpi[r] > 0
    /\ toMpi' = [toMpi EXCEPT ![r] = @ - 1]
    /\ pc' = [pc EXCEPT ![r] = "loop"]
    /\ UNCHANGED <<legion, entered, toLegion, mpiActive, mpiTask, invoked>>

\* wait_on_legion: the handoff from Legion, then a barrier.
WaitOnLegion(r) ==
    /\ pc[r] = "wait"
    /\ toMpi[r] > 0
    /\ toMpi' = [toMpi EXCEPT ![r] = @ - 1]
    /\ entered' = [entered EXCEPT ![r] = @ + 1]
    /\ pc' = [pc EXCEPT ![r] = "wait_barrier"]
    /\ UNCHANGED <<legion, toLegion, mpiActive, mpiTask, invoked>>

LeaveWaitBarrier(r) == pc[r] = "wait_barrier" /\ Leave(r, "loop")

\* while(mpi_active_): the function is called, the flag reset, and
\* handoff_to_legion enters its barrier.
InvokeMpiTask(r) ==
    /\ pc[r] = "loop"
    /\ mpiActive[r]
    /\ invoked' = [invoked EXCEPT ![r] = Append(@, mpiTask[r])]
    /\ mpiActive' = [mpiActive EXCEPT ![r] = FALSE]
    /\ entered' = [entered EXCEPT ![r] = @ + 1]
    /\ pc' = [pc EXCEPT ![r] = "handoff_barrier"]
    /\ UNCHANGED <<legion, shake, mpiTask>>

\* initialize() comes to its end.
Return(r) ==
    /\ pc[r] = "loop"
    /\ ~mpiActive[r]
    /\ pc' = [pc EXCEPT ![r] = "returned"]
    /\ UNCHANGED <<legion, entered, shake, mpiActive, mpiTask, invoked>>

-----------------------------------------------------------------------------
Point(r) == WaitOnMpi(r) \/ ExecuteMpiTask(r) \/ HandoffToMpi(r) \/ UnsetCallMpi(r)
Mpi(r) == \/ LeaveHandoffBarrier(r) \/ HandoffToLegion(r) \/ WaitOnLegion(r)
          \/ LeaveWaitBarrier(r) \/ InvokeMpiTask(r) \/ Return(r)

HandshakeNext == WaitAllResults \/ \E r \in Ranks : Point(r) \/ Mpi(r)

HandshakeSpec == HandshakeInit /\ [][HandshakeNext]_handshakeVars

\* Legion runs what was launched, and every MPI thread runs.
FairHandshake ==
    /\ HandshakeSpec
    /\ WF_handshakeVars(WaitAllResults)
    /\ \A r \in Ranks : WF_handshakeVars(Point(r)) /\ WF_handshakeVars(Mpi(r))

-----------------------------------------------------------------------------
(* Properties *)

FirstTasks(n) == [i \in 1..n |-> i]

\* execute_task of an MPI task returns when every process has called its
\* function, once and in the order of the program; none has called a later one.
TasksRunInTurn ==
    \A r \in Ranks :
        /\ \E n \in {TaskOf(launch) - 1, TaskOf(launch)} : invoked[r] = FirstTasks(n)
        /\ launch <= Len(Script) /\ Script[launch] = "unset_call_mpi" =>
               invoked[r] = FirstTasks(IF launch = Len(Script) - 1 THEN NumMpiTasks
                                       ELSE TaskOf(launch))

\* No MPI thread is past wait_on_legion while a point task that writes
\* mpi_active_ or mpi_task_ has yet to run on any process: the plain members
\* are never written under it.
HasControl(r) == pc[r] \in {"loop", "handoff_barrier", "handoff"}
LegionIsBlocked ==
    \A r \in Ranks : HasControl(r) /\ launch <= Len(Script) =>
        Script[launch] \in {"handoff_to_mpi", "wait_on_mpi"}

\* MPI tasks run together: when one process calls its function, all have been
\* given control for the same task.
TasksRunTogether ==
    \A r \in Ranks : pc[r] = "loop" /\ mpiActive[r] =>
        \A s \in Ranks : /\ mpiTask[s] = mpiTask[r]
                         /\ pc[s] = "wait_barrier" \/ HasControl(s)

\* The program ends: the MPI threads return from initialize().
Ends == <>(launch > Len(Script) /\ \A r \in Ranks : pc[r] = "returned")
=============================================================================
