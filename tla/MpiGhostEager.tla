---------------------------- MODULE MpiGhostEager ---------------------------
(***************************************************************************)
(* The MPI backend without FLECSI_USE_AGGCOMM: execute_task runs the user  *)
(* function, then task_epilog_t walks the arguments and, for every dense   *)
(* accessor that may have changed what others hold as ghosts, copies the   *)
(* ghosts in an MPI post/start/complete/wait epoch on the field's window.  *)
(*                                                                         *)
(* Every color is a process; an action is what it does between two points  *)
(* where another rank can observe it.                                      *)
(***************************************************************************)
EXTENDS GhostPrograms

VARIABLES
    prog,      \* the tasks the driver executes
    task,      \* the task each color is at, NumTasks + 1 after the last
    arg,       \* the argument task_epilog_t is at
    pc,        \* where each color is in execute_task
    shared,    \* version of each color's shared entities, by field
    ghost,     \* version of each color's ghosts, by field and owner
    exposed,   \* the users a color's window of a field is still exposed to
    got,       \* the owners a color has got the ghosts of in this epoch
    seen       \* the ghosts the last user function read, for the refinement

data == <<shared, ghost>>
mpi  == <<exposed, got>>
vars == <<prog, task, arg, pc, data, mpi, seen>>

States == {"user", "epilog", "access", "wait"}

TypeOK ==
    /\ prog \in Programs
    /\ task \in [Colors -> 1..NumTasks + 1]
    /\ arg \in [Colors -> Nat]
    /\ pc \in [Colors -> States]
    /\ shared \in [Colors -> [Fields -> Nat]]
    /\ ghost \in [Colors -> [Fields -> [Colors -> Nat]]]
    /\ exposed \in [Colors -> [Fields -> SUBSET Colors]]
    /\ got \in [Colors -> SUBSET Colors]
    /\ \A c \in Colors, f \in Fields : exposed[c][f] \subseteq SharedUsers[f][c]

Init ==
    /\ prog \in Programs
    /\ task = [c \in Colors |-> 1]
    /\ arg = [c \in Colors |-> 1]
    /\ pc = [c \in Colors |-> "user"]
    /\ shared = [c \in Colors |-> [f \in Fields |-> 0]]
    /\ ghost = [c \in Colors |-> [f \in Fields |-> [o \in Colors |-> 0]]]
    /\ exposed = [c \in Colors |-> [f \in Fields |-> {}]]
    /\ got = [c \in Colors |-> {}]
    /\ seen = [c \in Colors |-> {}]

-----------------------------------------------------------------------------
Current(c) == prog[task[c]]
Goto(c, state) == pc' = [pc EXCEPT ![c] = state]

\* The argument task_epilog_t is about to handle.
AtArgument(c) == pc[c] = "epilog" /\ arg[c] <= Len(Current(c))
Argument(c) == Current(c)[arg[c]]

\* The user function reads its ghosts and leaves version task[c] in what it
\* writes.
Execute(c) ==
    /\ pc[c] = "user"
    /\ task[c] <= NumTasks
    /\ seen' = [seen EXCEPT ![c] =
           {r \in [field : Fields, owner : Colors, version : 0..NumTasks] :
               /\ r.owner \in GhostOwners[r.field][c]
               /\ ReadsGhost(Current(c), r.field)
               /\ r.version = ghost[c][r.field][r.owner]}]
    /\ shared' = [shared EXCEPT ![c] = [f \in Fields |->
           IF WritesShared(Current(c), f) THEN task[c] ELSE @[f]]]
    /\ ghost' = [ghost EXCEPT ![c] = [f \in Fields |->
           IF WritesGhost(Current(c), f) THEN [o \in Colors |-> task[c]] ELSE @[f]]]
    /\ arg' = [arg EXCEPT ![c] = 1]
    /\ Goto(c, "epilog")
    /\ UNCHANGED <<prog, task, mpi>>

\* Mutant: an accessor that does not ask for the ghosts exchanges nothing.
ExchangesIfAsked(a) == a.sp # "ro" /\ a.gp = "ro"

\* handle(dense_accessor): read-only shared entities and ghosts the task wrote
\* itself are left alone; a task without access to the shared entities is not.
Exchanges(a) == a.sp # "ro" /\ a.gp \notin {"rw", "wo"}

Skip(c) ==
    /\ AtArgument(c)
    /\ ~Exchanges(Argument(c))
    /\ arg' = [arg EXCEPT ![c] = @ + 1]
    /\ UNCHANGED <<prog, task, pc, data, mpi, seen>>

\* Mutant: the groups of MPI_Win_post and MPI_Win_start are swapped.
PostToOwners(c) ==
    /\ AtArgument(c)
    /\ Exchanges(Argument(c))
    /\ exposed' = [exposed EXCEPT ![c][Argument(c).field] =
                                      GhostOwners[Argument(c).field][c]]
    /\ got' = [got EXCEPT ![c] = {}]
    /\ Goto(c, "access")
    /\ UNCHANGED <<prog, task, arg, data, seen>>

\* MPI_Win_post to shared_users_grp exposes the window, MPI_Win_start opens
\* the access epoch to ghost_owners_grp.
Post(c) ==
    /\ AtArgument(c)
    /\ Exchanges(Argument(c))
    /\ exposed' = [exposed EXCEPT ![c][Argument(c).field] =
                                      SharedUsers[Argument(c).field][c]]
    /\ got' = [got EXCEPT ![c] = {}]
    /\ Goto(c, "access")
    /\ UNCHANGED <<prog, task, arg, data, seen>>

\* MPI_Get from one owner: MPI moves the data at some time while the owner's
\* window is exposed to this rank.
Get(c, o) ==
    LET f == Argument(c).field IN
    /\ pc[c] = "access"
    /\ o \in GhostOwners[f][c] \ got[c]
    /\ c \in exposed[o][f]
    /\ ghost' = [ghost EXCEPT ![c][f][o] = shared[o][f]]
    /\ got' = [got EXCEPT ![c] = @ \cup {o}]
    /\ UNCHANGED <<prog, task, arg, pc, shared, exposed, seen>>

\* MPI_Win_complete returns when the gets are done, and ends this rank's part
\* in its owners' exposure epochs.
Complete(c) ==
    LET f == Argument(c).field IN
    /\ pc[c] = "access"
    /\ got[c] = GhostOwners[f][c]
    /\ exposed' = [o \in Colors |->
           IF o \in GhostOwners[f][c]
           THEN [exposed[o] EXCEPT ![f] = @ \ {c}]
           ELSE exposed[o]]
    /\ Goto(c, "wait")
    /\ UNCHANGED <<prog, task, arg, data, got, seen>>

\* Mutant: the epilog does not wait for its users to complete.
WaitNot(c) ==
    /\ pc[c] = "wait"
    /\ arg' = [arg EXCEPT ![c] = @ + 1]
    /\ Goto(c, "epilog")
    /\ UNCHANGED <<prog, task, data, mpi, seen>>

\* MPI_Win_wait returns when every user has completed.
Wait(c) ==
    /\ pc[c] = "wait"
    /\ exposed[c][Argument(c).field] = {}
    /\ arg' = [arg EXCEPT ![c] = @ + 1]
    /\ Goto(c, "epilog")
    /\ UNCHANGED <<prog, task, data, mpi, seen>>

\* finalize_handles_t has nothing to do for dense accessors: execute_task
\* returns, and the driver goes on to its next task.
Return(c) ==
    /\ pc[c] = "epilog"
    /\ arg[c] > Len(Current(c))
    /\ task' = [task EXCEPT ![c] = @ + 1]
    /\ Goto(c, "user")
    /\ UNCHANGED <<prog, arg, data, mpi, seen>>

\* The driver has returned on every color.
Terminated ==
    /\ \A c \in Colors : pc[c] = "user" /\ task[c] = NumTasks + 1
    /\ UNCHANGED vars

-----------------------------------------------------------------------------
Step(c) == \/ Execute(c) \/ Skip(c) \/ Post(c) \/ Complete(c) \/ Wait(c)
           \/ Return(c) \/ \E o \in Colors : Get(c, o)

Next == Terminated \/ \E c \in Colors : Step(c)

Spec == Init /\ [][Next]_vars

\* Every rank runs, and MPI makes progress on what it was asked.
FairSpec == Spec /\ \A c \in Colors : WF_vars(Step(c))

-----------------------------------------------------------------------------
(* Properties *)

\* What a user function reads from its ghosts is what the program's last
\* writer of the field left with the owner, though the owner may have gone on
\* to later tasks or not have finished this one.
GhostCoherent ==
    \A c \in Colors : pc[c] = "user" =>
        \A f \in Fields : \A o \in GhostOwners[f][c] :
            IsLatest(prog, ghost[c][f][o], f, task[c])

\* No user function runs on data that another rank may be getting: a rank's
\* windows are closed to all its users whenever it is in a user function.
NoWriteWhileExposed ==
    \A c \in Colors : pc[c] = "user" =>
        \A f \in Fields : exposed[c][f] = {}

\* A rank that gets from an owner is served in the epoch of the same argument
\* of the same task, not in an earlier or a later one on the same window.
EpochsMatch ==
    \A c \in Colors : pc[c] = "access" =>
        \A o \in GhostOwners[Argument(c).field][c] :
            c \in exposed[o][Argument(c).field] =>
                task[o] = task[c] /\ arg[o] = arg[c]

\* The tasks each color has run, and what the last of them read.
Sequential == INSTANCE GhostCoherence WITH
    ran <- [c \in Colors |-> IF pc[c] = "user" THEN task[c] - 1 ELSE task[c]]

\* Every color runs its tasks to the end, and each task's user function reads
\* what it would read in a sequential execution of the program.
RunsAsSequential == Sequential!Spec
=============================================================================
