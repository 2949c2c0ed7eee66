---------------------------- MODULE GhostPrograms ---------------------------
(***************************************************************************)
(* What the two MPI ghost exchanges of flecsi (eager and FLECSI_USE_AGGCOMM)*)
(* share: the colors and who holds ghosts of whom, the privileges of an    *)
(* accessor, and the program, a sequence of tasks that every color runs.   *)
(*                                                                         *)
(* Data is abstracted to versions: the shared entities of a color hold,    *)
(* for a field, the number of the task that last wrote them (0: none).     *)
(***************************************************************************)
EXTENDS Integers, Sequences

CONSTANTS Colors,        \* one MPI rank each
          Fields,
          GhostOwners,   \* coloring_info_t::ghost_owners, for each field (by
                         \* its index space) and color
          SharedUsers,   \* coloring_info_t::shared_users, likewise
          Tasks,         \* the tasks a driver may execute: their arguments
          NumTasks       \* how many it executes

\* The two sets of the coloring describe one relation between colors.
ASSUME TopologyAssumption ==
    /\ GhostOwners \in [Fields -> [Colors -> SUBSET Colors]]
    /\ SharedUsers \in [Fields -> [Colors -> SUBSET Colors]]
    /\ \A f \in Fields, c, o \in Colors :
           o \in GhostOwners[f][c] <=> c \in SharedUsers[f][o]

\* privilege_t
Privileges == {"na", "ro", "wo", "rw"}

\* An argument of a task: a dense or ragged accessor with its privileges on
\* the shared and the ghost entities, or a ragged mutator, which reads the
\* ghosts and rewrites the rows.
Accessors == [kind : {"accessor"}, field : Fields,
              sp : Privileges, gp : Privileges]
Mutators  == [kind : {"mutator"}, field : Fields, sp : {"rw"}, gp : {"ro"}]
Arguments == Accessors \cup Mutators

\* What task t does with the data of field f.
WritesShared(t, f) == \E i \in DOMAIN t : t[i].field = f /\ t[i].sp \in {"wo", "rw"}
ReadsGhost(t, f)   == \E i \in DOMAIN t : t[i].field = f /\ t[i].gp \in {"ro", "rw"}
WritesGhost(t, f)  == \E i \in DOMAIN t : t[i].field = f /\ t[i].gp \in {"wo", "rw"}

\* A task that writes ghosts computes redundantly what their owner writes.
ASSUME TasksAssumption ==
    /\ NumTasks \in Nat
    /\ Tasks \subseteq Seq(Arguments)
    /\ \A t \in Tasks, f \in Fields : WritesGhost(t, f) => WritesShared(t, f)

Programs == [1..NumTasks -> Tasks]

\* v is the number of the last task before task k that writes field f.
IsLatest(prog, v, f, k) ==
    /\ v \in Nat
    /\ v < k
    /\ v # 0 => WritesShared(prog[v], f)
    /\ \A j \in v + 1 .. k - 1 : ~WritesShared(prog[j], f)
=============================================================================
