---------------------------- MODULE LegionGhosts ----------------------------
(***************************************************************************)
(* The ghost exchange of the Legion backend.  The top-level task executes  *)
(* the program: for each task, task_prolog walks the arguments and, where  *)
(* ghost_is_readable says so, issues an index copy of the ghosts before it *)
(* launches the task itself over all colors.  Nothing waits: Legion runs   *)
(* the points of what was issued in any order, except that a point follows *)
(* all points issued earlier that name, in their region requirements, data *)
(* it names too, one of the two to write it.                               *)
(*                                                                         *)
(* write_phase_started, which only the prolog sets and only the epilog     *)
(* reads, decides nothing and is left out.  Copies of several fields of an *)
(* index space are one operation in the code and one for each field here,  *)
(* which allows more orders.  WRITE_DISCARD, asked for na, allows Legion to*)
(* drop what was there; the one instance that the mapper keeps of the three*)
(* parts of a field, with GC_NEVER_PRIORITY, holds it, and so does this.   *)
(***************************************************************************)
EXTENDS GhostPrograms, SequencesExt

VARIABLES
    prog,               \* the tasks the driver executes
    issued,             \* how many of them the top-level task has issued
    ghostIsReadable,    \* ghost_is_readable of each field
    ops,                \* the operations issued to Legion, in order
    done,               \* the points <<operation, color>> that have run
    shared,             \* the version of the shared entities of each color
    ghost               \* the version of its ghosts, for each of their owners

data == <<shared, ghost>>
vars == <<prog, issued, ghostIsReadable, ops, done, data>>

\* Legion does not launch a task two of whose requirements interfere, and na
\* asks for WRITE_DISCARD: arguments on one field only read, if there are two.
ASSUME NoInterference ==
    \A t \in Tasks : \A i, j \in DOMAIN t :
        i # j /\ t[i].field = t[j].field => t[i].sp = "ro" /\ t[i].gp = "ro"

-----------------------------------------------------------------------------
(* Region requirements *)

Requirement(f, part, c, writes) == [datum |-> <<f, part, c>>, writes |-> writes]

\* privilege_mode: WRITE_DISCARD, for na too, unless the privilege reads.
Writing(privilege) == privilege # "ro"

\* Mutant: the copy does not name the owners' entities.
CopyOwnGhosts(f, c) == {Requirement(f, "ghost", c, TRUE)}

\* launch_copies: what the copy to the ghosts of c asks for.
CopyRequirements(f, c) ==
    {Requirement(f, "shared", o, FALSE) : o \in GhostOwners[f][c]}
    \cup {Requirement(f, "ghost", c, TRUE)}

\* init_args: what point c of a task asks for.
TaskRequirements(t, c) ==
    UNION {{Requirement(t[i].field, "shared", c, Writing(t[i].sp)),
            Requirement(t[i].field, "ghost", c, Writing(t[i].gp))} : i \in DOMAIN t}

Requirements(o, c) ==
    IF o.kind = "copy" THEN CopyRequirements(o.field, c)
    ELSE TaskRequirements(prog[o.task], c)

Interfere(o, c, p, d) ==
    \E r \in Requirements(o, c), s \in Requirements(p, d) :
        r.datum = s.datum /\ (r.writes \/ s.writes)

\* Point c of operation i may run.
Ready(i, c) ==
    /\ <<i, c>> \notin done
    /\ \A j \in 1..i - 1, d \in Colors :
           <<j, d>> \in done \/ ~Interfere(ops[j], d, ops[i], c)

-----------------------------------------------------------------------------
Init ==
    /\ prog \in Programs
    /\ issued = 0
    /\ ghostIsReadable = [f \in Fields |-> TRUE]
    /\ ops = <<>>
    /\ done = {}
    /\ shared = [f \in Fields |-> [c \in Colors |-> 0]]
    /\ ghost = [f \in Fields |-> [c \in Colors |-> [o \in GhostOwners[f][c] |-> 0]]]

(* The top-level task: task_prolog, then the launch *)

ReadPhase(a) == a.gp # "na"

\* Mutant: only a task that does not touch the ghosts starts a write phase.
WritePhaseIfNa(a) == a.sp \in {"wo", "rw"} /\ a.gp = "na"

WritePhase(a) == a.sp \in {"wo", "rw"} /\ a.gp \in {"ro", "na"}

\* The fields whose ghosts the prolog copies.
Copied(t) == {f \in Fields : /\ ~ghostIsReadable[f]
                             /\ \E i \in DOMAIN t : t[i].field = f /\ ReadPhase(t[i])}

\* Mutant: the prolog does not mark the ghosts it copies.
FlagsUnmarked(t) ==
    [f \in Fields |-> /\ ghostIsReadable[f]
                      /\ \A i \in DOMAIN t : t[i].field = f => ~WritePhase(t[i])]

\* What the prolog leaves in ghost_is_readable.
Flags(t) ==
    [f \in Fields |-> /\ ghostIsReadable[f] \/ f \in Copied(t)
                      /\ \A i \in DOMAIN t : t[i].field = f => ~WritePhase(t[i])]

\* The copies of different fields do not interfere: their order is of no
\* consequence.
Copies(t, k) ==
    LET order == SetToSeq(Copied(t)) IN
    [i \in DOMAIN order |-> [kind |-> "copy", task |-> k, field |-> order[i]]]

\* Mutant: the copies are launched after the task.
IssueCopiesLast ==
    LET k == issued + 1 IN
    /\ issued < NumTasks
    /\ issued' = k
    /\ ops' = ops \o <<[kind |-> "run", task |-> k]>> \o Copies(prog[k], k)
    /\ ghostIsReadable' = Flags(prog[k])
    /\ UNCHANGED <<prog, done, data>>

\* execute_task
Issue ==
    LET k == issued + 1 IN
    /\ issued < NumTasks
    /\ issued' = k
    /\ ops' = ops \o Copies(prog[k], k) \o <<[kind |-> "run", task |-> k]>>
    /\ ghostIsReadable' = Flags(prog[k])
    /\ UNCHANGED <<prog, done, data>>

(* Legion: the points *)

\* Every ghost of c becomes what its owner's entities are.
Copy(i, c) ==
    LET f == ops[i].field IN
    /\ ops[i].kind = "copy"
    /\ Ready(i, c)
    /\ done' = done \cup {<<i, c>>}
    /\ ghost' = [ghost EXCEPT ![f][c] = [o \in GhostOwners[f][c] |-> shared[f][o]]]
    /\ UNCHANGED <<prog, issued, ghostIsReadable, ops, shared>>

\* The user function.
Run(i, c) ==
    LET k == ops[i].task IN
    /\ ops[i].kind = "run"
    /\ Ready(i, c)
    /\ done' = done \cup {<<i, c>>}
    /\ shared' = [f \in Fields |->
           IF WritesShared(prog[k], f) THEN [shared[f] EXCEPT ![c] = k] ELSE shared[f]]
    /\ ghost' = [f \in Fields |->
           IF WritesGhost(prog[k], f)
           THEN [ghost[f] EXCEPT ![c] = [o \in GhostOwners[f][c] |-> k]] ELSE ghost[f]]
    /\ UNCHANGED <<prog, issued, ghostIsReadable, ops>>

AllDone == issued = NumTasks /\ done = (DOMAIN ops) \X Colors

\* The driver and everything it issued have come to their end.
Finished == AllDone /\ UNCHANGED vars

Next == \/ Issue
        \/ \E i \in DOMAIN ops, c \in Colors : Copy(i, c) \/ Run(i, c)
        \/ Finished

Spec == Init /\ [][Next]_vars

-----------------------------------------------------------------------------
(* Properties *)

\* A task reads the ghosts that its owners' tasks before it left, and the
\* shared entities likewise, in whatever order Legion runs the points.
GhostCoherent ==
    \A i \in DOMAIN ops, c \in Colors : ops[i].kind = "run" /\ Ready(i, c) =>
        \A f \in Fields :
            /\ ReadsGhost(prog[ops[i].task], f) =>
                   \A o \in GhostOwners[f][c] : IsLatest(prog, ghost[f][c][o], f, ops[i].task)
            /\ (\E a \in DOMAIN prog[ops[i].task] : prog[ops[i].task][a].field = f) =>
                   IsLatest(prog, shared[f][c], f, ops[i].task)

\* When everything issued has run, the ghosts of a field are those of its
\* last writer if ghost_is_readable says so, and stale if it does not.
FlagsAreTrue ==
    done = (DOMAIN ops) \X Colors =>
        \A f \in Fields, c \in Colors : \A o \in GhostOwners[f][c] :
            ghostIsReadable[f] <=> ghost[f][c][o] = shared[f][o]

\* The ghosts of a field are copied only after they have become stale: between
\* two copies of it, and before the first, runs a task that writes the field.
CopiesAreNeeded ==
    \A j \in DOMAIN ops : ops[j].kind = "copy" =>
        \E w \in 1..j - 1 :
            /\ ops[w].kind = "run"
            /\ WritesShared(prog[ops[w].task], ops[j].field)
            /\ \A i \in w + 1 .. j - 1 : ~(ops[i].kind = "copy" /\ ops[i].field = ops[j].field)
=============================================================================
