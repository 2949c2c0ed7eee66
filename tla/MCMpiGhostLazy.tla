---------------------------- MODULE MCMpiGhostLazy --------------------------
(* Instances of MpiGhostLazy for TLC. *)
EXTENDS MpiGhostLazy, TLC

CONSTANTS c1, c2, c3, d1, d2, r1

\* The dense d1 and d2: c1 holds ghosts of both others, c2 of c1 and c3 of c2.
\* The ragged r1, on another index space: ghosts without reciprocity.
DenseOwners == c1 :> {c2, c3} @@ c2 :> {c1} @@ c3 :> {c2}
MixedOwners == [f \in {d1, d2} |-> DenseOwners]
            @@ r1 :> (c1 :> {c2} @@ c2 :> {c3} @@ c3 :> {c1})

UsersOf(owners) == [f \in Fields |-> [o \in Colors |-> {c \in Colors : o \in owners[f][c]}]]
MixedUsers == UsersOf(MixedOwners)

A(f, sp, gp) == [kind |-> "accessor", field |-> f, sp |-> sp, gp |-> gp]
M(f) == [kind |-> "mutator", field |-> f, sp |-> "rw", gp |-> "ro"]

\* Dense and ragged accessors and mutators, several in a task: two dense
\* fields in one message, one field twice, ghosts written, not read and not
\* asked for.
MixedTasks  == {<<A(d1, "rw", "na"), M(r1)>>,
                <<A(r1, "ro", "ro"), A(d1, "ro", "ro"), A(d2, "ro", "ro")>>,
                <<A(d1, "rw", "ro"), A(r1, "rw", "na"), A(d2, "wo", "na")>>,
                <<A(r1, "wo", "wo"), A(d1, "wo", "wo"), A(r1, "ro", "ro"), M(r1)>>}
=============================================================================
