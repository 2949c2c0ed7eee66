--------------------------- MODULE MCMpiGhostEager --------------------------
(* Instances of MpiGhostEager for TLC. *)
EXTENDS MpiGhostEager, TLC

CONSTANTS c1, c2, c3, f1, f2

\* Field f1: c1 holds ghosts of both others, c2 of c1 and c3 of c2.
\* Field f2, on another index space: ghosts without reciprocity.
MixedOwners == f1 :> (c1 :> {c2, c3} @@ c2 :> {c1} @@ c3 :> {c2})
            @@ f2 :> (c1 :> {c2} @@ c2 :> {c3} @@ c3 :> {c1})
UsersOf(owners) == [f \in Fields |-> [o \in Colors |-> {c \in Colors : o \in owners[f][c]}]]
MixedUsers == UsersOf(MixedOwners)

A(f, sp, gp) == [kind |-> "accessor", field |-> f, sp |-> sp, gp |-> gp]

\* Several accessors: two fields, one field twice, and
\* the pairs of privileges that the epilog tells apart.
MixedTasks == {<<A(f1, "rw", "na"), A(f2, "ro", "ro")>>,
               <<A(f1, "ro", "ro"), A(f2, "rw", "ro")>>,
               <<A(f1, "rw", "ro"), A(f1, "ro", "ro"), A(f2, "wo", "wo")>>,
               <<A(f2, "rw", "na"), A(f1, "rw", "ro")>>,
               <<A(f1, "na", "na"), A(f2, "wo", "na")>>}
=============================================================================
