--------------------------- MODULE MCLegionGhosts ---------------------------
(* Instances of LegionGhosts for TLC. *)
EXTENDS LegionGhosts, TLC

CONSTANTS c1, c2, c3, f1, f2

\* Field f1: c1 and c2 hold ghosts of each other, and c3 of c1.  Field f2, on
\* another index space: ghosts without reciprocity.
RingOwners == f1 :> (c1 :> {c2} @@ c2 :> {c1} @@ c3 :> {c1})
           @@ f2 :> (c1 :> {} @@ c2 :> {c1} @@ c3 :> {c1, c2})
UsersOf(owners) == [f \in Fields |-> [o \in Colors |-> {c \in Colors : o \in owners[f][c]}]]
RingUsers == UsersOf(RingOwners)

A(f, sp, gp) == [kind |-> "accessor", field |-> f, sp |-> sp, gp |-> gp]
M(f) == [kind |-> "mutator", field |-> f, sp |-> "rw", gp |-> "ro"]

\* The pairs of privileges that the prolog tells apart, one and two fields.
RingTasks == {<<A(f1, "rw", "na")>>, <<A(f1, "ro", "ro"), A(f2, "wo", "wo")>>,
              <<A(f1, "ro", "ro"), A(f1, "ro", "ro")>>, <<M(f2)>>,
              <<A(f1, "rw", "ro"), A(f2, "ro", "ro")>>, <<A(f1, "wo", "na"), A(f2, "na", "na")>>}
=============================================================================
