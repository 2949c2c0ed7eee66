----------------------------- MODULE MCStartup -----------------------------
(* Programs for Startup: many control graphs, many registries, few of both. *)
EXTENDS Startup

\* initialize, a cycle of advance and analyze in a cycle of its own, finalize.
Point(p)   == [cycle |-> FALSE, phase |-> p]
Again(seq) == [cycle |-> TRUE, tuple |-> seq]
InnerWalk  == <<Point(2)>>
OuterWalk  == <<Point(1), Again(InnerWalk)>>
NestedWalk == <<Point(0), Again(OuterWalk)>>
AllWalks   == {NestedWalk, OuterWalk, InnerWalk}

MeshLayout ==
    [kind |-> "mesh", entities |-> <<"cells", "vertices">>,
     adjacencies |-> <<[index |-> "cells to vertices", from |-> "cells"]>>,
     subspaces |-> <<[index |-> "cells", subspace |-> "boundary"]>>]
SetLayout ==
    [kind |-> "set", entities |-> <<"particles">>, adjacencies |-> <<>>, subspaces |-> <<>>]
NoLayout ==
    [kind |-> "global", entities |-> <<>>, adjacencies |-> <<>>, subspaces |-> <<>>]
Layouts == [mesh |-> MeshLayout, set |-> SetLayout, global |-> NoLayout]

ActionOf(p, n)    == [what |-> "action", phase |-> p, name |-> n]
EdgeOf(p, to, from, unit) ==
    [what |-> "edge", phase |-> p, to |-> to, from |-> from, unit |-> unit]
ClientOf(t, k, unit) == [what |-> "client", type |-> t, key |-> k, unit |-> unit]
FieldOf(n, v, s, c)  == [what |-> "field", type |-> "mesh", name |-> n, versions |-> v,
                         space |-> s, class |-> c]
HandlerOf(h) == [what |-> "handler", name |-> h]
DriverOf     == [what |-> "driver"]

\* Every graph of up to four edges on three actions, one of them a loop, with
\* an edge added twice or an action that only edges name.
Edges == {EdgeOf(1, to, from, 1) : to \in Names, from \in Names}
Graphs == {G \in SUBSET {e \in Edges : e.to # e.from \/ e.to = 2} : Cardinality(G) <= 4}
ControlPrograms ==
    {[statements |-> G \cup more \cup {ActionOf(1, 1), ActionOf(1, 3), ActionOf(0, 2),
                                       ActionOf(2, 1), DriverOf}, asserts |-> TRUE] :
        G \in Graphs, more \in {{ActionOf(1, 2)}, {}, {ActionOf(1, 2), EdgeOf(1, 3, 1, 2)}}}

\* Two meshes of a type and a set, fields with two versions and rows, and a
\* field that is registered twice, differently.
RegistryPrograms ==
    {[statements |-> {ClientOf("mesh", "m1", 1), ClientOf("mesh", "m2", 1),
                      ClientOf("set", "s", 1), FieldOf("pressure", 2, "cells", "dense"),
                      FieldOf("species", 1, "vertices", "sparse"), twice, HandlerOf("h1"),
                      DriverOf},
      asserts |-> TRUE] : twice \in {FieldOf("pressure", 1, "vertices", "ragged"),
                                     FieldOf("species", 1, "cells", "dense")}}

\* What goes wrong: a client twice, with and without assertions; no driver.
FaultyPrograms ==
    {[statements |-> {ClientOf("mesh", "m1", 1), ClientOf("mesh", "m1", 2),
                      ClientOf("global", "g", 1), HandlerOf("h1"), HandlerOf("h2"), DriverOf},
      asserts |-> asserts] : asserts \in BOOLEAN}
    \cup {[statements |-> {ActionOf(0, 1), HandlerOf("h1"), HandlerOf("h2")}, asserts |-> FALSE]}

AllPrograms == ControlPrograms \cup RegistryPrograms \cup FaultyPrograms
=============================================================================
