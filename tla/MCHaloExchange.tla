--------------------------- MODULE MCHaloExchange ---------------------------
(* A strip of five triangles, and a fan of four around vertex 0. *)
EXTENDS HaloExchange

MCStrip == [c \in 0..4 |-> {c, c + 1, c + 2}]
MCFan   == [c \in 0..3 |-> {0, c + 1, IF c = 3 THEN 1 ELSE c + 2}]
MCMeshes == {MCStrip, MCFan}
=============================================================================
