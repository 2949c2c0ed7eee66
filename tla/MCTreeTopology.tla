--------------------------- MODULE MCTreeTopology ---------------------------
(* Instances of TreeTopology for TLC. *)
EXTENDS TreeTopology, TLC

\* The trees only look at which entities are the same.
SameEntities == Permutations(Entities)
=============================================================================
