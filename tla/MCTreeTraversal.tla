-------------------------- MODULE MCTreeTraversal ---------------------------
(* Instances of TreeTraversal for TLC. *)
EXTENDS TreeTraversal

\* Four workers: queue_depth is 3.  A leaf above it, leaves at it and below
\* it, branches left out above, at and below it; the job of branch <<0, 0, 0>>
\* has a traversal of its own, with a leaf before its queue_depth.
UnevenInner == {<<>>, <<0>>, <<1>>, <<0, 0>>, <<1, 1>>, <<1, 1, 0>>, <<0, 0, 0>>}
UnevenLeftOut == {<<0, 1>>, <<0, 0, 1>>, <<1, 1, 0, 0>>}
UnevenNesting == {<<0, 0, 0>>}

\* As many jobs with traversals of their own as workers, each with more jobs.
DeepInner == {<<>>, <<0>>, <<1>>} \cup {<<0, i>> : i \in {0, 1}}
             \cup {<<0, i, 0>> : i \in {0, 1}}
DeepNesting == {<<0, 0>>, <<0, 1>>}
NoBranches == {}
=============================================================================
