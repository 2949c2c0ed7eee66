---------------------------- MODULE MCThreadPool ----------------------------
(* Instances of ThreadPool for TLC, and the mutants its properties catch. *)
EXTENDS ThreadPool, TLC

WorkerSymmetry == Permutations(Workers) \cup Permutations(Tasks)
=============================================================================
