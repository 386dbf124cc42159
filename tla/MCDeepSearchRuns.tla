-------------------------- MODULE MCDeepSearchRuns --------------------------
(* A small instance of DeepSearchRuns for TLC. *)
EXTENDS DeepSearchRuns, TLC

RunSymmetry == Permutations(Run) \cup Permutations(Thread)
=============================================================================
