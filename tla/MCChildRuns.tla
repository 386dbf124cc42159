----------------------------- MODULE MCChildRuns -----------------------------
(* Small instances of ChildRuns for TLC. *)
EXTENDS ChildRuns, TLC

CONSTANTS t1, t2

ThreadSymmetry == Permutations(Session)
=============================================================================
