--------------------------- MODULE MCEvalRegistry ---------------------------
(* Small instances of EvalRegistry for TLC. *)
EXTENDS EvalRegistry, TLC

CONSTANTS p1, p2, v1, v2

\* B's corpus can be exported again with other contents, all else is exported as it was.
MCInputs == [s \in Slot |-> IF s = CaptureOf("B") THEN {v1, v2} ELSE {v1}]

ProcessSymmetry == Permutations(Process)
\* Calls race for one slot, or for the analysis.
OneRace == Cardinality(raced) <= 1
=============================================================================
