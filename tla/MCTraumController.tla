-------------------------- MODULE MCTraumController --------------------------
(* Small instances of TraumController for TLC. *)
EXTENDS TraumController, TLC

CONSTANTS dedup, patterns, digest

MCPasses   == <<dedup, patterns>>
MCLeases   == (0..Lease) \cup {NoDeadline}
MCUnpaired == [f \in Fingerprint |-> NoPair]

Symmetry == Permutations(Gateway) \cup Permutations(Run)

\* Bounds: every run has one pass, one run is cancelled or archived.
SinglePassRuns ==
    /\ \A r \in Run : Cardinality(runs[r].passes) <= 1
    /\ Cardinality({r \in Run : runs[r].cancel \/ runs[r].archived}) <= 1
=============================================================================
