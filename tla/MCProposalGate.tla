--------------------------- MODULE MCProposalGate ---------------------------
(* Small instances of ProposalGate for TLC. *)
EXTENDS ProposalGate, TLC

CONSTANTS keep, retire, fact, graph, d1, d2, pr

\* keep and retire are a dedup pair on two documents; fact carries no token; graph is of its type.
MCPairOf   == [p \in Proposal |-> IF p \in {keep, retire} THEN pr ELSE NoPair]
MCTargetOf == [p \in Proposal |-> CASE p = keep -> d1 [] p = retire -> d2 [] OTHER -> NoDoc]
MCGraph    == {graph} \cap Proposal

\* Bound: groups do not share rows or local variables, so one group is decided at a time.
Untouched(p) == Revision(p) = 1 /\ \A w \in Worker : p \notin work[w].group
OneGroup     == Untouched(graph) \/ \A p \in Proposal \ {graph} : Untouched(p)

\* Bound: of the gateways and dream_apply processes one is at rest.
OneRests == \E w \in Gateway \cup Cli : work[w].step = "idle"

GatewaySymmetry == Permutations(Gateway)
=============================================================================
