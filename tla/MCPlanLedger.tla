---------------------------- MODULE MCPlanLedger ----------------------------
(* Small instances of PlanLedger for TLC. *)
EXTENDS PlanLedger

CONSTANTS c1, c2

\* Blocks do not touch each other: one of them, planned by one call and revised by the other,
\* and at most one mishap once there is a revision.
OneBlock ==
    /\ plan[c2].task # c2
    /\ plan[c2].at = "unused" \/ mishaps <= 1
=============================================================================
