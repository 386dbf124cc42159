---------------------------- MODULE MCDreamCycle ----------------------------
(* Small instances of DreamCycle for TLC. *)
EXTENDS DreamCycle

CONSTANTS p1, p2, c1, c2

MCUnpaired  == [f \in Fingerprint |-> NoPair]   \* every proposal stands alone
MCTwoPasses == <<p1, p2>>

\* Bound of the run about cycles: one is taken through everything, or two overlap in their first
\* passes, without signals and without drafts.
AloneOrPlain ==
    \/ script[c2].step = "idle"
    \/ /\ now <= 2
       /\ \A c \in Cycle : /\ ~script[c].signal
                         /\ (script[c].index = 1 \/ script[c].step = "pass")
       /\ \A a \in Attempt, f \in Fingerprint : proposals[a][f].state = "ABSENT"
=============================================================================
