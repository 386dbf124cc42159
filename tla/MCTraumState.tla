---------------------------- MODULE MCTraumState ----------------------------
(* Small instances of TraumState for TLC. *)
EXTENDS TraumState, TLC

CONSTANTS f1, f2, f3, pr

MCPaired   == [f \in Fingerprint |-> IF f = f3 THEN NoPair ELSE pr]  \* f1 and f2 are one pair
MCGraph    == {f3} \cap Fingerprint                       \* f3 is a graph proposal
MCLease1   == {1, NoDeadline}

\* Bounds: the pair alone, without sessions, or the single proposal; and proposals and sessions
\* only where every run is a cli run and has a lease.
PairOrSingle ==
    \/ \A a \in Attempt : \A f \in Fingerprint \ {f3} : proposals[a][f].state = "ABSENT"
    \/ /\ \A a \in Attempt, f \in Fingerprint \cap {f3} : proposals[a][f].state = "ABSENT"
       /\ \A c \in Pass \X Session : consumed[c] = NoAttempt

Untouched ==
    /\ \A a \in Attempt, f \in Fingerprint : proposals[a][f].state = "ABSENT"
    /\ \A c \in Pass \X Session : consumed[c] = NoAttempt

LeasedCli ==
    /\ \A r \in Run : runs[r].source = "cli" /\ runs[r].deadline # NoDeadline
    /\ \A a \in Attempt : attempts[a].state # "ABSENT" => attempts[a].lease # NoDeadline

OneKind == PairOrSingle /\ (Untouched \/ LeasedCli)

PairSymmetry == Permutations({f1, f2})
=============================================================================
