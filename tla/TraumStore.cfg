SPECIFICATION Spec
CONSTANTS
    Run = {r1}
    Pass = {p1}
    Fingerprint = {f1, f2, f3}
    Session = {s1}
    Pair = {pr}
    NoPair = NoPair
    PairOf <- MCPaired
    GraphFingerprint <- MCGraph
    Source = {"cli", "gui"}
    LeaseRequest <- MCLease1
    Verdict = {"SUCCEEDED", "FAILED"}
    Grace = 0
    StaleAge = 0
    MaxAttempts = 2
    Horizon = 1
    MaxTime = 2
    f1 = f1
    f2 = f2
    f3 = f3
    pr = pr
CONSTRAINT OneKind
SYMMETRY PairSymmetry
INVARIANTS
    OnlyFailureOutlived
    PublishedOnlyByCompletedAttempt
    OneLiveRowPerFingerprint
    PairUniform
PROPERTIES
    DecisionsFinal
    VerdictsFinal
    RecoveryRespectsLease
CHECK_DEADLOCK FALSE
