SPECIFICATION FairCycleSpec
CONSTANTS
    Run = {c1, c2}
    Cycle = {c1, c2}
    c1 = c1
    c2 = c2
    Pass = {p1, p2}
    p1 = p1
    p2 = p2
    Passes <- MCTwoPasses
    Fingerprint = {f1}
    Session = {s1}
    Pair = {}
    NoPair = NoPair
    PairOf <- MCUnpaired
    GraphFingerprint = {}
    Source = {"manual"}
    LeaseRequest = {1, 2}
    Verdict = {"SUCCEEDED", "NULL", "BLOCKED", "FAILED", "CANCELLED"}
    Grace = 0
    StaleAge = 0
    MaxAttempts = 2
    Budget = 2
    PassFloor = 1
    Guarded = TRUE
    Signals = TRUE
    LastCycle = 0
    Horizon = 5
    MaxTime = 5
CONSTRAINT AloneOrPlain
INVARIANTS
    FinishedCycleIsOver
    SuccessMeansWholeCycle
    FencedWorkIsSilent
    AloneIsNeverLockedOut
PROPERTIES
    CycleIsSettled
CHECK_DEADLOCK FALSE
