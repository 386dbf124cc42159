SPECIFICATION ControllerFairSpec
CONSTANTS
    Run = {r1}
    Pass = {dedup, patterns, digest}
    Fingerprint = {}
    Session = {}
    Pair = {}
    NoPair = NoPair
    PairOf <- MCUnpaired
    GraphFingerprint = {}
    Source = {"gui"}
    LeaseRequest <- MCLeases
    Verdict = {"SUCCEEDED", "NULL", "BLOCKED", "FAILED", "CANCELLED"}
    ChildVerdict = {"SUCCEEDED", "FAILED"}
    Grace = 1
    StaleAge = 9
    MaxAttempts = 2
    Horizon = 4
    MaxTime = 6
    Gateway = {g1}
    Digest = digest
    DreamPasses <- MCPasses
    Lease = 1
    Timely = TRUE
    Crashes = TRUE
    Errors = TRUE
    LastStart = 1
    MaxRetries = 1
    dedup = dedup
    patterns = patterns
    digest = digest
PROPERTIES
    RunEnds
CHECK_DEADLOCK FALSE
