SPECIFICATION ControllerSpec
CONSTANTS
    Run = {r1, r2}
    Pass = {dedup, patterns, digest}
    Fingerprint = {}
    Session = {}
    Pair = {}
    NoPair = NoPair
    PairOf <- MCUnpaired
    GraphFingerprint = {}
    Source = {"gui"}
    LeaseRequest <- MCLeases
    Verdict = {"SUCCEEDED", "NULL", "BLOCKED", "FAILED", "CANCELLED"}
    ChildVerdict = {"FAILED"}
    Grace = 0
    StaleAge = 9
    MaxAttempts = 2
    Horizon = 2
    MaxTime = 2
    Gateway = {g1, g2}
    Digest = digest
    DreamPasses <- MCPasses
    Lease = 1
    Timely = FALSE
    Crashes = FALSE
    Errors = FALSE
    LastStart = 1
    MaxRetries = 1
    dedup = dedup
    patterns = patterns
    digest = digest
SYMMETRY Symmetry
INVARIANTS
    OneControllerRunActive
PROPERTIES
    LoserSparesWinner
CHECK_DEADLOCK FALSE
CONSTRAINT SinglePassRuns
