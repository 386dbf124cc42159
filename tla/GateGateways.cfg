SPECIFICATION Spec
CONSTANTS
    Proposal = {keep, retire, graph}
    Pair = {pr}
    NoPair = NoPair
    PairOf <- MCPairOf
    Doc = {d1, d2}
    NoDoc = NoDoc
    TargetOf <- MCTargetOf
    Graph <- MCGraph
    Old = {keep, retire}
    Gateway = {g1, g2}
    Cli = {c1}
    Runner = {u1}
    Crashes = TRUE
    MaxRevision = 5
    keep = keep
    retire = retire
    fact = fact
    graph = graph
    d1 = d1
    d2 = d2
    pr = pr
CONSTRAINTS
    OneGroup
    OneRests
SYMMETRY GatewaySymmetry
INVARIANTS
    AppliedWasWritten
PROPERTIES
    ApprovalKeepsItsRows
    FailureIsNotReplayed
    SweepYieldsToHumans
CHECK_DEADLOCK FALSE
