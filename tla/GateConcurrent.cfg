SPECIFICATION FairSpec
CONSTANTS
    Proposal = {keep, retire}
    Pair = {pr}
    NoPair = NoPair
    PairOf <- MCPairOf
    Doc = {d1, d2}
    NoDoc = NoDoc
    TargetOf <- MCTargetOf
    Graph <- MCGraph
    Old = {keep, retire}
    Gateway = {g1}
    Cli = {c1}
    Runner = {}
    Crashes = TRUE
    MaxRevision = 4
    keep = keep
    retire = retire
    fact = fact
    graph = graph
    d1 = d1
    d2 = d2
    pr = pr
PROPERTIES
    ImplementsStore
    ClaimResolved
CHECK_DEADLOCK FALSE
