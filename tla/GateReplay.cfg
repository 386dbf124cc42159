SPECIFICATION Spec
CONSTANTS
    Proposal = {fact}
    Pair = {pr}
    NoPair = NoPair
    PairOf <- MCPairOf
    Doc = {d1, d2}
    NoDoc = NoDoc
    TargetOf <- MCTargetOf
    Graph <- MCGraph
    Old = {}
    Gateway = {g1}
    Cli = {c1}
    Runner = {}
    Crashes = FALSE
    MaxRevision = 3
    keep = keep
    retire = retire
    fact = fact
    graph = graph
    d1 = d1
    d2 = d2
    pr = pr
INVARIANTS
    WrittenAtMostOnce
CHECK_DEADLOCK FALSE
