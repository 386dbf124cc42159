SPECIFICATION DeepSpec
CONSTANTS
    Thread = {g1, g2}
    Topic = {t1}
    Run = {r1, r2}
    NoTopic = NoTopic
    NoRun = NoRun
    GlobalCap = 2
    MaxMishaps = 1
INVARIANTS
    OneSearchPerTopic
    TopicsAgree
    EndIsReported
SYMMETRY RunSymmetry
