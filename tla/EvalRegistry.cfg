SPECIFICATION EvalSpec
CONSTANTS
    p1 = p1
    p2 = p2
    Process = {p1, p2}
    Seed = {s1}
    Bytes = {v1, v2}
    NoBytes = NoBytes
    Never = Never
    MinElapsed = 1
    Inputs <- MCInputs
    v1 = v1
    v2 = v2
    MaxTime = 1
    MaxCrashes = 1
CONSTRAINT OneRace
SYMMETRY ProcessSymmetry
INVARIANTS
    AcknowledgedStays
    ManifestsHold
    WindowElapsed
    AnalysisSound
PROPERTIES
    FrozenIsFinal
CHECK_DEADLOCK FALSE
