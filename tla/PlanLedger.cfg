SPECIFICATION LedgerSpec
CONSTANTS
    Call = {c1, c2}
    c1 = c1
    c2 = c2
    NoCall = NoCall
    MaxStep = 2
    MaxMishaps = 2
INVARIANTS
    OneLander
    TornOnlyByRaceOrFault
    StruckStaysStruck
    ClosedMeansAllDone
    AnnouncedAfterCrash
CONSTRAINT OneBlock
CHECK_DEADLOCK FALSE
