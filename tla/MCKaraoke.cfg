SPECIFICATION FairSpec
CONSTANTS
    p1 = p1
    p2 = p2
    c1 = c1
    None = None
    Players = {p1, p2}
    Cells = {c1}
    Tracks = 2
    Thresholds <- MCThresholds
    InitialPct = 50
    MaxPhases = 2
    MaxGames = 1
INVARIANTS
    TypeOK
    NoMissedMajority
    GateOpens
    SpentOnce
PROPERTIES
    TransitionEnds
