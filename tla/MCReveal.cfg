SPECIFICATION FairSpec
CONSTANTS
    p1 = p1
    p2 = p2
    None = None
    Players <- MCPlayers
    Leavers <- MCLeavers
    Sizes <- MCSizes
    Configs <- MCConfigs
    MaxRounds = 2
INVARIANTS
    TypeOK
    TickerRuns
    AnswerPublicInKaraoke
    RevealedRoundCloses
PROPERTIES
    ShownOnlyGrows
    ImplementsGuessFloor
    RoundEndsItself
