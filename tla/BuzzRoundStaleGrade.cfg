SPECIFICATION Spec
CONSTANTS
    p1 = p1
    p2 = p2
    a1 = a1
    a2 = a2
    None = None
    Stale = Stale
    Players = {p1, p2}
    Admins = {a1, a2}
    Rows <- MCRows
    Times <- MCTimes
    Arrivals = {1, 2}
    Bannable = {}
    MaxRounds = 1
    RedisLock = FALSE
PROPERTIES
    GradeJudgesItsGuess
