SPECIFICATION Spec
CONSTANTS
    p1 = p1
    p2 = p2
    a1 = a1
    None = None
    Stale = Stale
    Players = {p1, p2}
    Admins = {a1}
    Rows <- MCRows
    Times <- MCTimes
    Arrivals = {1, 2}
    Bannable = {p2}
    MaxRounds = 2
    RedisLock = TRUE
INVARIANTS
    TypeOK
    OneVerdictPerPlayer
    PayoutBounded
    LockFreeWhileOpen
    WindowHasItsTimer
PROPERTIES
    EarliestBuzzWins
    ImplementsGuessFloor
