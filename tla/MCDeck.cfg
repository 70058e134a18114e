SPECIFICATION Spec
CONSTANTS
    Writer = w
    Players = {p}
    Stages = {s}
    None = None
    FadeSteps = 2
    QueueDepth = 2
    Percents <- MCPercents
    Limits <- MCLimits
INVARIANT TypeOK
INVARIANT DeviceAtOperatingLevel
PROPERTY TokensWork
CHECK_DEADLOCK FALSE
