SPECIFICATION PunctualSpec
CONSTANTS
    Proc = {p1, p2, p3}
    TTL = 3
    MaxClock = 6
    MaxAttempts = 2
SYMMETRY Symmetry
PROPERTIES SkipsOnlyForLiveLease RunsExclusively
CHECK_DEADLOCK FALSE
