SPECIFICATION CacheTableSpec
CONSTANTS
    Focusable = {"timers", "bootstrap", "oauth"}
    Proc = {p1, p2, p3}
    TTL = 2
    MaxClock = 4
    MaxAttempts = 2
    b1 = b1
    b2 = b2
    view = view
    edit = edit
    admin = admin
    Starts = {b1, b2}
    NoStart = NoStart
    Code <- MCCode
    Defaults <- MCDefaults
    FirstVersions = {0, 1, 3}
    LeaseLife = 2
    WaitLife = 1
    MaxFaults = 2
    Accounts = {ann}
    MaxCalls = 4
    MaxChanges = 1
    MaxMishaps = 1
INVARIANTS CacheTableTypeOK OneLiveHolder MarkedIsSeeded StoredBeforeIsGone
PROPERTIES CodesAreOneTime LeasesEndOnTimeOrByOwner EventuallyCurrent
CHECK_DEADLOCK FALSE
