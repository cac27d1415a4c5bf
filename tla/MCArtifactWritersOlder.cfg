SPECIFICATION Spec
CONSTANTS
    Sync = {s1, s2, s3}
    Filler = {}
    Pipeline = {p1}
    Tag = {t1}
    NoTag = NoTag
    Digest = {d1}
    NoDigest = NoDigest
    MaxTime = 3
    MaxChanges = 0
    MaxFaults = 0
SYMMETRY Symmetry
PROPERTY OlderNeverOverwrites
CHECK_DEADLOCK FALSE
