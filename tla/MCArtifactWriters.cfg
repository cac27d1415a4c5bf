SPECIFICATION FairSpec
CONSTANTS
    Sync = {s1}
    Filler = {f1}
    Pipeline = {p1}
    Tag = {t1, t2}
    NoTag = NoTag
    Digest = {d1, d2}
    NoDigest = NoDigest
    MaxTime = 1
    MaxChanges = 1
    MaxFaults = 1
INVARIANTS TypeOK ArtifactsWereInRegistry
PROPERTY BackfillCatchesUp
CHECK_DEADLOCK FALSE
