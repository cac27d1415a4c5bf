SPECIFICATION FairSpec
CONSTANTS
    Cleaner = {c1, c2}
    Pipeline = {p1}
    Tag = {t1, t2, t3}
    NoTag = NoTag
    PageSize = 1
    MaxPages = 2
    Faults = {"down", "refused", "blank"}
    MaxChanges = 3
    MaxFaults = 1
INVARIANTS TypeOK LivingSpared
PROPERTY EventuallyClean
CHECK_DEADLOCK FALSE
