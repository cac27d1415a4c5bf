SPECIFICATION Spec
CONSTANTS
    Cleaner = {c1}
    Pipeline = {p1, p2}
    Tag = {t1, t2}
    NoTag = NoTag
    PageSize = 1
    MaxPages = 3
    Faults = {"refused"}
    MaxChanges = 0
    MaxFaults = 1
SYMMETRY Symmetry
PROPERTY NeverAWrongDelete
CHECK_DEADLOCK FALSE
