SPECIFICATION Spec
CONSTANTS
    Request = {r1, r2}
    Build = {b1}
    Tag = {t1}
    NoTag = NoTag
    Sha = {s1}
    Failure = {"failed"}
    Driver = "mysql"
    MaxTime = 2
    MaxOthers = 1
SYMMETRY Symmetry
PROPERTY SuccessCommitsWithArtifact
CHECK_DEADLOCK FALSE
