SPECIFICATION FairSpec
CONSTANTS
    Request = {r1, r2}
    Build = {b1}
    Tag = {t1}
    NoTag = NoTag
    Sha = {s1}
    Failure = {"failed"}
    Driver = "sqlite"
    MaxTime = 2
    MaxOthers = 1
PROPERTIES SuccessCommitsWithArtifact EveryReportIsAnswered
CHECK_DEADLOCK FALSE
