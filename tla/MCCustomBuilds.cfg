SPECIFICATION Spec
CONSTANTS
    Request = {r1, r2, r3}
    Build = {b1}
    Tag = {t1}
    NoTag = NoTag
    Sha = {s1}
    Failure = {"failed"}
    Driver = "mysql"
    MaxTime = 2
    MaxOthers = 1
SYMMETRY Symmetry
INVARIANTS TypeOK AcknowledgedSuccessStands
PROPERTY FollowsStateMachine
CHECK_DEADLOCK FALSE
