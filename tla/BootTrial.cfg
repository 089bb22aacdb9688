SPECIFICATION Spec
CONSTANTS
    Trials = {"t1", "t2"}
    Selected = "t1"
    Absent <- MCAbsent
INVARIANTS
    BootedOnceUnacknowledged
    RollbackFences
PROPERTIES
    ImplementsCell
    TrialBootIsJudged
