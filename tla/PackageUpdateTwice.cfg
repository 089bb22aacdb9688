\* Two updates one after the other, two user-data paths and two power losses.
SPECIFICATION FairSpec
CONSTANTS
    MaxUpdates = 2
    Paths = {"home", "journal"}
    MaxCrashes = 2
    Disturbances = {}
    LateData = TRUE
INVARIANT
    PendingBootsOnce
PROPERTIES
    FailedRootKept
    RestoreEnds
