\* One update of two user-data paths with everything that may disturb it, and a power loss.
SPECIFICATION Spec
CONSTANTS
    MaxUpdates = 1
    Paths = {"home", "journal"}
    MaxCrashes = 1
    Disturbances = {"user", "kill", "damage", "io"}
    LateData = TRUE
INVARIANTS
    NothingLost
    SnapshotsAreWhole
PROPERTY
    UserLockKept
