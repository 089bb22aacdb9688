\* Two updates, kills and one power loss.
SPECIFICATION Spec
CONSTANTS
    MaxUpdates = 2
    Paths = {"home"}
    MaxCrashes = 1
    Disturbances = {"kill"}
    LateData = TRUE
INVARIANT
    RestoresWhenDue
