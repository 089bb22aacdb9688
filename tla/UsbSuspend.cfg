SPECIFICATION Spec
CONSTANTS
    MaxPasses = 2
    MaxReplays = 1
    MaxRetries = 1
    MaxKicks = 1
    MaxEvents = 1
    MaxSuspends = 1
    MaxTimers = 1
    Kills = TRUE
INVARIANTS
    SuspendsQuiet
    EndsBound
    ReinitsBounded
    NoEventForgotten
CHECK_DEADLOCK FALSE
