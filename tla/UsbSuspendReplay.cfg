SPECIFICATION Spec
CONSTANTS
    MaxPasses = 2
    MaxReplays = 1
    MaxRetries = 1
    MaxKicks = 1
    MaxEvents = 1
    MaxSuspends = 1
    MaxTimers = 1
    Kills = FALSE
INVARIANT
    EventsReplayed
CHECK_DEADLOCK FALSE
