SPECIFICATION FairSpec
CONSTANT MaxAttempts = 3
CHECK_DEADLOCK FALSE
INVARIANTS
    ExecutesWhatWasDecided
    SealedAtExecution
PROPERTIES
    NoRetryAfterDecision
    StandaloneEnds
