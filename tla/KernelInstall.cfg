SPECIFICATION HostSpec
CHECK_DEADLOCK FALSE
INVARIANTS
    EveryCrashBoots
    ClaimsHold
    EvidenceIsTrue
PROPERTY WindowCloses
