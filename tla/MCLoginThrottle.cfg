SPECIFICATION Spec
CONSTANTS
    Logins = {l1, l2, l3}
    MaxFailedAttempts = 2
    Window = 1
    LockDuration = 2
    MaxClock = 3
    Calls = {"start", "readUser", "unlockReset", "unlockClear", "count", "lock", "refuse",
             "upsertRead", "create", "save", "reset", "session", "success"}
    MaxFaults = 1
SYMMETRY LoginSymmetry
INVARIANTS
    TypeOK
    AdmittedBounded
PROPERTIES
    LockIsKept
CHECK_DEADLOCK FALSE
