SPECIFICATION Spec
CONSTANTS
    Logins = {l1, l2, l3}
    MaxFailedAttempts = 2
    Window = 1
    LockDuration = 1
    MaxClock = 0
    Calls = {}
    MaxFaults = 0
PROPERTIES
    LockFollowsFailure
CHECK_DEADLOCK FALSE
