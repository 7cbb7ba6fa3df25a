SPECIFICATION Spec
CONSTANTS
    Requests = {r1, r2}
    Loads = {c1}
    MaxSessions = 3
INVARIANTS
    WaitersAreReleased
CHECK_DEADLOCK FALSE
