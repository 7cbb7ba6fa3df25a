SPECIFICATION Spec
CONSTANTS
    Requests = {r1, r2}
    Loads = {c1}
    MaxSessions = 3
PROPERTIES
    LogoutEndsSession
CHECK_DEADLOCK FALSE
