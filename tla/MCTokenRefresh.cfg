SPECIFICATION FairSpec
CONSTANTS
    Requests = {r1, r2}
    Loads = {c1}
    MaxSessions = 3
INVARIANTS
    TypeOK
    FlagHasLeader
    SubscribersWait
    ResendsBounded
PROPERTIES
    EveryRequestSettles
CHECK_DEADLOCK FALSE
