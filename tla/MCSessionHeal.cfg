SPECIFICATION FairSpec
CONSTANTS
    Users = {u1}
    Sessions = {s1}
    Owners = {o1}
    Roles = {r1}
    Warehouses = {w1}
    Procs = {p1, p2}
    NoUser = NoUser
    NoWarehouse = NoWarehouse
    Timeout = 2
    MaxClock = 1
    Ops = {"login", "switch", "current", "owner"}
    FaultyOps = {"owner"}
    MaxFaults = 2
PROPERTIES
    StaleOwnersHeal
CHECK_DEADLOCK FALSE
