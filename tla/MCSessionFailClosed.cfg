SPECIFICATION Spec
CONSTANTS
    Users = {u1}
    Sessions = {s1, s2}
    Owners = {o1}
    Roles = {r1}
    Warehouses = {w1}
    Procs = {p1}
    NoUser = NoUser
    NoWarehouse = NoWarehouse
    Timeout = 1
    MaxClock = 1
    Ops = {"login", "switch", "logout", "current", "owner", "role", "keep", "status", "deactivate"}
    FaultyOps = {"logout", "current", "owner"}
    MaxFaults = 1
INVARIANTS
    OwnersAgreeWhenQuiet
    RolesAgreeWhenQuiet
    WarehouseAgreesWhenQuiet
CHECK_DEADLOCK FALSE
