SPECIFICATION Spec
CONSTANTS
    Users = {u1}
    Sessions = {s1}
    Owners = {o1}
    Roles = {r1}
    Warehouses = {w1}
    Procs = {p1, p2}
    NoUser = NoUser
    NoWarehouse = NoWarehouse
    Timeout = 2
    MaxClock = 0
    Ops = {"login", "role"}
    FaultyOps = {}
    MaxFaults = 0
INVARIANTS
    RolesAgreeWhenQuiet
CHECK_DEADLOCK FALSE
