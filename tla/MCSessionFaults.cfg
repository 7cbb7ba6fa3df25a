SPECIFICATION Spec
CONSTANTS
    Users = {u1}
    Sessions = {s1}
    Owners = {o1}
    Roles = {r1}
    Warehouses = {w1}
    Procs = {p1, p2}
    NoUser = NoUser
    NoWarehouse = NoWarehouse
    Timeout = 1
    MaxClock = 2
    Ops = {"login", "switch", "current", "owner", "role"}
    FaultyOps = {"login", "switch", "current", "owner", "role"}
    MaxFaults = 1
INVARIANTS
    TypeOK
    CacheHasTimeToLive
    CacheBelongsToSession
PROPERTIES
    RowIsFixedByCreate
    DeathIsFinal
SYMMETRY ProcSymmetry
CHECK_DEADLOCK FALSE
