SPECIFICATION Spec
CONSTANTS
    Requests = {r1, r2}
    Roles = {ro}
    Apis = {a1, a2}
    Entries = {e1, e2}
    Guests = {g}
    Usernames = {u}
    Warehouses = {w}
    NoRow = NoRow
    NoRole = NoRole
    NoApi = NoApi
    NoName = NoName
    Absent = Absent
SYMMETRY ProvisioningSymmetry
INVARIANTS
    TypeOK
    CacheFromPast
    CacheAgrees
    Undone
    AccountsAgree
    OrphansExplained
CHECK_DEADLOCK FALSE
