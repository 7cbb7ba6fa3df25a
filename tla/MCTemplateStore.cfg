SPECIFICATION Spec
CONSTANTS
    Requests = {r1, r2, r3}
    Codes = {c1, c2}
    Names = {n1, n2}
    Contents = {x1, x2}
    Slots = {full, partial}
    KeyedSlots = {full}
    NoRow = NoRow
    NoForm = NoForm
    NoSlot = NoSlot
SYMMETRY StoreSymmetry
INVARIANTS
    TypeOK
    DefaultsNotDeleted
    UniqueWhenCalm
    VersionsFollow
    KeyAgreesWithCheck
PROPERTIES
    Implements
CHECK_DEADLOCK FALSE
