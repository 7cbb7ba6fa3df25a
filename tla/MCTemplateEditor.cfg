SPECIFICATION Spec
CONSTANTS
    Ids = {i1, i2}
    Looks = {look}
    Saves = {s1, s2}
    Opened = opened
    TemplateIds = {s1, s2, opened}
    Names = {n1, n2}
    MaxHistory = 2
    Gone = gone
    NoId = noId
    NoRow = noRow
    NoName = noName
    Lengths <- Tenths
    Areas = {23, 90, 117, 210}
SYMMETRY Symmetry
CONSTRAINT SavesByThemselves
CHECK_DEADLOCK FALSE
INVARIANTS TypeOK SelectionOnPage StoredWhenSaved OneRow
PROPERTY Timeline
