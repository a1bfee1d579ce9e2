SPECIFICATION Spec
CONSTANTS
    Rows <- MCRows
    Existing <- MCExisting
    PageSize = 2
    NoCursor = NoCursor
    MaxEnds = 3
    MaxPages = 6
CHECK_DEADLOCK FALSE
INVARIANTS
    PagesInOrder
    NothingSkipped
