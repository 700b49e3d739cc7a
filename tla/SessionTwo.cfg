\* Two sessions served by one thread; one sender may break its word about a
\* file's length, and an accept may fail.
CONSTANTS
    Conns = {c1, c2}
    Scripts <- TwoAny
    HeadCells = 2
    NameCells = 1
    MaxRead = 4
    MaxFaults = 0
    MaxResets = 0
    MaxBadAccepts = 1
SPECIFICATION Spec
INVARIANTS RowsOnce ClientCount CountsAreMaxima
PROPERTIES ImplementsFileCopy LostForGood
CHECK_DEADLOCK FALSE
