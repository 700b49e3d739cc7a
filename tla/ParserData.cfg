\* Three files of up to two cells, every way to cut their stream into reads.
CONSTANTS
    HeadCells = 2
    NameCells = 1
    Scripts <- AllSizes
    MaxRead = 10
SPECIFICATION Spec
INVARIANTS LostOnlyByCuts
CHECK_DEADLOCK FALSE
