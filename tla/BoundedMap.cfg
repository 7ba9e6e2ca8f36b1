SPECIFICATION Spec
CONSTANTS
    Keys = {a, b, c}
    Values = {v, w}
    Capacity = 2
    SeqLimit = 8
INVARIANTS
    TypeOK
PROPERTY EvictsOldestUntilWrap
