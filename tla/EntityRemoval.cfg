SPECIFICATION Spec
CONSTANTS
    Ents = {a, b, c, d}
    None = None
    ParentMarked = FALSE
SYMMETRY Symmetry
INVARIANTS
    TypeOK
    ReleasedOnce
    ListsMatchParents
PROPERTIES
    NoOrphans
    ClearLeavesNothing
CHECK_DEADLOCK FALSE
