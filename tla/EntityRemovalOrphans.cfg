SPECIFICATION Spec
CONSTANTS
    Ents = {a, b, c}
    None = None
    ParentMarked = TRUE
SYMMETRY Symmetry
PROPERTIES NoOrphans
CHECK_DEADLOCK FALSE
