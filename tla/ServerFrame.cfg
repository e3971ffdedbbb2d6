SPECIFICATION Spec
CONSTANTS
    Ents = {a, b}
    Thinks = 2
    WithContexts = {a}
    Delays = {0, 2}
    MaxTick = 2
    MaxTouch = 3
    PlayerSimulated = {b}
INVARIANTS
    TypeOK
    IndexMatchesList
    ListIsCurrent
    PointersAlive
    NeverLate
    UntouchNotForgotten
PROPERTIES RemovedInFrame
