\* Two replicas and two workspaces, three events, pages of two.
SPECIFICATION Spec
CONSTANTS
    r1 = r1  r2 = r2
    w1 = w1  w2 = w2
    Replicas = {r1, r2}
    Workspaces = {w1, w2}
    PageLimit = 2
    MaxAttempts = 2
    MaxEvents = 3
    None = None
SYMMETRY Alike
INVARIANTS
    OwnView
    ReadyHasConsumed
    LagIsServed
PROPERTIES
    StaysCovered
    RowsOnlyAdvance
CHECK_DEADLOCK FALSE
