\* Two replicas and two workspaces, three events: a snapshot and a launch that overlap.
SPECIFICATION Spec
CONSTANTS
    r1 = r1  r2 = r2
    w1 = w1  w2 = w2
    Replicas = {r1, r2}
    Workspaces = {w1, w2}
    PageLimit = 2
    MaxAttempts = 2
    MaxEvents = 3
    None = None
SYMMETRY Alike
INVARIANT
    AtOneRevision
CHECK_DEADLOCK FALSE
