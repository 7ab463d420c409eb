\* Three requests, of a run and of the runs resumed, and two callbacks that overlap.
SPECIFICATION Spec
CONSTANTS
    i1 = i1  i2 = i2  i3 = i3
    c1 = c1  c2 = c2
    Ids = {i1, i2, i3}
    Callbacks = {c1, c2}
    MaxDue = 1
    None = None
SYMMETRY Alike
INVARIANTS
    ResumedOnce
    OnlyLatenessTakesBack
    ControlsKept
PROPERTIES
    ImplementsContract
CHECK_DEADLOCK FALSE
