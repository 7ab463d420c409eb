\* Calls that overlap: a terminal run comes back.
SPECIFICATION Spec
CONSTANTS
    r1 = r1
    r2 = r2
    t1 = t1
    t2 = t2
    Runs = {r1}
    Runtimes = {t1, t2}
    Calls = {c1, c2}
    Rank <- OneRank
    Eligible <- OneEligible
    NewStatuses <- MCStatuses
    Lease = 2
    RowLocks = TRUE
    MaxTime = 3
    MaxClaims = 2
    NoRuntime = NoRuntime
PROPERTIES
    TerminalIsFinal
CHECK_DEADLOCK FALSE
