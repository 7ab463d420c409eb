\* One call at a time.
SPECIFICATION Spec
CONSTANTS
    r1 = r1
    r2 = r2
    t1 = t1
    t2 = t2
    Runs = {r1, r2}
    Runtimes = {t1, t2}
    Calls = {c1}
    Rank <- MCRank
    Eligible <- MCEligible
    NewStatuses <- AnyStatus
    Lease = 2
    RowLocks = FALSE
    MaxTime = 3
    MaxClaims = 2
    NoRuntime = NoRuntime
INVARIANTS
    EndIsStamped
    LeaseExclusive
    AttemptsCountClaims
PROPERTIES
    TerminalIsFinal
    StaleTokenInert
    ImplementsLeases
CHECK_DEADLOCK FALSE
