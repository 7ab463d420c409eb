\* Four messages, two runs at a time, and one message that is not offered.
SPECIFICATION FairSpec
CONSTANTS
    MaxMessages = 4
    Slots = 2
    MaxQueue = 2
    Steers <- MCSteers
INVARIANTS
    OneFate
    QueueOfLiveRun
    ClaimOrder
    QueueBounded
PROPERTIES
    EveryMessageSettles
CHECK_DEADLOCK FALSE
