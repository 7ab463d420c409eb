\* Three results under any numbers, and a call of a plugin.
SPECIFICATION FairSpec
CONSTANTS
    Numbers <- MCNumbers
    PluginEnds <- MCPluginEnds
    MaxResults = 3
    MaxCalls = 1
INVARIANTS
    NumbersDistinct
    LostOnlyToOthers
    EndIsRecorded
    CancelBites
PROPERTIES
    RunEnds
CHECK_DEADLOCK FALSE
