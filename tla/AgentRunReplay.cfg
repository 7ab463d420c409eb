\* A runner that leaves the numbers to the host, and a call of an administrator.
SPECIFICATION Spec
CONSTANTS
    Numbers = {}
    PluginEnds <- MCPluginEnds
    MaxResults = 2
    MaxCalls = 1
INVARIANTS
    Replayable
CHECK_DEADLOCK FALSE
