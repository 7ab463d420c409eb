SPECIFICATION Spec
CONSTANTS
    q1 = q1  q2 = q2  q3 = q3  q4 = q4
    w1 = w1  w2 = w2  w3 = w3
    Queries = {q1, q2, q3, q4}
    Workspaces <- MCWorkspaces
    Generations <- MCGenerations
    SessionKeys <- CrowdKeys
    KeyOf <- CrowdKeyOf
    MaxQueries = 2
    MaxPerWs = 2
    SessionObjs = {o1, o2, o3, o4, o5, o6, o7}
    SessionSlots = 1
    GlobalSlots = 2
    MaxSessions = 2
    MaxSessionsPerWs = 1
    AllowReset = TRUE
    NoSession = NoSession
    NoQuery = NoQuery
INVARIANT
    SessionConcurrency
