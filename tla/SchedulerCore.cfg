SPECIFICATION Spec
CONSTANTS
    q1 = q1  q2 = q2  q3 = q3  q4 = q4
    w1 = w1  w2 = w2  w3 = w3
    Queries = {q1, q2, q3, q4}
    Workspaces <- MCWorkspaces
    Generations <- MCGenerations
    SessionKeys <- MCKeys
    KeyOf <- MCKeyOf
    MaxQueries = 3
    MaxPerWs = 2
    SessionObjs = {o1, o2, o3, o4, o5, o6, o7}
    SessionSlots = 1
    GlobalSlots = 2
    MaxSessions = 2
    MaxSessionsPerWs = 1
    AllowReset = FALSE
    NoSession = NoSession
    NoQuery = NoQuery
INVARIANTS
    PoolIndexesAgree
    AdmissionCaps
    SessionConcurrency
    NoLostWakeup
PROPERTIES
    StartsInOrder
    ImplementsConversations
