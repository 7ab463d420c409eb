\* Three conversations, both limits on buffers, a full buffer, a plain message, and timers
\* that may fail.
CONSTANTS
    m1 = m1  m2 = m2  m3 = m3  m4 = m4  m5 = m5  m6 = m6  m7 = m7
    k1 = k1  k2 = k2  k3 = k3
    w1 = w1  w2 = w2
    old = old  new = new
    Messages = {m1, m2, m3, m4, m5, m6, m7}
    Keys = {k1, k2, k3}
    Scopes = {w1, w2}
    Contexts = {old, new}
    KeyOf <- MCKeyOf
    ContextOf <- MCContextOf
    ScopeOf <- MCScopeOf
    Plain = {m7}
    MaxMessages = 3
    MaxBuffers = 2
    MaxPerScope = 1

SPECIFICATION MCSpec

INVARIANTS
    CountsAgree
    EachMessageOnce
    OneConversation
    TimersMatchBuffers

PROPERTY
    AggregatorDrains

\* The messages may all have left.
CHECK_DEADLOCK FALSE
