SPECIFICATION Spec
CONSTANTS
    srv = srv
    c1 = c1
    c2 = c2
    s1 = s1
    a1 = a1
    a2 = a2
    b1 = b1
    NoMessage = NoMessage
    Server = srv
    Clients = {c1, c2}
    Threads = {s1, a1, b1}
    Home <- MCHome
    MaxCalls = 1
    Replying = {srv}
    MayThrow = {b1}
    Overlap = TRUE
CHECK_DEADLOCK FALSE
INVARIANTS BufferExclusive TokenConservation
