SPECIFICATION Spec
CONSTANTS
    srv = srv
    c1 = c1
    c2 = c2
    s1 = s1
    a1 = a1
    a2 = a2
    b1 = b1
    NoMessage = NoMessage
    Server = srv
    Clients = {c1}
    Threads = {s1, a1, a2}
    Home <- MCHome
    MaxCalls = 2
    Replying = {srv}
    MayThrow = {}
    Overlap = FALSE
CHECK_DEADLOCK FALSE
INVARIANTS TypeOK
PROPERTIES RequestsImplementChannel ResponsesImplementChannel
