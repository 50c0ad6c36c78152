SPECIFICATION FairSpec
CONSTANTS
    t1 = t1
    t2 = t2
    t3 = t3
    zoom = zoom
    focus = focus
    recv = recv
    Nobody = Nobody
    Callers = {t1, t2, t3}
    Receiver = recv
    Kinds = {zoom, focus}
    KindOf <- MCKindOf
    Follow <- MCFollow
    Throwing = {focus}
    Unsendable = {zoom}
    Erring = {zoom}
    MaxCalls = 1
CHECK_DEADLOCK FALSE
INVARIANTS TypeOK HandlersAwaitAnswers
PROPERTIES CallsImplementRpc EveryCallAnswered
