SPECIFICATION FairSpec
CONSTANTS
    Nobody = Nobody
    Connections = {c1, c2}
    Subscribers = {s1}
    MaxParts = 4
    MaxAcceptErrors = 1
\* It may stop: everything is destroyed in the end.
CHECK_DEADLOCK FALSE
INVARIANTS
    TypeOK
    OneReadPerSession
    NotifiedInOrder
PROPERTIES
    SilentWhenDestroyed
    DestructorReturns
    MessagesReachSubscribers
