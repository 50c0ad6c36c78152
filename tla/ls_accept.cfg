SPECIFICATION FairSpec
CONSTANTS
    Nobody = Nobody
    Connections = {c1}
    Subscribers = {s1}
    MaxParts = 2
    MaxAcceptErrors = 0
\* It may stop: everything is destroyed in the end.
CHECK_DEADLOCK FALSE
PROPERTY
    ConnectionsAccepted
