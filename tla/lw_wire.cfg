SPECIFICATION FairSpec
CONSTANTS
    HexBase = 2
    RepSize = 2
    DecBase = 2
    HeaderSize = 2
    Entries <- MCEntries
    MaxLogged = 2
    MaxConnections = 2
\* It may stop: the client is destroyed and the sessions end.
CHECK_DEADLOCK FALSE
INVARIANTS
    TypeOK
    SessionsGetRuns
    TracesShown
PROPERTIES
    EverythingArrives
