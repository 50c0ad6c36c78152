SPECIFICATION FairSpec
CONSTANTS
    d1 = d1
    d2 = d2
    Nobody = Nobody
    Daemons = {d1, d2}
    Pid <- MCPid
    Stale <- MCStale
CHECK_DEADLOCK FALSE
INVARIANTS TypeOK PidInFile OneDaemonUntilUnlink NothingLeftBehind
PROPERTIES EndsWhenTold
