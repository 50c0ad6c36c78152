SPECIFICATION FairSpec
CONSTANTS
    Main = m
    Threads = {m, t}
    Prefixes = {default, other}
    DefaultPrefix = default
    MaxCalls = 2
    MaxInits = 2
    Nobody = Nobody
\* It may stop: the process ends, or its threads have nothing left to do.
CHECK_DEADLOCK FALSE
INVARIANTS
    TypeOK
    MessagesKept
    NoEmptyFileLeft
PROPERTIES
    CallsReturn
