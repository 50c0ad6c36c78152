SPECIFICATION FairSpec
CONSTANTS
    MaxSends = 1
    MaxCloses = 1
    MaxConnects = 3
CHECK_DEADLOCK FALSE
PROPERTIES RegainsConnection
