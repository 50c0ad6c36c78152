SPECIFICATION FairSpec
CONSTANTS
    MaxSends = 2
    MaxCloses = 2
    MaxConnects = 3
CHECK_DEADLOCK FALSE
INVARIANTS TypeOK WrittenInOrder OneChainPerFailure
PROPERTIES EverythingDelivered DestructorReturns
