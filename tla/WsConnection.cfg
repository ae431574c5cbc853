SPECIFICATION FairSpec
CONSTANTS
    MaxEndpoints = 2
    MaxSends = 2
    MaxCloses = 2
    MaxHeard = 2
INVARIANTS
    TypeOK
    AliveHasOperation
    WritesAreSerial
PROPERTIES
    ListenerContract
    CloseEnds
    SilenceIsNoticed
CHECK_DEADLOCK FALSE
