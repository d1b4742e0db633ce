CONSTANTS
    ChunkSize = 2
    MaxSends = 2
    MaxOwn = 1
    MaxControl = 2

SPECIFICATION FairSpec
INVARIANTS
    CommandsAnnounced
    OneOverlapped
    WireIntact
PROPERTIES
    ImplementsOutbox
    StopFinishes
    SendsGoOut

CHECK_DEADLOCK FALSE
