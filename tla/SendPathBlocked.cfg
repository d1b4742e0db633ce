CONSTANTS
    ChunkSize = 1
    MaxSends = 2
    MaxOwn = 0
    MaxControl = 1

SPECIFICATION FairSpec
PROPERTY
    SentIsDelivered

CHECK_DEADLOCK FALSE
