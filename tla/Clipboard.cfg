SPECIFICATION FairSpec
CONSTANT
    Worlds <- MCWorlds
INVARIANTS Reassembled StreamKept ClientKnows
PROPERTIES PasteIsServed PasteEnds
CHECK_DEADLOCK FALSE
