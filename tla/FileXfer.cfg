CONSTANTS
    Ids = {1, 2}
    Names = {"a", "b"}
    MaxSize = 2
    MaxClients = 2

SPECIFICATION Spec
INVARIANTS
    NoPartialFiles
    Agreement
PROPERTY
    WholeFilesAreKept
CHECK_DEADLOCK FALSE
