SPECIFICATION Spec
CONSTANTS
    Ports = {80}
    MaxAccepted = 0
    ConnectIds = {101}
    WINDOW_SIZE = 2
    BUFFER_SIZE = 2
    AckIntervals = {1, 2}
    MaxToGuest = 3
    MaxFromGuest = 4
    IoFailures = TRUE
INVARIANTS StreamIntact CloseIsFinal AckConservation
CHECK_DEADLOCK FALSE
