SPECIFICATION FairSpec
CONSTANTS
    Ports = {80}
    MaxAccepted = 1
    ConnectIds = {}
    WINDOW_SIZE = 2
    BUFFER_SIZE = 2
    AckIntervals = {1, 2}
    MaxToGuest = 3
    MaxFromGuest = 3
    IoFailures = FALSE
INVARIANTS OneRead ReadArmed OneWrite ListeningArmed FlowConservation
PROPERTIES QuietAfterClose ClientWindowReturns ClosingEnds AllDelivered DestructorReturns
CHECK_DEADLOCK FALSE
