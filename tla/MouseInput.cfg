CONSTANTS
    Buttons = {"LEFT"}
    Positions = {1, 2}
    MaxEvents = 4
    MaxSwitches = 1

SPECIFICATION FairSpec
INVARIANTS
    ButtonsFollow
PROPERTY
    MovesGoOut

CHECK_DEADLOCK FALSE
