SPECIFICATION Spec
CONSTANTS
    Devices = {1, 2, 3}
    Qxl = {1, 2}
    Sizes = {1, 2}
    DefaultSize = 1
    MaxRefusals = 1
    MaxChanges = 1
    Requests <- MCRequests
    Places <- MCPlaces
INVARIANTS PointerFollows RequestIsMet
PROPERTY PrimaryIsSupplied
CHECK_DEADLOCK FALSE
