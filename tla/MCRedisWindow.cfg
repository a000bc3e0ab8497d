CONSTANTS
    Limit = 2
    WindowSec = 2
    Keys = {k1}
    Patient = {}
SPECIFICATION ClockedSpec
INVARIANT FixedWindow
