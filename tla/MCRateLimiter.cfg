CONSTANTS
    Limit = 2
    WindowSec = 2
    Keys = {k1, k2}
    Patient = {k1}
SPECIFICATION Spec
INVARIANTS
    TypeOK
    PatientClientGetsIn
PROPERTIES
    WindowKept
    RefusalsAreDue
