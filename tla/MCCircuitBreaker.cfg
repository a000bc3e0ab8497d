CONSTANTS
    FailureThreshold = 3
    RecoveryTimeoutSec = 30
    HalfOpenMaxSuccess = 2
SPECIFICATION FairSpec
INVARIANTS
    TypeOK
    ClosedIffBelowThreshold
    ProbesAreConsecutive
    NoCallThroughOpen
PROPERTIES
    RecoveryIsEarned
    KeepsPromise
    RecoversWhenHealthy
