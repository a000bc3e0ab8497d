CONSTANTS
    FailureThreshold = 2
    RecoveryTimeoutSec = 1
    HalfOpenMaxSuccess = 2
    NumWorkers = 2
    Slots = {s1}
    Endpoints = {"find"}
    Configs <- RayConfigs
SPECIFICATION Spec
INVARIANTS
    OverflowIs422
