CONSTANTS
    FailureThreshold = 2
    RecoveryTimeoutSec = 1
    HalfOpenMaxSuccess = 2
    NumWorkers = 2
    Slots = {s1}
    Endpoints = {"batch"}
    Configs <- RayConfigs
SPECIFICATION Spec
INVARIANTS
    BatchIsProcessed
