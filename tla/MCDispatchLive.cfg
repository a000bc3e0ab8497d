CONSTANTS
    FailureThreshold = 2
    RecoveryTimeoutSec = 1
    HalfOpenMaxSuccess = 2
    NumWorkers = 2
    Slots = {s1, s2}
    Endpoints = {"models", "secure_analyze"}
    Configs <- RayConfigs
SPECIFICATION FairSpec
PROPERTIES
    LoopIsGivenBack
    EveryRequestAnswered
    BreakersKeepPromise
