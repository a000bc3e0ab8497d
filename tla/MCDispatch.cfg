CONSTANTS
    FailureThreshold = 2
    RecoveryTimeoutSec = 1
    HalfOpenMaxSuccess = 2
    NumWorkers = 2
    Slots = {s1, s2}
    Endpoints = {"analyze", "models", "batch", "find", "secure_analyze"}
    Configs <- DistinctConfigs
SYMMETRY Symm
SPECIFICATION Spec
INVARIANTS
    TypeOK
    BreakersCoherent
    OneTaskPerAnswer
    OnlyKafkaLeavesOrphans
    RejectionHidesOnlyOwnFailure
    DuplicateWorkIsBounded
