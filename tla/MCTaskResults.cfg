CONSTANTS
    RayTasks = {r1}
    CeleryTasks = {c1}
    KafkaTasks = {k1, k2}
    LocalTasks = {l1}
    MaxResponses = 3
    MaxRestarts = 1
    MaxTasks = 2
CHECK_DEADLOCK FALSE
SPECIFICATION FairSpec
INVARIANTS
    TypeOK
    SuccessIsOwn
    LoneResponseAwaits
PROPERTIES
    FinalAnswersStand
    LifecycleSpec
    ResultsResolve
    LoneKafkaTaskResolves
