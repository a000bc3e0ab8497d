CONSTANTS
    RayTasks = {}
    CeleryTasks = {}
    KafkaTasks = {k1, k2}
    LocalTasks = {}
    MaxResponses = 0
    MaxRestarts = 0
    MaxTasks = 2
CHECK_DEADLOCK FALSE
SPECIFICATION FairSpec
PROPERTIES
    KafkaTasksResolve
