CONSTANTS
    NumWorkers = 3
    MaxPicks = 3
SPECIFICATION Spec
INVARIANTS
    TypeOK
    PicksBalanced
