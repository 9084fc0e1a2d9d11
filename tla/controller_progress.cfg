SPECIFICATION LiveSpec
CONSTANTS
    MaxBlock = 2
    Hash <- BranchHashes
    None = None
    SourceChunks <- Nobody
    RetainFloors <- Nobody
    RetainParents <- Nobody
    WindowSizes <- Nobody
    Configurations <- ShallowConfigs
    Strategies <- Floors
    ForkFloor = 1
    MaxReorgs = 1
    Budgets <- ProgressBudget
CHECK_DEADLOCK FALSE
PROPERTY
    CatchesUp
