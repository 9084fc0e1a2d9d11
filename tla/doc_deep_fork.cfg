SPECIFICATION LiveSpec
CONSTANTS
    MaxBlock = 2
    Hash <- BranchHashes
    None = None
    SourceChunks <- Nobody
    RetainFloors <- Nobody
    RetainParents <- Nobody
    WindowSizes <- Nobody
    Configurations <- PinnedAtTwo
    Strategies <- Nobody
    ForkFloor = 1
    MaxReorgs = 1
    Budgets <- ForkBudget
CHECK_DEADLOCK FALSE
PROPERTY
    DeepForkResolved
