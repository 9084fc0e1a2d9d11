SPECIFICATION SysSpec
CONSTANTS
    MaxBlock = 2
    Hash <- BranchHashes
    None = None
    SourceChunks <- Nobody
    RetainFloors <- Nobody
    RetainParents <- Nobody
    WindowSizes <- Nobody
    Configurations <- AllConfigs
    Strategies <- Switches
    ForkFloor = 1
    MaxReorgs = 2
    Budgets <- SafetyBudgets
CHECK_DEADLOCK FALSE
INVARIANTS
    HonestNeverBlamed
    TrimKeepsHead
    FinalityIsTheSources
    WindowComplete
