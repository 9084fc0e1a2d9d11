SPECIFICATION FairSpec
CONSTANTS
    MaxBlock = 1
    Hash <- Hashes
    None = None
    Client = {c1, c2}
    Chains <- OneChain
    GenesisHash = "g"
    Matching = {1}
    Begins <- AtGenesis
    Ends <- Endless
    Finalizable = {}
    MaxWaiters = 1
    MaxTasks = 1
INVARIANT SlotsBalanced
PROPERTIES RefusedForOthers Answered
