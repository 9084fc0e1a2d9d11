SPECIFICATION Spec
CONSTANTS
    MaxBlock = 2
    Hash <- Hashes
    None = None
    Client = {c1}
    Chains <- TwoChains
    GenesisHash = "g"
    Matching = {1}
    Begins <- AnyBegin
    Ends <- WithEnd
    Finalizable = {0, 1, 2}
    MaxWaiters = 1
    MaxTasks = 1
INVARIANTS FollowsOneChain FinalizedOnly NeverRepeats
