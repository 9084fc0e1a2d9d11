SPECIFICATION LiveSpec
CONSTANTS
    N = 2
    MaxBlock = 2
    Start = 0
    Anchored = FALSE
    ForkAt = 1
    Canon = 0
    Careless <- First
    Reports <- GenesisFinal
    Live <- Second
    Rungs = 1
    None = None
INVARIANTS
    ConsensusScoped
    OneChain
    HeadSignalOwn
PROPERTIES
    StrikesScoped
    ReachesTip
