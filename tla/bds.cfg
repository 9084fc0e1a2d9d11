SPECIFICATION Spec
CONSTANTS
    Blocks = {"a1", "a2", "a3", "b3"}
    FirstTip = "a3"
    Finalizable = {"a2", "b3"}
    Base = "g"
    Number <- MCNumber
    Parent <- MCParent
    FirstBlock = 1
    MinQueue = 1
    MaxQueue = 2
    MaxPending = 2
    Partition = 3
    MaxTrouble = 2
    MaxStarts = 2
    Null = Null
CHECK_DEADLOCK FALSE
INVARIANTS
    HeadBacked
    FinalForSource
    NoneForgotten
PROPERTY
    ChainKept
