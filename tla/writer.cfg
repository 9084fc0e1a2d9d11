SPECIFICATION Spec
CONSTANTS
    MaxBlock = 2
    Hash = {a, b}
    None = None
    WindowSizes = {0, 1, 2}
    SourceChunks <- AllChunks
    RetainFloors <- AllPositions
    RetainParents <- AllParents
SYMMETRY HashSymmetry
INVARIANTS
    WriterInSync
    ChainLinked
    FinalizedStored
    RollbackUsable
PROPERTIES
    FinalityFirm
    PublishedDurable
    ImplementsLedger
