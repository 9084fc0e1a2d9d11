SPECIFICATION Spec
CONSTANTS
    MaxBlock = 1
    Hash <- SomeHashes
    None = None
    SourceChunks <- Forks
    TableId = {1, 2, 3}
    Older <- ByTime
    Starts <- AnyStart
    Names = {"blocks"}
    MaxAttempts = 2
    MaxFaults = 1
CHECK_DEADLOCK FALSE
INVARIANTS
    LiveReadable
    BuildsUntouched
    TablesAccounted
    IndexExact
PROPERTIES
    ImplementsAtomicStore
