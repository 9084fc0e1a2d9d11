SPECIFICATION FairSpec
CONSTANTS
    MaxBlock = 1
    Hash <- SomeHashes
    None = None
    SourceChunks <- Replay
    TableId = {1, 2, 3}
    Older <- Unordered
    Starts <- Steady
    Names = {"blocks"}
    MaxAttempts = 2
    MaxFaults = 1
CHECK_DEADLOCK FALSE
PROPERTIES
    DeletedPurged
    JobsEnd
