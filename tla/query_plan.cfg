SPECIFICATION Spec
CONSTANTS
    Null = Null
    None = None
    Bits <- MCBits
    Tables <- MCTables
    PrimaryKey <- MCPrimaryKey
    ChildKey <- MCChildKey
    RowWeight <- MCRowWeight
    WeightColumns <- MCWeightColumns
    Lists <- MCLists
    Chunks <- MCChunks
    Items <- MCItems
    Ranges <- MCRanges
    MaxItems = 3
    PackageLimit = 6
INVARIANTS
    AnswerExact
    PackageBounded
PROPERTIES
    QueryAdvances
