SPECIFICATION FairSpec
CONSTANTS
    Blocks <- OneFileBlocks
    Children <- OneFileChildren
    BlockLen <- OneFileLen
    ChunkSize = 2
    Clients = {c1}
    Root <- OneRoot
    ServerRoot = "s"
    None = None
    MaxRanges = 2
    MaxNet = 6
    MaxTicks = 5
    MaxTransfers = 2
    MaxLoops = 4
    Timely = TRUE
    Losable = {"BlockRequest", "BlockRequestResponse"}
    Duplicable = {}
    Reorder = FALSE
INVARIANTS
    TypeOK
    FullIsFaithful
    ServerUp
PROPERTIES
    SyncCompletes
CHECK_DEADLOCK FALSE
