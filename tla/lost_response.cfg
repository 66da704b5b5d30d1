SPECIFICATION Spec
CONSTANTS
    Blocks <- TwoFilesBlocks
    Children <- TwoFilesChildren
    BlockLen <- TwoFilesLen
    ChunkSize = 2
    Clients = {c1}
    Root <- OneRoot
    ServerRoot = "s"
    None = None
    MaxRanges = 2
    MaxNet = 6
    MaxTicks = 5
    MaxTransfers = 2
    MaxLoops = 4
    Timely = TRUE
    Losable = {"BlockRequestResponse"}
    Duplicable = {}
    Reorder = FALSE
INVARIANTS
    LostResponseTolerated
CHECK_DEADLOCK FALSE
