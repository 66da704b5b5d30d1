SPECIFICATION Spec
CONSTANTS
    Blocks <- TwoClientsBlocks
    Children <- TwoClientsChildren
    BlockLen <- TwoClientsLen
    ChunkSize = 2
    Clients = {"c1", "c2"}
    Root <- TwoClientsRoot
    ServerRoot = "s"
    None = None
    MaxRanges = 1
    MaxNet = 2
    MaxTicks = 1
    MaxTransfers = 2
    MaxLoops = 2
    Timely = TRUE
    Losable = {}
    Duplicable = {"BlockRequestResponse"}
    Reorder = TRUE
INVARIANTS
    SyncInv
    FolderIsWhole
    OneUploader
    NothingForgotten
    ClientsUp
PROPERTIES
    ImplementsSyncSpec
CHECK_DEADLOCK FALSE
