SPECIFICATION FairSpec
CONSTANTS
    Endpoints <- TwoLeaves
    Frames <- OneFrame
    MaxId = 2
    MaxFrames = 2
    MaxBatch = 2
    EventQCap = 1
    INGRESS_QUEUE_FRAMES = 1
    StatsQCap = 1
    LEARN_CAPACITY = 1
    TX_QUEUE_FRAMES = 1
    DedupEnabled = FALSE
    DedupCapacity = 1
PROPERTIES RefinesRouterSystem ShutdownCompletes
CHECK_DEADLOCK FALSE
