SPECIFICATION FairSpec
CONSTANTS
    Endpoints <- ListenerOnly
    Frames <- TwoFrames
    MaxId = 3
    MaxFrames = 2
    MaxBatch = 2
    EventQCap = 1
    INGRESS_QUEUE_FRAMES = 1
    StatsQCap = 1
    LEARN_CAPACITY = 1
    TX_QUEUE_FRAMES = 1
    DedupEnabled = FALSE
    DedupCapacity = 1
PROPERTIES RefinesRouterSystem ShutdownCompletes
CHECK_DEADLOCK FALSE
