SPECIFICATION FairSpec
CONSTANTS
    Endpoints <- OneListener
    Frames <- TwoFrames
    Addrs = {a1, a2}
    peer_capacity = 1
    MaxId = 4
    MaxFrames = 1
    EventQCap = 1
    INGRESS_QUEUE_FRAMES = 1
    StatsQCap = 1
    LEARN_CAPACITY = 1
    TX_QUEUE_FRAMES = 1
    DedupEnabled = FALSE
    DedupCapacity = 1
INVARIANTS TableBounded TableMatchesRegistry
PROPERTIES RefinesRouterSystem RemovedWritersEnd ShutdownCompletes
CHECK_DEADLOCK FALSE
