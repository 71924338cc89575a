SPECIFICATION UdpcSpec
CONSTANTS
    Endpoints <- TwoLeaves
    Frames <- TwoFrames
    Answers <- MCAnswers
    Sources <- MCSources
    MaxId = 2
    MaxFrames = 2
    EventQCap = 1
    INGRESS_QUEUE_FRAMES = 1
    StatsQCap = 1
    LEARN_CAPACITY = 1
    TX_QUEUE_FRAMES = 1
    DedupEnabled = FALSE
    DedupCapacity = 1
PROPERTIES RefinesRouterSystem TargetScoped
CHECK_DEADLOCK FALSE
