SPECIFICATION Spec
CONSTANTS
    Endpoints <- ListenerOnly
    Frames <- OneFrame
    MaxId = 3
    MaxFrames = 1
    MaxBatch = 1
    EventQCap = 1
    INGRESS_QUEUE_FRAMES = 1
    StatsQCap = 1
    LEARN_CAPACITY = 1
    TX_QUEUE_FRAMES = 1
    DedupEnabled = FALSE
    DedupCapacity = 1
PROPERTY RegistrationPrecedesFrames
CHECK_DEADLOCK FALSE
