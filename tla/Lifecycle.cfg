SPECIFICATION MCSpec
CONSTANTS
    Endpoints <- LeafAndListener
    Frames <- OneFrame
    Reasons = {"Idle", "Disconnected"}
    MaxId = 3
    MaxFrames = 1
    EventQCap = 2
    INGRESS_QUEUE_FRAMES = 1
    StatsQCap = 1
    LEARN_CAPACITY = 1
    TX_QUEUE_FRAMES = 1
    DedupEnabled = FALSE
    DedupCapacity = 1
INVARIANTS TypeOK GroupRefcount NoEcho DropsCountedOnce LifecycleInv RegistrationsPair MirrorTracksRegistry
CHECK_DEADLOCK FALSE
