SPECIFICATION DispatchSpec
CONSTANTS
    Endpoints <- GroupAndSniffer
    Frames <- Addressing
    Reasons = {"Disconnected"}
    MaxId = 5
    MaxFrames = 4
    EventQCap = 1
    INGRESS_QUEUE_FRAMES = 1
    StatsQCap = 1
    LEARN_CAPACITY = 2
    TX_QUEUE_FRAMES = 4
    DedupEnabled = TRUE
    DedupCapacity = 2
INVARIANTS LearnsMostRecent RoutedByHistory
