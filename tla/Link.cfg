SPECIFICATION FairSpec
CONSTANTS
  TX_QUEUE_FRAMES = 2
  Backoffs <- Configured
  Answers <- Lookups
  MaxPushed = 4
  MaxLinks = 2
  MaxFailures = 4
INVARIANTS FramesAccounted LinkIsFresh BackoffCurve
PROPERTY WriterWakes
CHECK_DEADLOCK FALSE
