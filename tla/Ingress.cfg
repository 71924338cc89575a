SPECIFICATION Spec
CONSTANTS
  crc16 <- Crc16
  as_bytes <- Ascii
  SORTED <- Table
  SEQ_TRACKER_CAPACITY = 2
  PassesInFilter <- Filter
  Plans <- AllPlans
INVARIANTS
  ChunkingIrrelevant
  StatsAddUp
  IntactFramesSurvive
  FramesAreSlices
  LossEstimate
CHECK_DEADLOCK FALSE
