SPECIFICATION Spec
CONSTANTS
  NoItem = NoItem
  Runs <- FailingRuns
  FrameCount = 2
  ChunkCounts = {1}
  CounterLimit = 20
PROPERTY FirstErrorKept
