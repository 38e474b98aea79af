SPECIFICATION FairSpec
CONSTANTS
  NoItem = NoItem
  Runs <- CameraRuns
  FrameCount = 4
  ChunkCounts = {1, 2}
  CounterLimit = 5
INVARIANTS CameraTypeOK CameraIVsUnique DecoderFollows KeyComes FramesAccounted PanelHonest
PROPERTIES FailuresShown StagesEnd
