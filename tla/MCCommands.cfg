SPECIFICATION CommandsSpec
CONSTANTS
  k = k
  p = p
  NoChunk = NoChunk
  NoFile = NoFile
  OlderFile = OlderFile
  Keys = {k1}
  MenuKeys = {k1, k2}
  MenuRounds = 3
  Prefixes = {p1, p2}
  Ports = {kit}
  Sides = {0, 65535, 65536}
  SideLimit = 65536
  Lengths = {12, 16, 240, 241}
  MaxRounds = 2
  Advanced = TRUE
  NoPair = NoPair
  NoPort = NoPort
  Channels = {"uart", "spi", "emu"}
  Windows = {1, 2}
  MaxFaults = 2
  Tampers = {1}
  MaxRuns = 2
  MaxSeconds = 2
  MaxFrames = 1
  Writers = {w1, w2}
INVARIANTS CommandsTypeOK StreamCarriesData StreamReadBack OnlyGenuine OkMeansEncrypted FaultContained InFlight PairsUsedOnce  OneLogPerRun
PROPERTY ClosedIsFinal
