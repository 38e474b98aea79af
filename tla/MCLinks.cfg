SPECIFICATION LinksSpec
CONSTANTS
  BlockBytes = 2
  MaxDataBlocks = 3
  MaxPayload = 7
  KeyBytes = 1
  KeyLengths = {1, 2}
  IvBytes = 1
  TagBytes = 4
  Offered <- IpPackets
  Early <- EarlyPackets
  Vectors <- UartVectors
  k1 = k1
  k2 = k2
  Replies <- SpiReplies
  OldReplies <- SpiOldReplies
  FrameBytes = 3
  Retries = 2
  PayloadBytes = 3
  ParserTimeout = 1
  SettleTime = 2
  MaxFaults = 2
  MaxSessions = 3
  WireCost = 1
  UpCost = 1
  DownCost = 2
  SharedCost = 3
  Trips = {0, 1}
  LateBy = 1
  ReplyWait = 16
  MaxTime = 30
INVARIANTS LinksTypeOK DecodesAnswers OwnResult EmulatedTimes HandedOver
PROPERTIES EveryExchangeEnds FreshStart ImplementsCommands
