SPECIFICATION WSpec
CONSTANTS
  Buffers <- EveryLength
  Datagrams <- FixtureDatagrams
  Built <- BrokenPackets
  IqRequests <- NoRequests
  Options <- OnlyDefault
  MaxCalls = 2
INVARIANT
  WTypeOK
PROPERTY
  OnlyThePacketIsWritten
CHECK_DEADLOCK FALSE
