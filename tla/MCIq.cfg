SPECIFICATION WSpec
CONSTANTS
  Buffers <- SmallSlices
  Datagrams <- NoDatagrams
  Built <- NoPackets
  IqRequests <- Requests
  Options <- OnlyDefault
  MaxCalls = 1
INVARIANTS
  SamplesSurvive
  HelperAgreesWithPacketWriter
CHECK_DEADLOCK FALSE
