SPECIFICATION WSpec
CONSTANTS
  Buffers <- OneBuffer
  Datagrams <- FlippedDatagrams
  Built <- BuiltPackets
  IqRequests <- NoRequests
  Options <- StrictAndLegacy
  MaxCalls = 1
INVARIANTS
  WTypeOK
  RewriteIsIdentity
  ReadsBack
CHECK_DEADLOCK FALSE
