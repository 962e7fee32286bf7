SPECIFICATION WSpec
CONSTANTS
  Buffers <- OneBuffer
  Datagrams <- NoDatagrams
  Built <- Grafts
  IqRequests <- NoRequests
  Options <- OnlyDefault
  MaxCalls = 1
INVARIANT
  OutputIsParseable
CHECK_DEADLOCK FALSE
