SPECIFICATION FairLSpec
CONSTANTS
  s1 = s1
  p1 = p1
  Modulus = 2
  Senders = {s1}
  Parsers = {p1}
  DestinationOf <- AllToOne
  UDP_DATAGRAM_WORDS = 28
  RECEIVE_WORDS = 28
  ContextInterval = 2
  PacketCounts = 3
  Times <- OneClock
  OptionsOf <- ReceiverOptions
  Datagrams <- Strangers
  Capacity = 1
INVARIANTS
  LinkTypeOK
  SendersNeverRefused
  ContextWithinInterval
  OnlyForeignersStopReceivers
PROPERTY
  ReceiversLearnContext
