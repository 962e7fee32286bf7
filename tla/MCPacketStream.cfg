SPECIFICATION HSpec
CONSTANTS
  p1 = p1
  p2 = p2
  Modulus = 16
  Parsers = {p1, p2}
  OptionsOf <- Legacy
  Datagrams <- StreamDatagrams
  MaxLog <- ThreeAndOne
INVARIANTS
  TypeOK
  LastSeenIsLatest
  StatusComparesNeighbours
