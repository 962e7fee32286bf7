SPECIFICATION FSpec
CONSTANTS
  p1 = p1
  Modulus = 16
  Parsers = {p1}
  OptionsOf <- SomeOptions
  Datagrams <- Foreign
  Keys <- DataOnly
  Wires <- WiresOf
  MaxIndex = 17
  Capacity = 2
INVARIANTS
  FTypeOK
  NumbersAreIndicesModulo
PROPERTY
  ImplementsTrueOrder
