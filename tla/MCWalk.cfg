SPECIFICATION Spec
CONSTANTS
  Inputs <- WalkBuffers
  Options <- StrictAndLegacy
INVARIANTS
  TypeOK
  FramesTile
  NoPanic
  ShortReadsAreCommandWords
  PadBitsAreZero
  ZeroPadBitsAccepted
CHECK_DEADLOCK FALSE
