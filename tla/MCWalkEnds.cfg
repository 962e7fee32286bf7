SPECIFICATION Spec
CONSTANTS
  Inputs <- ShortWalks
  Options <- StrictAndLegacy
PROPERTY
  Terminates
CHECK_DEADLOCK FALSE
