SPECIFICATION Spec
CONSTANTS
  Inputs <- PrologueBuffers
  Options <- ParseOptions
INVARIANTS
  StandardsNest
  CompatibilityIsNarrow
  OneClockPerInformationClass
  ProfileTablesAgree
CHECK_DEADLOCK FALSE
