SPECIFICATION Spec
CONSTANTS
  Corpus <- SomeTargets
  ByteCount = 6
  Printable <- SomePrintable
  Seeds <- SomeSeeds
  Iterations = {0, 1, 30}
  None = None
INVARIANTS
  EscapeSetsAgree
  SuccessIsExhaustive
  StuckOnlyAtSeedZero
CHECK_DEADLOCK FALSE
