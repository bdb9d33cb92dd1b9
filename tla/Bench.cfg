SPECIFICATION BenchSpec
CONSTANTS
  Targets <- FourCases
  UsizeSize = 65536
  GrowTo = 1000
  None = None
INVARIANTS
  BenchRuns
  CasesExercise
CHECK_DEADLOCK FALSE
