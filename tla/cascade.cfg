SPECIFICATION FairCascade
CONSTANTS
  N = 8
  Base <- MCBase
  Programs <- CascadingPrograms
INVARIANTS IteratorsValid
PROPERTIES CascadesSucceed CascadesReturn ImplementsAnalysis
CHECK_DEADLOCK FALSE
