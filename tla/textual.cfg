SPECIFICATION FairSpec
CONSTANTS
  N = 7
  Base <- MCBase
  Programs <- TextualPrograms
INVARIANTS UniqueNames LegitSequences NothingStale FixedIsClean
PROPERTIES AbortsAreDeserved FixesMoveForward FixerReturns ImplementsRepair BasisRests
CHECK_DEADLOCK FALSE
