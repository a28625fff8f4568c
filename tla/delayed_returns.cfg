SPECIFICATION FairSpec
CONSTANTS
  N = 6
  Base <- MCBase
  Programs <- DelayedPrograms
PROPERTIES FixerReturns
CHECK_DEADLOCK FALSE
