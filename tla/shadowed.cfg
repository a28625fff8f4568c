SPECIFICATION Spec
CONSTANTS
  N = 6
  Base <- MCBase
  Programs <- ShadowPrograms
INVARIANTS FixedIsClean
CHECK_DEADLOCK FALSE
