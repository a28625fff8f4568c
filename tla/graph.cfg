SPECIFICATION FairSpec
CONSTANTS
  N = 5
  Wrap = 16
  Base <- MCBase
  Sources <- TwoWait
INVARIANTS TypeOK TopologicalOrder FatalIffCycle ExitsWhenComplete
PROPERTIES ExitsInsideOut Terminates
CHECK_DEADLOCK FALSE
