SPECIFICATION Spec
CONSTANTS
  N = 4
  Wrap = 16
  Base <- MCBase
  Sources <- TwoWait
INVARIANT EveryIRExits
CHECK_DEADLOCK FALSE
