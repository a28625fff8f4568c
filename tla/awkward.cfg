SPECIFICATION Spec
CONSTANTS
  N = 6
  Base <- MCBase
  Programs <- AwkwardPrograms
INVARIANTS TypeOK MarkerOrError DependentsWait
PROPERTIES AbortsAreDeserved CascadesFindMarkers
CHECK_DEADLOCK FALSE
