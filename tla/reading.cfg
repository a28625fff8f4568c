SPECIFICATION Spec
CONSTANTS
  Word = 16
  MaxNodes = 4
  Texts <- MCTexts
  Calls <- MCCalls
  Expressions <- MCExpressions
INVARIANTS IRIsTree CollectsExactly LabelsAreExact SubtreesAreIntervals 
CHECK_DEADLOCK FALSE
