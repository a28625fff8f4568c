SPECIFICATION Spec
CONSTANTS
  d = d
  u = u
  x = x
  y = y
  Cmd = {d, u}
  Arg = {x, y}
  Grammatical <- MCGrammatical
  Texts <- MCTexts
  Repaired <- MCRepaired
  MaxSize = 2
  MaxMutations = 2
  MaxPoolSize = 2
INVARIANT DeletesTheNode
