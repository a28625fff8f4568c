SPECIFICATION Spec
CONSTANTS
  MaxSaves = 2
  Boundary = "prog"
  Types <- MCTypes
  Describes <- MCDescribes
  Annotations <- MCAnnotations
  Corpus <- MCCorpus
  TestCases <- MCTestCases
  removable_types <- MCRemovable
  insertable_types <- MCInsertable
INVARIANT PooledUsersAreFound
