SPECIFICATION Spec
CONSTANTS
  a = a
  b = b
  Keys = {a, b}
  Spelling <- Spelled
  MaxDepth = 4
  DataLists <- Data
  Rules <- RulesByPath
  DefaultRule = "longest"
  Families <- Cases
  KeyPaths <- Places
INVARIANTS
  PatchSetsBody
