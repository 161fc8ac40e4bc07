SPECIFICATION Spec
CONSTANTS
  a = a
  b = b
  k = k
  Keys = {a, b, k}
  Spelling <- Spelled
  MaxDepth = 5
  DataLists <- Data
  Rules <- RulesByPath
  DefaultRule = "f"
  Inputs <- BaseEntities
  Configs <- Customized
  Falsy = {}
  Limit = 0
INVARIANTS
  MergedPopulated
