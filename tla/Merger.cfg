SPECIFICATION Spec
CONSTANTS
  a = a
  b = b
  k = k
  Keys = {a, b, k}
  Spelling <- Spelled
  MaxDepth = 5
  DataLists <- Data
  Rules <- RulesByPath
  DefaultRule = "f"
  Inputs <- AllKinds
  Configs <- AllConfigs
  Falsy = {3}
  Limit = 2
INVARIANTS
  EntitiesInPlace
  ConflictsLocated
  EntitiesKeptOrShown
  OnlyMixedKeysCollide
  OutermostAligned
