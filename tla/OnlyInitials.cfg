SPECIFICATION Spec
CONSTANTS
  a = a
  b = b
  c = c
  N1 = 3
  N2 = 3
  Contents <- OnlyInitials
  AuthorLists <- OnlyInitials
  Norms <- NormsFor
  DistFns <- DistFnsFor
  NoForm <- NormalizerRaises
  Thresh = 144
  Tolerance = 2
  Unit = 1200
  Penalty = 60
  EditDist <- Edits
INVARIANTS
  OnlyInitialsNotEqual
