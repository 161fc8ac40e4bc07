SPECIFICATION FairSpec
CONSTANT MaxNodes = 4
INVARIANTS
  Complete
  OrderPreserved
  CyclicIffReordered
  TieBreak
  FallbackOrder
PROPERTY Termination
