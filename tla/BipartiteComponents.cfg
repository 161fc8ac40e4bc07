SPECIFICATION FairSpec
CONSTANTS
  N1 = 2
  N2 = 3
INVARIANTS
  SameRootIffConnected
  ComponentsExact
PROPERTY Termination
