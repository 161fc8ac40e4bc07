SPECIFICATION Spec
CONSTANTS
  Lengths <- Sized
  Ops <- AllowedOps
  Limits = {0, 3}
  MaxNodes = 4
INVARIANTS
  BuiltGraphIsMatchGraph
  KeptOrShown
  HeadDeletesReported
  InsertsRestoreTheOrder
  StatsDescribeLayout
PROPERTY ImplementsPromise
