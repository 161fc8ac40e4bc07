SPECIFICATION Spec
CONSTANT Lengths <- TwoEach
INVARIANTS
  TypeOK
  SearchFindsClass
  OneNodePerEntity
  ChoicesNotMerged
  NothingLost
  StatsAgree
PROPERTY IndexNeverRepointed
