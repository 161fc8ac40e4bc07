SPECIFICATION FairSpec
CONSTANT Lengths <- Uneven
PROPERTIES
  Termination
  ImplementsEntityClasses
