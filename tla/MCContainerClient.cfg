SPECIFICATION HFairSpec
CONSTANTS
  DottedNames <- Dots
  DefaultEnv <- EngineEnv
  DefaultCmd <- EngineCmd
  EngineFlags <- PodmanFlags
  ImageID <- TheImageID
  Options <- AllOptions
  Wanted <- AllOptions
  Ids = {c1, c2}
  MaxFaults = 4
INVARIANTS
  TypeOK
  CreateNeverConflicts
  OnlyDivergentReplaced
  CallOutcome
PROPERTIES
  OkMeansConverged
  ImplementsReconcile
  AlwaysComesBack
