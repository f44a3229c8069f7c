SPECIFICATION HSpec
CONSTANTS
  DottedNames <- Dots
  DefaultEnv <- EngineEnv
  DefaultCmd <- EngineCmd
  EngineFlags <- PodmanFlags
  ImageID <- TheImageID
  Options <- AllOptions
  Wanted <- Resize
  Ids = {c1, c2}
  MaxFaults = 1
PROPERTIES
  LimitsEnforced
