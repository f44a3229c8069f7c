SPECIFICATION FairSpec
CONSTANTS
  AuthBundles = {"none", "good", "bad"}
  MtimeSteps <- AnyClock
  MaxWrites = 4
  MaxCrashes = 1
CHECK_DEADLOCK FALSE
INVARIANTS
  TypeOK
  LostOnlyWhenMissed
PROPERTIES
  ImplementsHotReload
  ReloadsUnlessMissed
