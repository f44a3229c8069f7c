SPECIFICATION FairSpec
CONSTANTS
  Kinds = {"app", "backupbot"}
  Documents = {"object", "null"}
  MtimeSteps <- CoarseClock
  Specs <- SomeSpecs
  MaxWrites = 3
  MaxEvents = 1
INVARIANTS
  TypeOK
  StaleOnlyWhenMissed
  AppFileIsNoDirectory
PROPERTIES
  FollowsUnlessMissed
  RunsUnlessNull
