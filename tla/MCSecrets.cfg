SPECIFICATION FairSpec
CONSTANTS
  Nodes = {"a", "b"}
  Random = {"cluster_key", "app_encryption_key"}
  OldSets <- OldFiles
  MaxEvents = 3
CHECK_DEADLOCK FALSE
INVARIANTS
  TypeOK
  HandedOutStays
  InUseIsSaved
  GeneratedAgree
  CompleteNeverRewritten
PROPERTIES
  StartsUnlessTorn
