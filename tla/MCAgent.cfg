SPECIFICATION FairSpec
CONSTANTS
  Images = {"v1", "v2"}
  Configs <- Mixed
  Offers = {"postgres", "valkey", "primary"}
  Addresses = {"ip1", "ip2"}
  Remote = "peer"
  Pulses = {"p1"}
  MaxEvents = 2
INVARIANTS
  TypeOK
  ConvergedAfterApply
  HealedByCheck
PROPERTIES
  AppStartsConfigured
  QuietOnceSettled
  WatchedRecover
