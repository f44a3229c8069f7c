SPECIFICATION FairSpec
CONSTANTS
  Nodes = {"a", "b", "c", "d"}
  Services = {"app", "postgres"}
  Configs <- Some
  Peers <- Everyone
  Key <- OneAlone
  MaxEvents = 2
CHECK_DEADLOCK FALSE
INVARIANTS
  TypeOK
  MeshedUnlessFailed
  OnePrimaryFound
PROPERTIES
  FoundInTheEnd
  TrueInTheEnd
