SPECIFICATION FairSpec
CONSTANTS
  Domains = {"old.example", "new.example"}
  Emails = {"admin", "webmaster"}
  Images = {"v3", "v4"}
  MaxEvents = 4
CHECK_DEADLOCK FALSE
INVARIANTS
  TypeOK
  AcmeIsFileUnlessUnmade
  WrittenUnlessFailed
PROPERTIES
  StartedOnWhatIsConfigured
  ComesBack
  DomainRouted
