SPECIFICATION Spec
CONSTANTS
  Kinds = {"backupbot"}
  Documents = {"object", "array"}
  MtimeSteps <- Forward
  Specs <- JustRoot
  MaxWrites = 1
  MaxEvents = 0
INVARIANTS
  DocumentedFormats
