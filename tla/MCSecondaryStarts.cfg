SPECIFICATION FairSpec
CONSTANTS
  Images = {"v1", "v2"}
  Configs <- JustSecondary
  Offers = {"primary"}
  Addresses = {"ip1", "ip2"}
  Remote = "peer"
  Pulses = {"p1"}
  MaxEvents = 1
PROPERTY
  SecondaryStarts
