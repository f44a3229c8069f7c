SPECIFICATION FairSpec
CONSTANTS
  Images = {"v1", "v2"}
  Configs <- JustSingle
  Offers = {}
  Addresses = {"ip1", "ip2"}
  Remote = "peer"
  Pulses = {"p1"}
  MaxEvents = 1
PROPERTY
  TraefikFindsApp
