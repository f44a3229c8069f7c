SPECIFICATION Spec
CONSTANTS
  Images = {"v1", "v2"}
  Configs <- JustSingle
  Offers = {}
  Addresses = {"ip1", "ip2"}
  Remote = "peer"
  Pulses = {"p1", "p2"}
  MaxEvents = 1
PROPERTY
  PulseRebuilds
