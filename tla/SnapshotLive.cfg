SPECIFICATION FairSpec
CONSTANTS
  first = first
  later = later
  sameVersion = sameVersion
  invalid = invalid
  Payloads <- MCPayloads
  Publishable <- MCPublishable
  VersionOf <- MCVersionOf
  Missing = Missing
  Empty = Empty
  Garbled = Garbled
  Procs = {c1}
  LastPackage = 5
  PayloadOf <- MCPayloadOfLong
  Browsers = {b1, b2}
  StaleServers = FALSE
  MaxFaults = 2
PROPERTIES
  EventuallyCurrent
