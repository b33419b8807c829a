SPECIFICATION Spec
CONSTANTS
  first = first
  later = later
  sameVersion = sameVersion
  invalid = invalid
  Payloads <- MCPayloads
  Publishable <- MCPublishable
  VersionOf <- MCVersionOf
  Missing = Missing
  Empty = Empty
  Garbled = Garbled
  Procs = {c1}
  LastPackage = 3
  PayloadOf <- MCPayloadOf
  Browsers = {b1}
  StaleServers = TRUE
  MaxFaults = 0
INVARIANTS
  NoRollback
