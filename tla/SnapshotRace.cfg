SPECIFICATION Spec
CONSTANTS
  first = first
  later = later
  sameVersion = sameVersion
  invalid = invalid
  Payloads <- MCPayloads
  Publishable <- MCPublishable
  VersionOf <- MCVersionOf
  Missing = Missing
  Empty = Empty
  Garbled = Garbled
  Procs = {c1, c2}
  LastPackage = 4
  PayloadOf <- MCPayloadOfRace
  Browsers = {b1}
  StaleServers = TRUE
  MaxFaults = 2
SYMMETRY Symmetry
INVARIANTS
  TypeOK
  OkMeansConsistent
  ChangeDetectionAgrees
PROPERTIES
  ShipsOnlyAuthentic
