SPECIFICATION AnchorsSpec
CONSTANTS
  ca1 = ca1
  ca2 = ca2
  leaf = leaf
  junk = junk
  id1 = id1
  id2 = id2
  id3 = id3
  badId = badId
  None = None
  Certificates <- MCCertificates
  Parseable <- MCParseable
  Authorities <- MCAuthorities
  Ids <- MCIds
  ValidIds <- MCValidIds
  IdLength <- MCIdLength
  MaxVector = 6
  Stores <- MCStores
  AnchorLists <- MCAnchorLists
  Leaves <- MCLeaves
  Intermediates <- MCIntermediates
CHECK_DEADLOCK FALSE
INVARIANTS
  TypesOK
  PublishedIffSound
  PublishedInSourceOrder
  PublishedUnique
  LookupExact
  ConnectedOnlyIfChromiumAccepts
