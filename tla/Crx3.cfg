SPECIFICATION Spec
CONSTANTS
  MaxHeaderBytes = 2
  MaxArchiveBytes = 6
  MaxManifestBytes = 2
  MaxCrsBytes = 3
  pinned = pinned
  otherRsa = otherRsa
  ec = ec
  junkKey = junkKey
  ourId = ourId
  otherId = otherId
  None = None
  Garbled = Garbled
  RsaKeys <- MCRsaKeys
  EcdsaKeys <- MCEcdsaKeys
  PinnedKey = pinned
  ComponentId = ourId
  Packages <- MCPackages
CHECK_DEADLOCK FALSE
INVARIANTS
  TypeOK
  AuthenticatedBeforeUnzip
  VerifiedIffSound
  ExtractedWhole
