SPECIFICATION Spec
CONSTANTS
  Base = 8
  MaskWidth = 24
  FailureCodes = 4
  Before <- MCBefore
  SeedWords <- MCSeedWords
  Config <- MCConfig
INVARIANTS
  RoundTrip
  ReadersAreStrict
  IdentitiesCoverTheEpisode
CHECK_DEADLOCK FALSE
