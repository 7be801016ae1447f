SPECIFICATION Spec
CONSTANTS
  Base = 8
  MaskWidth = 24
  MZone = 4
  SZone = 8
  Informative <- MCInformative
  Batches <- MCBatches
  Entities <- MCEntities
INVARIANTS
  RefusesOnlyTheImpossible
  OffersAreExact
  EngineGetsTheChoice
  FramesCanBeRecorded
CHECK_DEADLOCK FALSE
