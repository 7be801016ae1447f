SPECIFICATION CollectionSpec
CONSTANTS
  None = None
  Decks <- MCDecks
  Registry <- MCRegistry
  Game <- MCGame
  Controls <- MCControls
  Rosters <- MCRosters
  Altered <- MCAltered
  AlteredEvidence <- MCAlteredEvidence
  Lineups <- MCLineups
  MaxRejections = 1
  Words = 4
  MaxCursor = 5
  LanesPerBlock = 2
INVARIANTS
  HonestIsAdmitted
  AdmittedWasPlayed
  DatasetWasAdmitted
  DrawsAreFair
CHECK_DEADLOCK FALSE
