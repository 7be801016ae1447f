SPECIFICATION EvaluationSpec
CONSTANTS
  None = None
  NotFinite = NotFinite
  Decks <- MCDecks
  Registry <- MCRegistry
  Game <- MCGame
  KeyRank <- MCKeyRank
  Encodable <- MCEncodable
  SmokeCheckpoint = "smoke"
  Profiles <- MCProfiles
  Control <- MCControl
  Contexts <- MCContexts
  Answers <- MCAnswers
  Strays = {"z"}
  MaxFaults = 2
  MaxRuns = 2
INVARIANTS
  TrustedIsEarned
  BlameIsDeserved
  PopulationIsConserved
  AnswersAreCurrent
CHECK_DEADLOCK FALSE
