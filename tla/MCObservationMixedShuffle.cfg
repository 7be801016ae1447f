SPECIFICATION Spec
CONSTANTS
  Base = 8
  DuelFlags = {"pzone"}
  KnownDecks = {"own"}
  Properties <- MCProperties
  Before <- MCBefore
  MonsterSlots = {0, 1}
  SpellSlots = {1, 5}
  Starts <- MCStarts
  MixedShuffle = TRUE
  MaxMoves = 3
INVARIANTS
  HidesWhatIsHidden
CHECK_DEADLOCK FALSE
