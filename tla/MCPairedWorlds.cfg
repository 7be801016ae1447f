SPECIFICATION Spec
CONSTANTS
  Base = 8
  DuelFlags = {"pzone"}
  KnownDecks = {"own"}
  Properties <- MCProperties
  Before <- MCBefore
  MonsterSlots = {0, 1}
  SpellSlots = {1, 5}
  Starts <- MCStarts
  MixedShuffle = FALSE
  MaxMoves = 3
INVARIANTS
  HidesWhatIsHidden
  AlwaysPublishable
  TellsWhatIsKnown
CHECK_DEADLOCK FALSE
