SPECIFICATION BatchSpec
CONSTANTS
  Base = 8
  Before <- MCBefore
  Vocabulary <- MCVocabulary
  ValidSample <- ValidEncoded
  Frames <- MCFrames
  Made <- MCMade
  Batched <- MCBatched
  Widths <- MCWidths
  MaxSamples = 2
INVARIANTS
  ModelsSeeEverything
  UnpaddingIsExact
  RowIsTheAction
CHECK_DEADLOCK FALSE
