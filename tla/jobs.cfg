SPECIFICATION JobsSpec
CONSTANTS
  w1 = w1
  w2 = w2
  e1 = e1
  Nothing = Nothing
  Windows <- TwoWindows
  SplitDepth = 1
  Workers <- TwoWorkers
  MaxAsks = 2
  MaxEdits = 1
  MaxTroubles = 1
  MaxFaults = 1
INVARIANTS WrittenWhole StartsAgain GlossesKept TranslatedHolds ImportsHold PausesHold ReleaseHolds
PROPERTIES TextIsKept PeoplesWord
SYMMETRY WorkerSymmetry
CHECK_DEADLOCK FALSE
