SPECIFICATION Spec
CONSTANTS
  original = original
  adapted = adapted
  None = None
  Editions <- OneWork
  Source <- MadeFrom
  MaxMeta = 1
  MaxOrigin = 1
  MaxFacts = 1
  MaxAsks = 4
  MaxRetries = 2
  MaxLost = 2
  MaxCrashes = 1
INVARIANTS ShownIsBacked StaleIsSeen
PROPERTY RemovalEnds
CHECK_DEADLOCK FALSE
