SPECIFICATION IntakeSpec
CONSTANTS
  b1 = b1
  b2 = b2
  w1 = w1
  w2 = w2
  Nobody = Nobody
  Books <- TwoBooks
  MaxBooks = 1
  Retries = 1
  Promote = TRUE
  MaxAsks = 0
  MaxCrashes = 1
  MaxLosses = 1
  MaxTroubles = 1
INVARIANTS PlacesMove ShelfHasText ToldAsEnded FloorHolds InputsFit
SYMMETRY Symmetry
CHECK_DEADLOCK FALSE
