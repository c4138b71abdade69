SPECIFICATION Spec
CONSTANTS
  b1 = b1
  b2 = b2
  e1 = e1
  e2 = e2
  w1 = w1
  Blocks <- TwoBlocks
  Editors <- TwoEditors
  Workers <- OneWorker
  LastWording = 2
  Flawed <- OnlyTheFirst
  Reverts = FALSE
  Audited = FALSE
  MaxEdits = 2
  MaxEvents = 1
INVARIANTS DerivedIsOfText
PROPERTIES OverItsWords Refreshed
