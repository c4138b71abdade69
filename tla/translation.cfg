SPECIFICATION Spec
CONSTANTS
  w1 = w1
  w2 = w2
  Idle = Idle
  Chapters <- TwoChapters
  Workers <- TwoWorkers
  Modes <- Both
  Threads = 2
  MaxSource = 1
  Budgets <- Several
INVARIANTS BilledOnce CancelledStaysIn
PROPERTIES Ends OrderedGoesOut
CHECK_DEADLOCK FALSE
