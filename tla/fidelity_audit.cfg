CONSTANTS
    m = m  n = n  a1 = a1  a2 = a2
    Blocks = {1, 2}
    Issues = {m, n}
    At <- AtOf
    Sees <- SeesOf
    Material = {m}
    Suggested = {m, n}
    Seats <- OneOrTwo
    Workers = {w1, w2}
    Prompt = TRUE
    Reverts = FALSE
    MaxRuns = 2
    MaxAsks = 2
    MaxEdits <- EditsOf
    MaxDecisions <- DecisionsOf
    MaxLosses <- LossOfOne
SPECIFICATION Spec
SYMMETRY Alike
INVARIANTS GateIsRead NothingStuck
PROPERTIES SettledStays CarriedWhole
CHECK_DEADLOCK FALSE
