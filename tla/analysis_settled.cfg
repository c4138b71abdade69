CONSTANTS
    A = A  B = B  C = C  D = D
    a1 = a1  a2 = a2  b2 = b2  c1 = c1
    NoText = NoText
    Texts = {A, B}
    Windows = {a1, a2, b2}
    Workers = {w1, w2}
    Plan <- PlanOfTexts
    Place <- PlaceOfWindows
    Phrase <- NoPhrase
    LeaseTicks = 2
    OldTicks = 3
    MaxTries = 3
    Prompt = TRUE
    Losses = {"restart"}
    MaxClaims = 3
    MaxAsks = 1
    MaxEdits = 1
    MaxLosses = 1
SPECIFICATION FairSpec
CHECK_DEADLOCK FALSE
INVARIANT ReadOnce
PROPERTY AskedIsSettled
