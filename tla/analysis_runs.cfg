CONSTANTS
    A = A  B = B  C = C  D = D
    a1 = a1  a2 = a2  b2 = b2  c1 = c1
    NoText = NoText
    Texts = {A, D}
    Windows = {a1, a2, c1}
    Workers = {w1, w2}
    Plan <- PlanOfTexts
    Place <- PlaceOfWindows
    Phrase <- ByAPhrase
    LeaseTicks = 2
    OldTicks = 3
    MaxTries = 3
    Prompt = FALSE
    Losses = {"restart", "killed", "dispatch"}
    MaxClaims = 2
    MaxAsks = 2
    MaxEdits = 1
    MaxLosses = 1
SPECIFICATION Spec
INVARIANTS TypeOK SucceededIsRead PurgedIsGone
PROPERTIES SettledByItsHolder
CHECK_DEADLOCK FALSE
SYMMETRY Symmetry
