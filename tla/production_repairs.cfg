SPECIFICATION Spec
CONSTANTS
    Rungs <- OneRung
    Levels <- OneRung
    Languages <- NoLanguage
    Source = "source"
    Chapters = {}
    TooLong = {}
    Paras = {p1, p2}
    Starts = 1
    SettleRounds = 1
    SignOffs = {TRUE}
    PromoteTo = FALSE
    MaxCrashes = 1
    MaxBreaks = 1
    MaxEdits = 1
    MaxStalls = 0
    MaxTroubles = 1
INVARIANT ReadyIsEarned
CHECK_DEADLOCK FALSE
SYMMETRY Symmetry
