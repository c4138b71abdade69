SPECIFICATION Spec
CONSTANTS
    Rungs <- OneRung
    Levels <- OneRung
    Languages <- NoLanguage
    Source = "source"
    Chapters = {1}
    TooLong = {1}
    Paras = {}
    Starts = 1
    SettleRounds = 1
    SignOffs = {TRUE}
    PromoteTo = FALSE
    MaxCrashes = 1
    MaxBreaks = 1
    MaxEdits = 1
    MaxStalls = 1
    MaxTroubles = 1
INVARIANTS TypeOK HeldForAReason
CHECK_DEADLOCK FALSE
