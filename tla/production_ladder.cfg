SPECIFICATION Spec
CONSTANTS
    Rungs <- TwoRungs
    Levels <- TwoRungs
    Languages <- NoLanguage
    Source = "source"
    Chapters = {}
    TooLong = {}
    Paras = {}
    Starts = 1
    SettleRounds = 0
    SignOffs = {TRUE}
    PromoteTo = FALSE
    MaxCrashes = 1
    MaxBreaks = 1
    MaxEdits = 1
    MaxStalls = 1
    MaxTroubles = 1
PROPERTY LadderKept
CHECK_DEADLOCK FALSE
