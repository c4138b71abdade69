SPECIFICATION FairSpec
CONSTANTS
    Rungs <- NoRung
    Levels <- NoRung
    Languages <- OneLanguage
    Source = "source"
    Chapters = {}
    TooLong = {}
    Paras = {p1, p2}
    Starts = 1
    SettleRounds = 1
    SignOffs = {TRUE, FALSE}
    PromoteTo = TRUE
    MaxCrashes = 1
    MaxBreaks = 1
    MaxEdits = 1
    MaxStalls = 1
    MaxTroubles = 4
INVARIANT CorrectedBeforeReady
PROPERTY Finishes
CHECK_DEADLOCK FALSE
