SPECIFICATION RiskSpec
CONSTANTS
    KellyPct = 25
    MarginBudgetPct = 50
    LeverageCap = 3
    Kellys <- MCKellys
    Equities = {100, 210}
    Notionals = {60, 90, 150}
    Margins = {7, 30}
    Pin = 0
    MaxSize = 10
CHECK_DEADLOCK FALSE
INVARIANTS
    SizeSurvives
    SizeIsLargest
    DecisionIsSound
PROPERTIES
    Decides
