SPECIFICATION DeskSpec
CONSTANTS
    FirstYear = 2018
    LastYear = 2028
    StartYear = 2019
    EndYear = 2027
    ExtraHolidays <- MCExtraHolidays
    ExtraTradingDays <- MCExtraTradingDays
    Roots = {"ES", "NKD", "6E", "ZN", "CL", "GC", "HG", "MBT"}
    Quantities <- MCQuantities
    MaxAbsence = 12
CHECK_DEADLOCK FALSE
INVARIANTS
    RollsInTime
    DeskIsSound
