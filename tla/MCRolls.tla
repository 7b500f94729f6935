------------------------------- MODULE MCRolls -------------------------------
(* One root for every derivation rule and cycle, over years with leap days, the *)
(* first Juneteenth, New Year on a weekend and an early and a late Easter.      *)
EXTENDS RollExecutor

\* A product closure just before a roll window and a Saturday that trades.
MCExtraHolidays == {Date(2023, 6, 6)}
MCExtraTradingDays == {Date(2026, 6, 6)}
MCQuantities == {-1, 0}

\* The proofs' hypothesis on the calendar holds of the computed one.
ASSUME MCCalendarFits == CalendarFits
==============================================================================
