---------------------------- MODULE RollExecutor ----------------------------
(***************************************************************************)
(* The roll calendar derived from the exchange's expiry rules and the roll  *)
(* decisions taken from it.  A contract is a root, a delivery month and the *)
(* two digits of its year, as in its symbol.  The desk that executes the    *)
(* decisions may be absent for some trading days.                           *)
(***************************************************************************)
EXTENDS TradingCalendar

CONSTANTS
    Roots,          \* the roots followed
    StartYear,      \* build_static_calendar's years
    EndYear,
    Quantities,     \* signed sizes held
    MaxAbsence      \* bound: trading days in a row without a decision

ASSUME RollAssumption ==
    /\ StartYear \in Nat /\ EndYear \in Nat
    /\ FirstYear < StartYear /\ StartYear <= EndYear /\ EndYear < LastYear
    /\ Quantities \subseteq Int /\ MaxAbsence \in Nat
    /\ Roots \cap {"MES", "MNQ", "MCL", "MGC"} = {}   \* these have a cycle, but build raises

------------------------------------------------------------------------------
(* Contracts and cycles *)

EquityRoots == {"ES", "NQ", "YM", "RTY", "NKD"}
FxRoots == {"6E", "6A", "6J", "6B", "6C", "6S"}
RatesRoots == {"ZN", "ZB", "ZT", "ZF", "UB"}
MetalRoots == {"GC", "HG", "SI"}
CryptoRoots == {"MBT", "MET"}

Quarterly == <<3, 6, 9, 12>>
Monthly == [i \in 1 .. 12 |-> i]
BiMonthly == <<2, 4, 6, 8, 10, 12>>
Hknuz == <<3, 5, 7, 9, 12>>

RootCycle(root) ==
    CASE root \in EquityRoots \cup FxRoots \cup RatesRoots \cup {"MES", "MNQ"} -> Quarterly
      [] root \in CryptoRoots \cup {"CL", "MCL"} -> Monthly
      [] root \in {"GC", "MGC"} -> BiMonthly
      [] root \in {"HG", "SI"} -> Hknuz

Contract(root, month, year) == [root |-> root, month |-> month, yy |-> year % 100]

ExpandYear(yy) == IF yy <= 49 THEN 2000 + yy ELSE 1900 + yy
YearOf(c) == ExpandYear(c.yy)

(* The next month of the cycle; past its end the first one of the next year. *)
NextContract(c) ==
    LET cycle == RootCycle(c.root)
        later == {m \in {cycle[i] : i \in DOMAIN cycle} : m > c.month}
    IN IF later # {} THEN Contract(c.root, Min(later), YearOf(c))
       ELSE Contract(c.root, cycle[1], YearOf(c) + 1)

------------------------------------------------------------------------------
(* RollCalendarBuilder *)

RollSpec(root) ==
    CASE root \in EquityRoots \cup FxRoots -> [anchor |-> "LTD", target |-> 5, deadline |-> 2]
      [] root \in RatesRoots -> [anchor |-> "FND", target |-> 5, deadline |-> 2]
      [] root = "CL" -> [anchor |-> "LTD", target |-> 5, deadline |-> 3]
      [] root \in MetalRoots -> [anchor |-> "FND", target |-> 7, deadline |-> 3]
      [] root \in CryptoRoots -> [anchor |-> "LTD", target |-> 7, deadline |-> 3]

NoDate == 0         \* a contract without a first notice day

Guard(d) == IF IsTradingDay(d) THEN d ELSE PrevTradingDay(d)
MonthBefore(y, m) == IF m = 1 THEN <<y - 1, 12>> ELSE <<y, m - 1>>
LastTradingDay(y, m) == Guard(Date(y, m, DaysInMonth(y, m)))
LastBefore(y, m) == LastTradingDay(MonthBefore(y, m)[1], MonthBefore(y, m)[2])

DeriveEquity(root, m, y) ==
    [ltd |-> IF root = "NKD" THEN PrevTradingDay(NthWeekday(y, m, Friday, 2))
             ELSE Guard(NthWeekday(y, m, Friday, 3)),
     fnd |-> NoDate]
DeriveFx(m, y) ==
    [ltd |-> SubtractTradingDays(Guard(NthWeekday(y, m, Wednesday, 3)), 2), fnd |-> NoDate]
DeriveRates(m, y) ==
    [ltd |-> SubtractTradingDays(LastTradingDay(y, m), 7), fnd |-> LastBefore(y, m)]
DeriveCl(m, y) ==
    LET base == Guard(Date(MonthBefore(y, m)[1], MonthBefore(y, m)[2], 25))
        ltd == SubtractTradingDays(base, 3)
    IN [ltd |-> ltd, fnd |-> AddTradingDays(ltd, 2)]
DeriveGc(m, y) ==
    [ltd |-> PrevTradingDay(PrevTradingDay(LastTradingDay(y, m))), fnd |-> LastBefore(y, m)]
DeriveCrypto(m, y) == [ltd |-> Guard(LastWeekday(y, m, Friday)), fnd |-> NoDate]

Derive(root, m, y) ==
    CASE root \in EquityRoots -> DeriveEquity(root, m, y)
      [] root \in FxRoots -> DeriveFx(m, y)
      [] root \in RatesRoots -> DeriveRates(m, y)
      [] root = "CL" -> DeriveCl(m, y)
      [] root \in MetalRoots -> DeriveGc(m, y)
      [] root \in CryptoRoots -> DeriveCrypto(m, y)

RollWindow(c, spec, days) ==
    LET anchor == IF spec.anchor = "LTD" THEN days.ltd ELSE days.fnd
        deadline == SubtractTradingDays(anchor, spec.deadline)
    IN [front |-> c, back |-> NextContract(c), ltd |-> days.ltd, fnd |-> days.fnd,
        target |-> SubtractTradingDays(anchor, spec.target),
        deadline |-> IF c.root = "CL" THEN Min({deadline, PrevTradingDay(days.fnd)})
                     ELSE deadline]

Build(c) == RollWindow(c, RollSpec(c.root), Derive(c.root, c.month, YearOf(c)))

BuildCycle(root) ==
    {Contract(root, m, y) : m \in {RootCycle(root)[i] : i \in DOMAIN RootCycle(root)},
                            y \in StartYear .. EndYear}

(* build_static_calendar, for every root *)
Fronts == UNION {BuildCycle(root) : root \in Roots}
Calendar == [c \in Fronts |-> Build(c)]

(* The windows of a set of contracts; those the calendar does not know have none. *)
Windows(contracts) == {Calendar[c] : c \in contracts \cap Fronts}

(* RollCalendarEntry.__post_init__ raises unless its dates are in order. *)
Ordered(b) == b.target <= b.deadline /\ b.deadline <= b.ltd

------------------------------------------------------------------------------
(* decide_rolls *)

Method(b, divergent, bag) ==
    IF ~divergent /\ bag THEN "CALENDAR_SPREAD" ELSE "SEQUENTIAL"

(* The positions that are not flat, each with its entry of the calendar. *)
Entries(positions) ==
    UNION {{[b |-> b, qty |-> p.qty] : b \in Windows({p.contract})} :
              p \in {q \in positions : q.qty # 0}}

Decision(b, qty, day, method) ==
    [front |-> b.front, back |-> b.back, qty |-> qty, method |-> method,
     date |-> day, deadline |-> b.deadline]

\* Mutant: the roll starts the day after its target.
DecideRollsLate(day, positions, divergent, bag) ==
    {Decision(w.b, w.qty, day, "SEQUENTIAL") :
        w \in {v \in Entries(positions) : v.b.target < day}}

\* Mutant: past its deadline a roll is no longer decided.
DecideRollsInWindow(day, positions, divergent, bag) ==
    {Decision(w.b, w.qty, day, Method(w.b, divergent, bag)) :
        w \in {v \in Entries(positions) : v.b.target <= day /\ day <= v.b.deadline}}

DecideRolls(day, positions, divergent, bag) ==
    {Decision(w.b, w.qty, day,
              IF day <= w.b.deadline THEN Method(w.b, divergent, bag)
              ELSE "SEQUENTIAL_EMERGENCY") :
        w \in {v \in Entries(positions) : v.b.target <= day}}

(* ContinuousSeriesBuilder: a contract is spliced in from the roll target of the *)
(* one before it up to its own, which is the first day of the next.              *)
FirstToRoll(windows) ==
    CHOOSE b \in windows : \A w \in windows : b.target <= w.target
ActiveContract(root, day) ==
    FirstToRoll({b \in Windows(BuildCycle(root)) : day < b.target}).front

------------------------------------------------------------------------------
(* A desk that holds one position and executes what is decided. *)

VARIABLES
    today,          \* a trading day
    position,       \* the contract and the signed size held
    attended,       \* the last day on which decide_rolls was called
    absent,         \* trading days since
    decisions       \* what it returned then

deskVars == <<today, position, attended, absent, decisions>>

FirstDay == Min(TradingDaysOf(StartYear))
LastDay == Max(TradingDaysOf(EndYear))

DeskInit ==
    /\ today = FirstDay
    /\ position \in {[contract |-> ActiveContract(root, today), qty |-> q] :
                        root \in Roots, q \in Quantities}
    /\ attended = 0
    /\ absent = 0
    /\ decisions = {}

(* The decisions of today, each executed: the size moves to the back contract. *)
Attend ==
    /\ attended # today
    /\ \E divergent, bag \in BOOLEAN :
         decisions' = DecideRolls(today, {position}, divergent, bag)
    /\ position' = IF decisions' = {} THEN position
                   ELSE LET d == CHOOSE d \in decisions' : TRUE
                        IN [contract |-> d.back, qty |-> d.qty]
    /\ attended' = today
    /\ absent' = 0
    /\ UNCHANGED today

NextDay ==
    /\ today < LastDay
    /\ attended = today \/ absent < MaxAbsence
    /\ today' = NextTradingDay(today)
    /\ absent' = IF attended = today THEN 0 ELSE absent + 1
    /\ decisions' = {}
    /\ UNCHANGED <<position, attended>>

DeskNext == Attend \/ NextDay

DeskSpec == DeskInit /\ [][DeskNext]_deskVars

------------------------------------------------------------------------------
(* Properties *)

\* The window of the contract held, unless flat or past the calendar.
HeldWindow == {w.b : w \in Entries({position})}

(* Every date is a trading day, every window of the calendar is one that      *)
(* RollCalendarEntry accepts, and a decision is about the contract it closes. *)
RollTypeOK ==
    /\ IsTradingDay(today) /\ absent \in 0 .. MaxAbsence + 1
    /\ \A b \in Windows({position.contract}) :
          Ordered(b) /\ IsTradingDay(b.target) /\ IsTradingDay(b.deadline)
    /\ \A d \in decisions : d.back = position.contract /\ d.back = NextContract(d.front)

(* The first day on which a contract delivers, or no longer trades. *)
Delivery(b) == IF b.fnd = NoDate THEN b.ltd + 1 ELSE Min({b.fnd, b.ltd + 1})

(* A position is carried past its last trading day, or into its notice period, *)
(* only if nobody called decide_rolls on any day of its roll window, which     *)
(* lies before delivery for every root, holidays and weekends included.        *)
FlatBeforeDelivery ==
    \A b \in HeldWindow :
        today >= Delivery(b) => attended < b.target /\ b.deadline < Delivery(b)

(* SEQUENTIAL_EMERGENCY is decided only after an absence that covers the whole *)
(* window: a roll never lands in a contract whose own window is already over.  *)
EmergencyIsAbsence ==
    \A b \in HeldWindow : today > b.deadline => attended < b.target

(* Backtest is live: whenever the desk has acted, it holds the contract that   *)
(* ContinuousSeriesBuilder splices in for that day, after an absence as well.  *)
DeskHoldsSeries ==
    \A b \in HeldWindow : attended = today => b.front = ActiveContract(b.front.root, today)

(* The closures of a year are distinct weekdays: an observed date never falls  *)
(* on a weekend or on another holiday, and Good Friday is a Friday.            *)
HolidaysDistinct ==
    \A y \in {y \in Years : Date(y, 1, 1) <= today /\ today <= Date(y, 12, 31)} :
        /\ Cardinality(AnchoredHolidays(y)) = IF y >= JuneteenthFirstYear THEN 10 ELSE 9
        /\ \A d \in AnchoredHolidays(y) : Weekday(d) < Saturday
        /\ Weekday(GoodFriday(y)) = Friday

(* A desk that attends is out of a contract in time: neither delivery nor an  *)
(* emergency roll happens to it without an absence over the whole window.     *)
RollsInTime == FlatBeforeDelivery /\ EmergencyIsAbsence

(* The desk and the continuous series agree, on dates the calendar trades and *)
(* over years whose closures are distinct weekdays.                           *)
DeskIsSound == RollTypeOK /\ DeskHoldsSeries /\ HolidaysDistinct

(* What the desk needs of a calendar: every window is accepted and lies before *)
(* delivery, the market does not close for longer than next_trading_day looks, *)
(* and the windows of a root follow each other as its contracts do, further    *)
(* apart than the longest absence.                                             *)
CalendarFits ==
    /\ TradingDaysOf(StartYear) # {}
    /\ \A d \in TradingDays :
          d < LastDay => \E t \in TradingDays : d < t /\ t <= d + MaxCalendarSteps(1)
    /\ \A c \in Fronts :
          LET b == Calendar[c]
          IN /\ Ordered(b) /\ b.deadline < Delivery(b)
             /\ IsTradingDay(b.target) /\ IsTradingDay(b.deadline)
    /\ \A root \in Roots :
          /\ \E c \in BuildCycle(root) : FirstDay < Calendar[c].target
          /\ \A c, w \in BuildCycle(root) : Calendar[c].target = Calendar[w].target => c = w
    /\ \A c \in Fronts : NextContract(c) \in Fronts =>
          LET from == Calendar[c].target
              to == Calendar[NextContract(c)].target
          IN /\ Cardinality({t \in TradingDays : from <= t /\ t < to}) > MaxAbsence + 1
             /\ \A w \in BuildCycle(c.root) : Calendar[w].target <= from \/ to <= Calendar[w].target

=============================================================================
