----------------------------- MODULE PointInTime -----------------------------
(***************************************************************************)
(* The point-in-time sources: the weekly COT report of the CFTC            *)
(* (cot_source.py, sources/cftc.py) and a monthly macro series, from the   *)
(* vintages of FRED (sources/fred_macro.py) and from the latest figures of *)
(* BLS (sources/bls_macro.py).  A backtest asks what was known at a past   *)
(* moment while the publishers go on publishing, late at times, revising   *)
(* and voiding what they published.                                        *)
(*                                                                         *)
(* A day has two moments: before and at the release time (15:30 or 8:30    *)
(* ET, one time for all series).  What is published becomes visible at the *)
(* release time of the day of its publication.                             *)
(***************************************************************************)
EXTENDS Integers, FiniteSets, FiniteSetsExt

CONSTANTS
    WeekLength,         \* days in a week, the last two of them the weekend
    MonthLength,        \* days in a month
    ReleaseDay,         \* day of the next month on which a month is due
    Series,             \* the macro series asked for
    Values,             \* headline numbers
    Missing,            \* "." or a blank: no number for this month
    Lookback,           \* _OBS_LOOKBACK_LIMIT: observations FRED is asked for
    MayBeLate,          \* BOOLEAN: a release may come after the day it is due
    MaxDay,             \* bound: days
    MaxRevisions,       \* bound: revised figures
    MaxAsked            \* bound: live questions

ASSUME PointInTimeAssumption ==
    /\ WeekLength \in Nat /\ WeekLength >= 4
    /\ MonthLength \in Nat \ {0}
    /\ ReleaseDay \in 0 .. MonthLength - 1
    /\ Missing \notin Values
    /\ Lookback \in Nat \ {0}
    /\ MayBeLate \in BOOLEAN
    /\ MaxDay \in Nat /\ MaxRevisions \in Nat /\ MaxAsked \in Nat

VARIABLES
    clock,              \* moments since the first day
    reports,            \* COT reports published: date of the snapshot, moment
    vintages,           \* macro figures published: reference month, day, value
    asked               \* history: the answers given live

vars == <<clock, reports, vintages, asked>>

Days == 0 .. MaxDay
Moments == 0 .. 2 * MaxDay + 1
Day(t) == t \div 2
AtRelease(d) == 2 * d + 1           \* datetime.combine(d, RELEASE_TIME_ET)
Month(d) == d \div MonthLength
Weekday(d) == d % WeekLength
Friday == WeekLength - 3
None == [none |-> TRUE]
Raised == [raised |-> TRUE]         \* a DataSourceError instead of an answer

(* COTReport and MacroValue: every record carries the moment it was known. *)
Reports == [date : Days, at : Moments]
MacroValues == [month : 0 .. Month(MaxDay), value : Values, knownAt : Moments]

Init ==
    /\ clock = 0
    /\ reports = {}
    /\ vintages = {}
    /\ asked = {}

------------------------------------------------------------------------------
(* COT *)

\* Mutant: the Tuesday of the snapshot taken for the day of the release.
ValueKnownAtForReportSnapshot(d) == AtRelease(d)

(* value_known_at_for_report: the Friday of the snapshot's own week. *)
ValueKnownAtForReport(d) == AtRelease(d + Friday - Weekday(d))

\* Mutant: the gate forgotten.
EnforceCotPitGateOpen(r, asOf) == TRUE

(* enforce_cot_pit_gate. *)
EnforceCotPitGate(r, asOf) == ValueKnownAtForReport(r.date) <= asOf

(* fetch_reports, of the live source over what is published and of the one  *)
(* in memory over what it was given.                                        *)
FetchReports(source, start, end) == {r \in source : r.date \in start .. end}

(* reports_known_at, since the first day. *)
ReportsKnownAt(source, asOf) ==
    {r \in FetchReports(source, 0, Day(asOf)) : EnforceCotPitGate(r, asOf)}

(* A transport error, malformed JSON, a column of the schema missing or a    *)
(* position that is no number: one bad row and the call raises.              *)
CotAnswers(asOf) == {ReportsKnownAt(reports, asOf), {Raised}}

------------------------------------------------------------------------------
(* Macro values *)

(* FRED_SERIES_MAP and BLS_SERIES_MAP; a source has no value for the others. *)
FredSeries == {"NFP", "CPI", "PPI", "GDP_ADVANCE", "PCE", "RETAIL_SALES",
               "HOUSING_STARTS", "JOBLESS_CLAIMS", "JOLTS"}
BlsSeries == {"NFP", "CPI", "PPI"}

(* enforce_pit_gate. *)
EnforcePitGate(v, asOf) ==
    IF v = None THEN None ELSE IF v.knownAt > asOf THEN None ELSE v

(* series/observations with realtime_start = realtime_end = d: for each month *)
(* the figure that was current on day d, the newest Lookback months of them.  *)
Observations(d) ==
    LET current == {v \in vintages : /\ v.day <= d
                                     /\ \A w \in vintages : w.month = v.month /\ w.day <= d
                                                            => w.day <= v.day}
    IN {v \in current : Cardinality({w \in current : w.month > v.month}) < Lookback}

Newest(points) == CHOOSE v \in points : \A w \in points : w.month <= v.month

(* When the vintage of an observation became known. *)
FredKnownAt(v) == AtRelease(v.day)

(* The observations that are not ".". *)
FredNumbers(d) == {v \in Observations(d) : v.value # Missing}

(* FredMacroSource.fetch_value: the newest month with a number. *)
FredFetchValue(asOf) ==
    LET numbers == FredNumbers(Day(asOf))
    IN IF Series \notin FredSeries \/ numbers = {} THEN None
       ELSE LET v == Newest(numbers)
            IN EnforcePitGate([month |-> v.month, value |-> v.value,
                               knownAt |-> FredKnownAt(v)], asOf)

(* Transport and shape errors raise. *)
FredAnswers(asOf) == {FredFetchValue(asOf), Raised}

(* The answer of BLS: the latest figure of every month. *)
Timeseries ==
    {v \in vintages : \A w \in vintages : w.month = v.month => w.day <= v.day}

(* _latest_monthly_point: the newest one with a number. *)
LatestMonthlyPoint ==
    LET points == {v \in Timeseries : v.value # Missing}
    IN IF points = {} THEN None ELSE Newest(points)

\* Mutant: the last day of the reference month itself.
ConservativePublicationBoundEarly(m) == AtRelease((m + 1) * MonthLength - 1)

(* _conservative_publication_bound: the last day of the following month. *)
ConservativePublicationBound(m) == AtRelease((m + 2) * MonthLength - 1)

(* The calendar, which a release_lookup is built on. *)
Due(m) == (m + 1) * MonthLength + ReleaseDay

(* BlsMacroSource.fetch_value, with and without a release_lookup. *)
BlsFetchValue(asOf, lookup) ==
    LET v == LatestMonthlyPoint
    IN IF Series \notin BlsSeries \/ v = None THEN None
       ELSE EnforcePitGate([month |-> v.month, value |-> v.value,
                            knownAt |-> IF lookup THEN AtRelease(Due(v.month))
                                        ELSE ConservativePublicationBound(v.month)], asOf)

(* Transport errors, a status other than success and shape errors raise. *)
BlsAnswers(asOf, lookup) == {BlsFetchValue(asOf, lookup), Raised}

(* start <= release_dt < end. *)
InWindow(t, start, end) == start <= t /\ t < end

(* upcoming_events: the release dates between the two dates, in the window. *)
UpcomingEvents(start, end) ==
    {AtRelease(Due(m)) : m \in {m \in 0 .. Month(MaxDay) :
        /\ Due(m) \in Day(start) .. Day(end)
        /\ InWindow(AtRelease(Due(m)), start, end)}}

------------------------------------------------------------------------------
(* The publishers *)

Weeks == 0 .. MaxDay \div WeekLength
Reported(w) == \E r \in reports : r.date \div WeekLength = w

(* The reports that may come out on day d: of this week (its Monday or its   *)
(* Tuesday) on Friday, of an earlier week when they are late.                *)
ReportsOn(d) ==
    {{}} \cup
    {{[date |-> w * WeekLength + day, at |-> AtRelease(d)]} : w \in {w \in Weeks :
        /\ ~Reported(w)
        /\ \/ d = w * WeekLength + Friday
           \/ MayBeLate /\ d > w * WeekLength + Friday}, day \in {0, 1}}

(* A Friday without the report of its week makes it late. *)
Misses(d, out) == Weekday(d) = Friday /\ out = {}

Printed(m) == \E v \in vintages : v.month = m
Revisions == Cardinality(vintages) - Cardinality({v.month : v \in vintages})

(* The figures that may come out on day d: the first print of a month, or   *)
(* its void, and a revision of an earlier print.                            *)
PrintsOn(d) ==
    {{}} \cup
    {{[month |-> m, day |-> d, value |-> x]} : m \in {m \in 0 .. Month(MaxDay) :
        /\ ~Printed(m) /\ \A k \in 0 .. m - 1 : Printed(k)
        /\ d = Due(m) \/ (MayBeLate /\ d > Due(m))}, x \in Values \cup {Missing}}

RevisionsOn(d) ==
    {{}} \cup
    {{[month |-> m, day |-> d, value |-> x]} : m \in {m \in 0 .. Month(MaxDay) :
        Printed(m) /\ Revisions < MaxRevisions}, x \in Values}

Tick ==
    /\ clock + 1 \in Moments
    /\ clock' = clock + 1
    /\ IF clock' = AtRelease(Day(clock'))
       THEN \E out \in ReportsOn(Day(clock')), print \in PrintsOn(Day(clock')),
               revision \in RevisionsOn(Day(clock')) :
               /\ MayBeLate \/ ~Misses(Day(clock'), out)
               /\ reports' = reports \cup out
               /\ vintages' = vintages \cup print \cup revision
       ELSE UNCHANGED <<reports, vintages>>
    /\ UNCHANGED asked

(* A live decision; an error of one source ends it. *)
Ask ==
    /\ Cardinality(asked) < MaxAsked
    /\ \E cot \in CotAnswers(clock), fred \in FredAnswers(clock), bls \in BlsAnswers(clock, TRUE) :
          /\ {Raised} \in {cot, {fred}, {bls}} => {cot, {fred}, {bls}} = {{Raised}}
          /\ asked' = asked \cup {[asOf |-> clock, cot |-> cot, fred |-> fred, bls |-> bls]}
    /\ UNCHANGED <<clock, reports, vintages>>

Next == Tick \/ Ask

Spec == Init /\ [][Next]_vars

------------------------------------------------------------------------------
(* Properties *)

Past == 0 .. clock

LateReport(r) == r.at > AtRelease((r.date \div WeekLength) * WeekLength + Friday)
FirstPrint(m) == Min({v.day : v \in {v \in vintages : v.month = m}})
LatePrint(m) == FirstPrint(m) > Due(m)

(* Every variable has its shape: one report a week, one figure a month and day, *)
(* and an answer is a record, none, or an error.                                *)
TypeOK ==
    /\ clock \in Moments
    /\ reports \subseteq Reports /\ \A r \in reports : r.at \in Past
    /\ \A r, q \in reports : r.date \div WeekLength = q.date \div WeekLength => r = q
    /\ \A v \in vintages : /\ v.month \in 0 .. Month(MaxDay) /\ AtRelease(v.day) \in Past
                           /\ v.value \in Values \cup {Missing}
    /\ \A v, w \in vintages : v.month = w.month /\ v.day = w.day => v = w
    /\ \A a \in asked : /\ a.asOf \in Past
                        /\ a.cot \subseteq reports \cup {Raised}
                        /\ {a.fred, a.bls} \subseteq MacroValues \cup {None, Raised}

(* The backtest decides on what the live run decided on: the reports known at *)
(* a past moment are the ones that were shown at that moment.                  *)
CotBacktestIsLive ==
    \A a \in asked : a.cot # {Raised} =>
                     LET now == ReportsKnownAt(reports, a.asOf)
                     IN a.cot \subseteq now /\ now \ a.cot \subseteq {r \in now : LateReport(r)}

(* ALFRED vintages make macro values point-in-time: asked later about a moment *)
(* of a live decision, FRED gives the value that decision saw, whatever was     *)
(* revised, delayed or voided since, or withholds it.                           *)
FredBacktestIsLive ==
    \A a \in asked : a.fred # Raised => FredFetchValue(a.asOf) \in {a.fred, None}

(* And it withholds no more than it must: when FRED has no value for a moment  *)
(* although a number of an earlier day existed, a figure comes out later on    *)
(* that very day, or the last months it looks at are all void.                 *)
FredWithholds ==
    \A t \in Past : FredFetchValue(t) = None =>
        LET older == {v \in vintages : v.day < Day(t)}
        IN \/ \E v \in vintages : v.day = Day(t) /\ AtRelease(v.day) > t
           \/ \A v \in Observations(Day(t)) : v.value = Missing
           \/ older = {}

(* Asked at one moment the two sources tell the same: when both have a value   *)
(* it is the same figure of the same month.                                    *)
SourcesAgreeLive ==
    \A a \in asked : {a.fred, a.bls} \subseteq MacroValues =>
        a.bls.month = a.fred.month /\ a.bls.value = a.fred.value

(* BLS never shows a month before its first print, with the calendar or with   *)
(* the conservative bound, as long as that print was not delayed.              *)
BlsNoLookAhead ==
    \A t \in Past, lookup \in BOOLEAN :
        LET b == BlsFetchValue(t, lookup)
        IN b # None => LatePrint(b.month) \/ AtRelease(FirstPrint(b.month)) <= t

(* Consecutive windows of upcoming_events tile time: every release is in       *)
(* exactly one of them, at the boundary too.                                   *)
CalendarTiles ==
    \A t \in 1 .. clock - 1 :
        /\ UpcomingEvents(0, t) \cup UpcomingEvents(t, clock) = UpcomingEvents(0, clock)
        /\ UpcomingEvents(0, t) \cap UpcomingEvents(t, clock) = {}

(* Asked again about a past moment, every source tells what it told then, and *)
(* the two that publish one figure tell the same.                             *)
BacktestIsLive == TypeOK /\ CotBacktestIsLive /\ FredBacktestIsLive /\ SourcesAgreeLive

(* Nothing is shown early, nothing withheld without need, no release lost or  *)
(* shown twice at the boundary of two windows.                                *)
NothingIsEarly == BlsNoLookAhead /\ FredWithholds /\ CalendarTiles

==============================================================================
