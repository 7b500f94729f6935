----------------------------- MODULE PaperLedger -----------------------------
(***************************************************************************)
(* PaperLedger: one JSON line per trading session, appended to a file that *)
(* outlives the process, and the decay monitor that reads the series back. *)
(* A crash, or a full disk, may leave the line out, write a part of it, or *)
(* all of it but the newline.  Prices, contracts and cost of a session are *)
(* left out: nothing is computed from them.                                *)
(***************************************************************************)
EXTENDS Integers, Sequences, SequencesExt, Functions

CONSTANTS
    Dates,              \* session dates
    PnLs,               \* net PnL of a session
    RollingWindow,      \* sessions of the trailing Sharpe
    MinSessions         \* sessions before the verdict means anything

ASSUME LedgerAssumption ==
    /\ Dates \subseteq Nat /\ PnLs \subseteq Int
    /\ RollingWindow \in Nat \ {0} /\ MinSessions \in Nat

VARIABLES
    lines,              \* the complete rows of the file, in order
    ending,             \* "newline", "bare" (the newline is missing) or
                        \* "garbage" (some line is not one JSON object)
    record,             \* the record() call in progress
    recorded            \* history: sessions whose record() returned

ledgerVars == <<lines, ending, record, recorded>>

(* PaperSession, to_json, from_json: decimals as strings, dates as ISO. *)
Sessions == [date : Dates, pnl : PnLs, cumulative : Int]

NoRecord == [pc |-> "idle", row |-> [date |-> 0, pnl |-> 0, cumulative |-> 0]]

LedgerInit ==
    /\ lines = <<>>
    /\ ending = "newline"
    /\ record = NoRecord
    /\ recorded = {}

(* read(): json.loads raises on a line that is not one object. *)
Readable == ending # "garbage"

\* Mutant: only an earlier date is refused.
ChronologicalLoose(d) == lines # <<>> => d >= Last(lines).date

Chronological(d) == lines # <<>> => d > Last(lines).date

Cumulative(pnl) == (IF lines = <<>> THEN 0 ELSE Last(lines).cumulative) + pnl

(* record(), up to the append. *)
Record(d, pnl) ==
    /\ record.pc = "idle"
    /\ Readable
    /\ Chronological(d)
    /\ record' = [pc |-> "append", row |-> [date |-> d, pnl |-> pnl, cumulative |-> Cumulative(pnl)]]
    /\ UNCHANGED <<lines, ending, recorded>>

(* append(): the line goes to the end of the file, behind a bare row onto    *)
(* the line of that row.                                                     *)
Append1 ==
    IF ending = "bare"
    THEN lines' = Front(lines) /\ ending' = "garbage"
    ELSE lines' = Append(lines, record.row) /\ ending' = "newline"

Appended ==
    /\ record.pc = "append"
    /\ Append1
    /\ recorded' = recorded \cup {record.row}
    /\ record' = NoRecord

(* The write breaks off: nothing, a part, or all but the newline is on disk. *)
BreaksOff ==
    /\ record.pc = "append"
    /\ \/ UNCHANGED <<lines, ending>>
       \/ ending = "newline" /\ ending' = "garbage" /\ UNCHANGED lines
       \/ ending = "newline" /\ ending' = "bare" /\ lines' = Append(lines, record.row)
       \/ ending = "bare" /\ ending' = "garbage" /\ lines' = Front(lines)
    /\ record' = NoRecord
    /\ UNCHANGED recorded

LedgerNext ==
    \/ \E d \in Dates, pnl \in PnLs : Record(d, pnl)
    \/ Appended \/ BreaksOff

------------------------------------------------------------------------------
(* assess_decay over pnl_series() *)

PnlSeries == [i \in DOMAIN lines |-> lines[i].pnl]
CumulativePnl == IF lines = <<>> THEN 0 ELSE Last(lines).cumulative

Sum(pnl) == SumFunction(pnl)

(* _sharpe, of which only the sign is looked at: undefined below two sessions *)
(* or when they are all equal.                                                *)
Undefined == "undefined"
SharpeSign(pnl) ==
    IF Len(pnl) < 2 \/ \A i \in DOMAIN pnl : pnl[i] = pnl[1] THEN Undefined
    ELSE IF Sum(pnl) > 0 THEN "positive" ELSE "not positive"

Larger(m, n) == IF m < n THEN n ELSE m

(* _max_drawdown. *)
MaxDrawdown(pnl) ==
    FoldLeft(LAMBDA acc, x :
                LET cum == acc.cum + x
                    peak == Larger(acc.peak, cum)
                IN [cum |-> cum, peak |-> peak, mdd |-> Larger(acc.mdd, peak - cum)],
             [cum |-> 0, peak |-> 0, mdd |-> 0], pnl).mdd

Recent(pnl) == SubSeq(pnl, Larger(1, Len(pnl) - RollingWindow + 1), Len(pnl))

Verdict(pnl) ==
    IF Len(pnl) < MinSessions THEN "warming_up"
    ELSE IF Sum(pnl) <= 0 \/ SharpeSign(Recent(pnl)) = "not positive" THEN "decayed"
    ELSE "healthy"

------------------------------------------------------------------------------
(* Properties *)

(* A session counts once: as long as the ledger can be read, every recorded    *)
(* session is in it, and no date occurs twice, although a run that crashed     *)
(* after its line was written records the same date again.                     *)
CountedOnce ==
    /\ \A i \in DOMAIN lines : lines[i] \in Sessions
    /\ Readable => recorded \subseteq ToSet(lines)
    /\ \A i \in 1 .. Len(lines) - 1 : lines[i].date < lines[i + 1].date

(* The running sum and the series never part: what cumulative_pnl() says is    *)
(* what the decay monitor sums up.                                             *)
CumulativeIsSum == CumulativePnl = Sum(PnlSeries)

(* _max_drawdown is the largest fall of the cumulative curve, its start at     *)
(* zero included.                                                              *)
DrawdownIsWorst ==
    LET Curve(i) == Sum(SubSeq(PnlSeries, 1, i))
        n == Len(lines)
        falls == {Curve(ij[1]) - Curve(ij[2]) : ij \in {ij \in (0 .. n) \X (0 .. n) : ij[1] <= ij[2]}}
    IN  /\ MaxDrawdown(PnlSeries) \in falls
        /\ \A x \in falls : x <= MaxDrawdown(PnlSeries)

(* The verdict is about now: a healthy ledger is above zero and, unless the    *)
(* sessions of the trailing window all earned the same, above where it stood   *)
(* when that window began.                                                     *)
HealthyIsRising ==
    LET n == Len(lines)
        began == IF n <= RollingWindow THEN 0 ELSE lines[n - RollingWindow].cumulative
    IN  Verdict(PnlSeries) = "healthy" =>
            /\ CumulativePnl > 0
            /\ SharpeSign(Recent(PnlSeries)) # Undefined => CumulativePnl > began

(* The ledger is the one record of the forward run: every session once, and   *)
(* sum, drawdown and verdict are about exactly those sessions.                *)
LedgerIsSound == CountedOnce /\ CumulativeIsSum /\ DrawdownIsWorst /\ HealthyIsRising

==============================================================================
