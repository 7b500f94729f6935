----------------------------- MODULE CryptoVenues -----------------------------
(***************************************************************************)
(* The spot venues behind CcxtCryptoDataSource, and get_bars on them.      *)
(* Time is counted in bars of five minutes.  A venue keeps one OHLCV row   *)
(* per contract and bar in which it traded; the row of the running bar     *)
(* changes with every trade.  Of a row only the stamp and the close enter  *)
(* a fix; volumes enter its hash only and are left out with the rest.      *)
(***************************************************************************)
EXTENDS Integers, Sequences, FiniteSets

CONSTANTS
    Deployment,     \* the venues a deployment constructs
    Contracts,      \* the contracts that trade
    Prices,         \* prices of a trade
    MaxTime,        \* bound: the last bar
    MaxRows         \* bound: rows

VARIABLES
    venueClock,     \* the running bar
    rows            \* venue -> contract -> bar -> the close so far, or NoRow

venueVars == <<venueClock, rows>>

NoRow == 0
Times == 0 .. MaxTime

(* The concrete venues, in the order of SOURCE_ID, and what each one lists. *)
SourceOrder == <<"binanceus_oracle", "bitstamp_spot", "coinbase_advanced",
                 "gemini_spot", "kraken_spot">>
SymbolMap == [v \in {SourceOrder[i] : i \in DOMAIN SourceOrder} |-> {"BTCUSD", "ETHUSD"}]

ASSUME VenueAssumption ==
    /\ Deployment \subseteq DOMAIN SymbolMap
    /\ Prices \subseteq Nat \ {0}
    /\ MaxTime \in Nat /\ MaxRows \in Nat

VenueInit ==
    /\ venueClock = 0
    /\ rows = [v \in Deployment |-> [c \in Contracts |-> [t \in Times |-> NoRow]]]

Traded(v, c, t) == rows[v][c][t] # NoRow

RowCount == Cardinality({x \in Deployment \X Contracts \X Times : Traded(x[1], x[2], x[3])})

Trade(v, c, p) ==
    /\ Traded(v, c, venueClock) \/ RowCount < MaxRows
    /\ rows' = [rows EXCEPT ![v][c][venueClock] = p]
    /\ UNCHANGED venueClock

VenueTick ==
    /\ venueClock < MaxTime
    /\ venueClock' = venueClock + 1
    /\ UNCHANGED rows

------------------------------------------------------------------------------
(* get_bars *)

(* ContractNotConfigured otherwise. *)
ResolveCcxtSymbol(v, c) == c \in SymbolMap[v]

(* What an exchange answers: its rows from some bar on.  One that honours    *)
(* `since` starts there, one that does not starts earlier, and one that caps *)
(* its answer or its history starts later.                                   *)
FetchOhlcv(v, c, from) ==
    {<<t, rows[v][c][t]>> : t \in {u \in Times : u >= from /\ Traded(v, c, u)}}

RowInWindow(row, start, end) == start <= row[1] /\ row[1] < end

OhlcvRowToRawBar(row) == [ts |-> row[1], close |-> row[2]]

GetBars(answer, start, end) ==
    {OhlcvRowToRawBar(row) : row \in {r \in answer : RowInWindow(r, start, end)}}

==============================================================================
