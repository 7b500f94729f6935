# TLA+ models of futur3-engine

Formal models of `futur3`, a futures backtesting engine: the mock broker and its
accounting, both engines, the sizing gate, the prop-account overlay, the continuous
series and the roll desk, the settle and bar verification pipelines with their
sources, the rate limiter, the stores and the paper ledger, the point-in-time macro
sources and the crypto reference rate. TLC checks them on small instances, TLAPS
proves nearly all of their safety properties for every value of the constants.

    tlc -workers 2 -config BrokerOrders.cfg MCBroker     # a run
    tlapm MockBroker_proofs.tla                          # the proofs of a module

`PROJECT.json` lists the runs, the map from definitions to source lines, the
mutants (one deliberate bug per property, which TLC must catch), the hazards and
the theorems.

## The system

The data side downloads bars, settles, reports and macro figures from several
sources, verifies them against each other, stores them and splices contracts into a
continuous series with roll events. The execution side runs a strategy bar by bar
against a broker, sizes its signals through hard caps and decides when positions
are rolled. A statistics side judges the results.

| Component | State | Operations | Hard behaviour |
|---|---|---|---|
| `MockBroker` (`execution/adapters/mock_broker.py`) | orders, cancelled ids, cumulative fills, event stream, positions, realized PnL, per-trade ledger | place, cancel, modify, fill, advance(bar), roll, reset | flips, re-opens, partial fills, exceptions in the middle of a fill, of a roll or of the loop over orders |
| `PropAwareMockBroker` | trailing equity peak, latched halt | is_trade_allowed, get_account_metrics, reset | stale position at the gate, latching |
| `BacktestEngine` (`engine/backtest.py`) | last closes, closes per contract, equity curve, counters | run(): advance, roll, mark, ruin, stop, signal, size, gate, order | the order of these steps (no look-ahead), rolls, ruin, orders left outstanding |
| `PortfolioBacktestEngine` | as the engine, several roots, one equity | run() per date | legs sized on one mark, several bars and rolls a date, missing bars |
| `RiskManager`, `FixedSizeRiskManager` | none between calls | size_position | rounding to zero, binary search over a simulation |
| `ContinuousSeriesBuilder`, `RollExcludedSeries`, `StaticTermStructure` | none | build, clean returns, carry inputs | window boundaries, dates without bars, three derivations that must agree |
| `RollCalendarBuilder`, `RollExecutor`, `CMETradingCalendar` | the calendar | derive, decide_rolls | holidays, year ends, absence over a whole window |
| `CMEEODDataSource`, `ReplayDataSource` | an archive of one file a year | fetch, archive, answer, replay | page changes under a fetch, read-merge-write, crashes |
| `MultiSourceVerifier` | the hash chain of bars | verify_settle, verify_bar | failing, silent, lying and dependent sources |
| `BackoffQueue`, `IBKRHistoricalDataSource` | timestamp logs, requests in flight, connection | acquire, release, get_bars, latest_settle | the clock moves between its readings; nested calls; errors that must return the slot; rounding of windows, dating of sessions |
| Stores (`storage/`) | Parquet partitions | write, read | read-merge-write, torn files, retries |
| `PaperLedger`, `DecayMonitor` | an append-only file | record, read, verdict | torn last line, a session recorded twice |
| COT, FRED and BLS sources | none | reports_known_at, fetch_value, upcoming_events | delayed, revised and voided publications |
| Crypto venues, `BRRReconstructor` | none | get_bars, reconstruct | venues asked one after the other while trades go on, London time |
| CV splits, statistics, promotion gate | none | pure algorithms | floating point |

The engines call the broker directly (`advance`, `roll_position`, `place_order`,
`is_trade_allowed`, `get_account_metrics`, `get_positions`) and the risk manager
once per signal; no coroutine of the backtest path suspends between its reads and
its writes. The verifier calls its sources one after the other; the exchange's source
writes the archive that the replay source reads; the IBKR source waits in the rate
limiter, and because its client patches asyncio a second call may begin while a
request is out. Hence the interesting interleavings are between *calls* (a caller
that places before the last order filled, a roll between two bars, a cancel after a
fill), between *steps of one call of which a later one raises or is cut off by a
crash*, and between a call and *the world* (the clock, the exchange's page, the
publishers, the market).

What makes each part correct: the broker's event stream tells the truth about each
order, and its averages, PnL and ledger are worth exactly the cash that was traded;
the engines never fill at a price they decided on, keep the exposure they decided and
report what happened; the sizes are funded and survive; series, carry and roll desk
agree on the active contract and are out before delivery; what is verified was
published and rests on independent records; what was acknowledged is stored; a
backtest is told what the live run was told; the limiter respects its windows, leaks
no slot and never hangs.

## The modules

| Module | Models |
|---|---|
| `CashAccount` | abstract: net quantity and cash per contract, with no average price in it |
| `MockBroker` | `mock_broker.py` with the `Order`, `OrderEvent` and `Position` validation of `broker.py` and the slippage hook |
| `PropAwareMockBroker` | extends `MockBroker` by the gate of `prop_aware_mock_broker.py` |
| `Sizing` | the three static caps of `size_position`, as operators |
| `RiskManager` | one call of `size_position`, with the survival search; `Pin > 0` is `FixedSizeRiskManager` |
| `BacktestEngine` | `run()` over `PropAwareMockBroker` and `Sizing` |
| `ContinuousSeries` | splice, roll events, clean returns, carry inputs, as operators |
| `PortfolioBacktestEngine` | `run()` over `MockBroker`, `Sizing` and `ContinuousSeries` |
| `TradingCalendar`, `RollExecutor` | holidays, contract cycles, roll windows, `decide_rolls` and a desk that follows it |
| `BackoffQueue` | `backoff_queue.py`, one step per reading of the clock |
| `IbkrHistorical` | `ibkr_historical.py` over `BackoffQueue` |
| `MultiSourceVerifier` | policies, tier filter, consensus, verdicts and hashes, as operators |
| `BarVerification` | `verify_bar` over `IbkrHistorical` and `MultiSourceVerifier` |
| `CmeArchive` | the exchange's page, `cme_eod.py`, its archive and `replay.py` |
| `SettlePipeline` | `verify_settle` over `CmeArchive` and `MultiSourceVerifier` |
| `ParquetStore`, `PaperLedger` | the two stores; the ledger and the decay monitor |
| `Persistence` | both in one process that crashes |
| `PointInTime` | COT, FRED and BLS with their publishers |
| `CryptoVenues`, `BrrReconstructor` | the venues; `brr.py` over them |
| `MC*` | constants for TLC |
| `SumTheorems` | lemmas about sums, induction and sorting |
| `MockBroker_proofs`, `BacktestEngine_proofs`, `Portfolio_proofs` | theorems about the broker and the engines over it |
| `BarVerification_proofs`, `SettlePipeline_proofs` | theorems about the limiter, the IBKR source, the archive and the verifier |
| `ReferenceData_proofs` | theorems about `PointInTime` and `BrrReconstructor` |
| `Operations_proofs` | theorems about `RiskManager`, `Persistence` and `RollExecutor` |

**MockBroker.** An order id is a position in `orders`. `book` holds the four
dictionaries and totals that `_apply_fill_to_position` writes. The method is split
at the point where `Position` may refuse what it is given: `Realize` is what has
been written by then, `PositionAfter` the new position, `ApplyLeg` both, and
`Aborted` what an exception leaves behind. `advance()` is taken one order per step
(`AdvanceStart`, `AdvanceSkip`, `AdvanceFill`, `AdvanceRaises`), all other
operations wait for `cursor = 0`. Calls that are refused before they write
anything are guards. Client ids, timestamps, payload hashes, margin (always 0) and
order types that `advance` ignores (one `"OTHER"`) carry no decision.

**Prices** are integers. `Decimal` division is exact to 28 digits; the guard
`Exact` takes only fills whose weighted average is an integer, so that the model
adds no rounding of its own. The instances use multiples of 720 or 2520, with which
every average within the bounds is an integer: with deadlock checking on, a fill
that `Exact` would cut off is reported as a deadlock inside `advance()`.

**BacktestEngine.** `phase` is the position in the loop body and `After` its
order. The bars' prices and the strategy's answers (about the contract of the
latest bar) are free; where the survival gate runs it may take any amount off the
size. An exception that leaves `run()` ends in phase `"raised"`. `placed` and
`largest` are history variables for the properties.

**PortfolioBacktestEngine.** `have` says which contract has a bar on which day; the
series of each root is built from it by the operators of `ContinuousSeries` in
`Init`. The loop goes bar by bar of a date (`NextBar`, `Advance`, `SeeClose`), then
roll by roll (`ExecuteRoll`), marks, asks the strategy and places one leg per step
(`PlaceLeg`). A close is chosen when it is first looked at and stays what it is. A
leg's inverse-volatility weight is one of a set, the equal weight while some leg is
not measurable.

**RiskManager.** The Monte-Carlo simulation answers yes or no per size; the model
takes any set of sizes as its answers (with a fixed seed they are a function of
the size). Floors are integer division in percent.

**Rolls.** Dates are day numbers of a real calendar, 2018 to 2028; `Calendar` holds
the window of every contract of the chosen roots, derived as the code derives it.
The desk attends or stays away (up to `MaxAbsence` days) on each trading day.
`CalendarFits` says what it needs of a calendar; `MCRolls` assumes it, so that TLC evaluates
it of the computed one.

**BackoffQueue, IbkrHistorical, BarVerification.** `granted` records every timestamp
ever written, so that the rolling caps are stated about the requests and not about
the logs. `Timeout` and the windows are counted in ticks of the re-poll. Open calls
of the source form a stack; arguments and the Gateway's data play no part before the
reply and are chosen there.

**CmeArchive, SettlePipeline.** A page is a date, a state, a price per contract and a
SHA. Fetching, parsing, reading, opening and closing the file are separate steps of
one call; a crash may fall between any two and tears an open file. Once the exchange
has answered, the vendor, the replay and the verdict are one step: they only read, and
the archive is written by this process alone.

**ParquetStore, PaperLedger.** A row is its dedupe key and a note for the columns
outside of it. A file is torn from the moment it is opened until it is closed. A
ledger line may break off before, within or just before the end of its line.

**PointInTime.** A day has two moments, before and at the release. `asked` records
what live callers were told, to be compared with what is told about that moment
later.

**CryptoVenues, BrrReconstructor.** A venue keeps one row per bar in which it traded,
and the row of the running bar changes with every trade. SHA256 is injective.

## Runs

All pass. Where a property is a conjunction its parts are named definitions with a
comment of their own.

| Run | Checks | Instance |
|---|---|---|
| `broker_orders` | `EventsTellBook`, `CancelledIsLast` | one contract, LMT and STP, two orders, 7 events: room to fill, modify and cancel each in any order |
| `broker_accounting` | `PositionPriced`, `BetLedger`, refinement of `CashAccount` (`CashAccounting`) | three contracts, one without a multiplier, orders of 2 filled in parts, rolls, prices below zero: open, increase, close, re-open, flip, roll, every raising branch |
| `risk_sizing` | `SizeSurvives`, `SizeIsLargest`, `DecisionIsSound` (types, funded, the cap blamed is the one that bound), `Decides` | 10 sizes, every subset of them as survivors |
| `engine_run` | `NoLookAhead`, `ExposureCapped`, `CurveIsCash`, `ReportIsSound` (types, what is held was marked, counters) | four bars, target mode, 50% stop, survival gate, a roll on the third bar or none; opens, closes and settles above and below zero |
| `engine_prop` | `OrdersFillNextBar`, `PositionCap`, `HaltedEngineShrinks` | five bars of one contract, clip mode: a loss, the halt it trips, and a fill after it |
| `portfolio` | `SeriesAreSound`, `PortfolioIsSound` (no look-ahead, nothing left behind, net and PnL are the fills'), `LegCapped`, `BlendedCurveIsCash`, `RollIsPaired` | two roots that roll on the same day, four days, complete data and two data sets with holes on and around the roll |
| `historical` | `RollingCap`, `ConcurrencyCap`, `RequestsAreSound`, `AnswersAreSound`, `VerdictsAreSound`, `AcquireEnds` | two keys, limits 2 in 3 and 1 in 2 ticks, 3 grants in 5 ticks, nested calls; windows on both sides of a day; a Thursday and a Friday session in summer and winter time; four sources, one lying |
| `settle_pipeline` | `ArchiveIsSound`, `ReplayIsLive`, `VerifiedWasPublished`, `QuorumIsSound` | two days, three pages (preliminary, final, next day, one revision), crashes, a faulty vendor, the policies of all phases, two verdicts |
| `rolls` | `RollsInTime`, `DeskIsSound` | one root per derivation rule and cycle, nine years of calendar, absences of up to 12 trading days: longer than any window |
| `persistence` | `StoreKeeps`, `StoreTells`, `LedgerIsSound` | two times, each in a file of its own, two settle states, batches of two rows, three calls of either kind, a crash at any step |
| `point_in_time` | `BacktestIsLive`, `NothingIsEarly` | eight days: two weeks and three months in small, one delay each, one revision, void figures |
| `brr` | `FixIsSound`, `Reproducible` | an hour of two partitions, three venues, summer or winter, four traded rows: a partition with no, one, two or three venues |

The bounds are the smallest with which every case named in the last column happens;
each property's mutant shows that the case that would break it is among them.
`CHECK_DEADLOCK FALSE` where the model really stops: at the end of its time, after
the decision, at the bound of calls. The engines stay in their final state by `Over`.

Fairness: `BackoffQueue` assumes that the thread inside `acquire()` runs and that
the clock goes on (weak fairness of `Step` and `Tick`); nothing is assumed about
the caller ever releasing a slot, and `AcquireEnds` holds all the same. `RiskManager`
assumes that a function call runs to its end. `ClockAdvances` (two acquires never
read the same instant) is true of a clock finer than a call and false of a coarse or a
test clock; see the first deviation.

## Deviations

What the code does where a doc, a comment or an expectation says otherwise. The
properties above are stated so as to hold of the code; each item says which
assumption keeps it out.

Execution:

* `BackoffQueue` lets a burst through at the instant an entry is exactly one window
  old: the prune keeps it (`<`, `backoff_queue.py:288`) and no sleep is asked for it
  (`:249`), against "≤60 requests in any 10-minute window" (`:5`). Excluded by
  `ClockAdvances`.
* `FixedSizeRiskManager` trades its pin unchecked for survival when the Kelly size
  rounds to zero: the survival cap is evaluated only if base > 0
  (`risk_manager.py:272`), against "Never exceed what the real caps can fund/survive"
  (`fixed_size_risk_manager.py:77`). `SizeSurvives` is about unpinned sizes.
* `_execute_roll` looks a roll up by the exact date of the bar (`backtest.py:285`), and
  `RollEvent.roll_date` is the calendar's target whether or not a bar falls on it: such
  a roll is never executed and both contracts are held. `engine_run` has a bar on it.
* The ruin check does not latch (`backtest.py:201`): when the open position recovers,
  orders are placed again, against "NO new orders are placed once ruined" (`:200`).
* The prop gate computes the resulting position from the filled one
  (`prop_aware_mock_broker.py:154`): orders allowed one after the other before either
  fills exceed the cap together. The engine places one order per bar, and `PositionCap`
  holds there. The trailing peak never sees an open gain (`:130`).
* `cancel_order` and `modify_order` accept filled orders (`mock_broker.py:199`, against
  `broker.py:329` and `:349`); `fill_order` counts an order as filled before a position
  update that may raise for an unconfigured root (`:458`); a roll whose back settle is
  not positive loses the position (`:404`), and if it flips a back position the PnL of
  the closed part is booked although the position is refused, so that the total and the
  positions part (`PositionTotals` is checked at positive prices); a roll onto an
  opposing position leaves its tally on a flat contract (`:405`); an order placed on the
  last bar of the front contract is never filled (`:345`).
* In the portfolio engine a leg without a bar on a date keeps its pending order, and the
  next order is sized as if there were none: the leg gets twice its target. A roll whose date
  has no bar of any root is never executed. `LegCapped` assumes aligned streams, with a bar of
  every root on every date and every roll on a date. A roll on a date without a bar of the new contract settles at
  a later close; `RollIsPaired` is about the others.

Data:

* `_write_archive` dates rows by the caller's day: a page that changes during the fetch is
  archived under the wrong date, and the sources of a verified settle need not speak of
  the date it is verified for (`verifier.py:193` suggests they do).
* `verify_bar` asks for a window of one millisecond, which the IBKR source turns into
  `"0 S"` (`ibkr_historical.py:594`): it can never confirm a bar. `get_bars` does not
  cut its answer to `[ts_start, ts_end)` (`source.py:210`). Plain dates are anchored at
  noon UTC (`:728`), so that the 18 h lag of a weekday ends about midnight CT, before the
  "next morning" of `:109-115`. `as_of_iso` is stamped before the wait (`:395`).
* BLS shows a month whose print was delayed before it was printed (`bls_macro.py:188`:
  "Errs toward blocking (never look-ahead)"); `BlsNoLookAhead` excepts delayed prints.
  FRED and BLS ignore the month of the event (`macro_source.py:182`) and answer a void
  month with an older one; weekly releases of a month share an event id
  (`fred_macro.py:304`); on the morning of a release FRED withholds last month's value in
  replay though the live run saw it. A COT report shifted by a Friday holiday is
  documented as not handled.
* The stores: one torn month blocks every read of a root, and the error polars raises for
  it is not the `OSError` that is caught. Bars are sorted without their contract.
* The ledger does not survive every restart (`paper_ledger.py:5`): a line cut off within
  makes `read` raise for good. `assess_decay` says HEALTHY when the trailing sessions all
  lost the same amount, since their Sharpe is undefined (`decay_monitor.py:34`).
* `reconstruct` does not check that the hour is over (`brr.py:217`): a call at 15:30
  London gives a fix of half the partitions with the running bar's close. A venue that
  raises ends the reconstruction although `:18` speaks of degradation; two sources of one
  id count twice (`:233`). `Reproducible` is about calls after the hour.
* `MES`, `MNQ`, `MCL` and `MGC` have a cycle, but `RollCalendarBuilder` cannot build them.

## Proofs

All hold for every value of the constants that satisfies the named assumptions
(`ConstantsAssumption`, `PropAssumption`, `EngineAssumption`, `QueueAssumption`,
`SizingAssumption`, `RiskAssumption`, `StoreAssumption`, `LedgerAssumption`,
`ArchiveAssumption`, `ReplayAssumption`, `PersistenceAssumption`,
`HistoricalAssumption`, `VerifierAssumption`, `BarAssumption`, `PipelineAssumption`,
`PointInTimeAssumption`, `VenueAssumption`, `BrrAssumption`, `SeriesAssumption`,
`PortfolioAssumption`, `CalendarAssumption`, `RollAssumption`) and the hypotheses in the
statement. TLC evaluates each of them in the run of its component.

**Sums.** `SumTheorems` holds what the other proofs need about `SumFunction` of the
community modules: the sum exists and is an integer, changes with one value by the
change of that value, skips zeros, adds pointwise, grows with an appended element. The
library's induction theorems take an operator and cannot be used here; `SubsetInduction`
takes a *set* of good subsets instead and follows from the least cardinality of a
counterexample. The last part is about sorting: what is put at the rank that a strict
order gives it is a sequence with every element once, in that order (`RanksTaken` and what
follows from it). The bars of a series, of a portfolio run and of a read are sorted this way.

**Broker.** `MockBroker_proofs`: `TypeCorrect`, `PositionsArePriced`,
`CancelledStaysLast`, `EventsAreTheTruth`, `LedgerExplainsPnl`. The type invariant is
inductive as it stands. Priced positions need the types and that no fill is at a
nonpositive price, which `FillOrder`, `BadPrice` and `Refused` exclude. That nothing
follows a cancellation needs that the ids of "cancelled" events are those in
`cancelled`. `EventsAreTheTruth` assumes `Configured = Contracts`: with an unconfigured
contract a fill is counted and then raises, before its event. The bet ledger is
inductive over the types: `Realize` books one gain in the total and in either the
ledger or the tally, and `Carry` moves a tally; hence it also holds of what a leg that
raised leaves behind. `BooksAreCash` is the refinement of `CashAccount`, where no leg can raise (`NoFaults`). The identity behind it: closing at a
price moves realized PnL by exactly what the cash of the closed part moved, and
averaging preserves quantity times average.

**Engine.** `BacktestEngine_proofs` proves every property of the two engine runs.
`EngineInv` is their common base: where the loop stands (`LoopInv`), what every order is
(`OrderInv`: a market order in the contract of the bar it was decided on, whole or not
filled at all, decided before it fills), what a bar leaves outstanding (`FillInv`: none in
its own contract once advanced, at most one in any), and the counters. `LookAheadFree`
follows for any streams and rolls, `FilledByNextBar` for one contract (`SingleContract`:
an order left in the front contract at a roll is never filled). The others are about
continuous streams (`Continuous`, what `ContinuousSeriesBuilder.build` cuts: the contract
changes only on the day of a roll into the new one and does not come back):

* `ReportSound` needs `HeldInv`: all that is held is in one contract, the one of the
  previous bar until the roll of the day, and every contract of an earlier bar was seen.
* `ExposureIsCapped`, `PositionIsCapped` and `HaltLatches` (an action property) rest on
  two lemmas: what a step does to the positions (`BookStep`: nothing, one fill, or a roll
  of everything into a contract without any) and what it leaves outstanding
  (`OutstandingStep`). None of the three is inductive by itself, since the gate and the
  sizing see the position a bar before the order fills; `CapInv`, `PropCapInv` and
  `HaltInv` say the same of the position as it will be.
* `CurveExplained` needs `TotalsInv`: the positions explain the realized PnL until a roll
  breaks off.

Their hypothesis `AnyQuantity` only says that `Quantities`, a bound of the instances,
bounds nothing.

**Continuous series and portfolio engine.** `Portfolio_proofs` proves every property of the
run `portfolio`, for any number of roots, contracts and days and any holes in the data.

* `SeriesSound` is about the data of the run, which never change: a spliced series has the
  bars of the windows, each once, by day (`IsSeries`); on a day on which it has a bar it is in
  the contract that rolls next; between two neighbours lies a return or a roll. It needs of
  the calendar (`SeriesAssumption`) that the targets of a root differ and come in the order
  of the last trading days.
* `PortInv` is the base of the rest: types, where the date loop stands, that the curve has a
  point for every date begun and that a close once looked at stays what it is. `DecidedInv`
  adds that an order is filled on a later date than it was decided on,
  `LeftInv` that what was rolled stays flat, and `KnownInv`, without which `LeftInv` is not
  inductive, that a position is in a contract with a close or one that was rolled into. With
  `NetIsFills` and `PositionTotals` they make `EngineSound`, from which `PortfolioSound`
  follows.
* `BlendedCurveExplained` compares the mark with the cash of each contract. It needs
  `MarkInv`: a decision is taken on the mark of its date, legs placed before it included.
* `RollsArePaired` is an action property: the old contract's cash and the new contract's
  position cancel but for the move of the old contract to its last close.
* `LegsAreCapped` sizes an order against the position of one date and bounds the position
  of a later one. `LegInv`: every order is a market order, at most one per root and date, for
  the contract that traded then, and the next date fills it. `CapInv`: no position is larger
  than a decision allowed, nor will be when what is open fills. `RollBetween` and
  `OneContract`: two contracts of a root are never held together, since between their bars
  there is a roll that was executed. All of it needs `Aligned`: a bar of every root on every
  date and every roll on a date of the run. With a hole, or a roll on a date without any bar,
  the leg really exceeds its size (Deviations).

**Sizing.** `Operations_proofs`: `DecidedSizeSurvives`, `DecidedSizeIsLargest`, from
`Bracketed`: the lower end of the search survives, the upper one does not;
`DecidedSizeIsFunded` for any pin and `DecisionSound` without one, from `Affordable`: the
candidate is within the floors of both budgets. With a pin the cap that is blamed is not
the one that binds, which is why the last theorem says `Pin = 0`.

**Limiter and IBKR source.** `BarVerification_proofs` begins with the limiter by itself:
`ConcurrencyIsCapped`, `LogsAreRecent`, `RollingCapsHold`. The rolling cap is not
inductive: the check and the record read the clock at different times. The invariant
`Paced` adds that grants are ordered and past, that only one entry can be over the limit
and only at the window's edge, that a pruned log fits, and that in `"record"` the entry
`Limit` back is at least a window old. It needs `ClockAdvances`. `QueueStep` then shows
that every step of the source and of `verify_bar` is a step of the limiter or leaves it
alone, which carries both caps over (`ConcurrencyCappedUnderSource`,
`RollingCappedUnderSource`). `RequestsSound` needs `CallsHold`: only the innermost call
can be without its slot, and only inside `acquire()`. `AnswersSound` holds of each reply
by itself: rounding up to whole days never falls short, and a stamp falls on its own day
in Chicago in both forms and offsets. `VerdictsSound` needs `Chain`: `_prev_bar_hash`
holds, for each contract and resolution, the hash of the last verified bar of that chain.

**Settles.** `SettlePipeline_proofs`: `ArchiveSound`, `ReplayLive`, `VerifiedPublished`,
`QuorumSound`, from `PipelineInv`, four invariants in one. `ArchiveInv`: while a file is
torn because it is being written, the rows in memory hold what was returned of that
year, and every row comes from a published page. `LiveInv`: while nothing is revised,
torn or straddled, the settle returned last is the last row of its contract, in the order
of days and states. `CallInv`: what the exchange's source answered is still in the file
when the other sources are asked. `VerdictInv`: every verdict is `SettleVerdict` of
answers that are records of the exchange or of the vendor, and where the exchange
answered and its replay did not, a file is lost for good: the number of sources in the
hash then identifies the answers. `ReplayAssumption` (the replay's tier is below the
macro tier, as `replay.py` declares it) is what keeps the exchange from confirming itself.

**Stores and ledger.** `Operations_proofs`: `StoreKeepsRows`, from `StoreInv`: every file that is not
torn, and the content about to be written while one is, holds the acknowledged rows of
its partition themselves and each key once, and a torn file is empty. `StoreKeeps` alone
is not inductive: it says nothing about the content in memory while the file is
truncated. `SessionsCountOnce` (`CountedOnce`, a part of `LedgerIsSound`), from
`LedgerInv`: a row about to be appended is later than the last line of a ledger that
can be read. `StoreTellsTruth` adds to `StoreInv` that `rows_written` is by how much the
store has grown since the call began, the content about to be written included, and with
`dedupe_count` is the number of rows handled; that two windows read like one is the lemma
that in a sorted set what comes wholly before the rest comes first. `LedgerSound` adds that
every line, and a row about to be appended, carries the sum up to itself, and proves of the
fold in `_max_drawdown` that after `k` sessions it holds the sum, its maximum and the largest
fall so far: the fold is unrolled along the initial parts of its index set.

**Roll desk.** `Operations_proofs`: `RollsAreInTime`, `DeskFollowsSeries`. Hypothesis is
`CalendarFits`, which the run `rolls` evaluates on the calendar computed for nine years
(`MCCalendarFits`): windows are in order, on trading days and before delivery, the market is
never closed for longer than `next_trading_day` looks, and consecutive windows of a root are
more than `MaxAbsence + 1` trading days apart. `RollsInTime` is not inductive, for it does not
say how late a roll can be when it is executed. `DeskInv` adds that: the days since the target
of the window held are no more than the days nobody came. Hence a roll lands in a contract
whose own target is still ahead, however long the absence, and every earlier window of the
root is behind, which makes the contract held the one of the series.

**Point-in-time sources.** `ReferenceData_proofs`: `BacktestLive`, `NothingEarly`. The
invariant is in two parts. `Published`: nothing is from the future, one report a week,
one figure a month and day, and a figure that follows another of its month is a number.
`AllLive`: every answer given live is a function of what was *visible* at its moment,
which no later publication changes. The rest is about one state: what FRED says over all
figures of a day is what it says over the visible ones, or nothing (`FredPointInTime`).
There the lookback matters: the newest visible number must still be within it, and a
revision of the same day must not be void. `NothingEarly` says `Series \in FredSeries`,
since FRED has nothing for the others.

**Reference rate.** `ReferenceData_proofs`: `FixTellsMarket`, `FixIsReproducible`, from
`BrrInv`: what a venue answered is what the market says *now* for every bar that was over when
`reconstruct` was called, and complete for those bars if the answer was not cut short; and
every fix is the reconstruction from such answers. Trades after the answer change only bars
that were not over. That the fix lies between two of its partitions is a lemma about means of
integers.

**Only model-checked.** The liveness properties (`AcquireEnds`, `Decides`), which are out
of this prover's reach. Of `DeskIsSound` the part `HolidaysDistinct`: computed dates of a real
calendar, as are the facts of `CalendarFits`; its other two parts are `DeskFollowsSeries`.

## Not modelled

Live adapters (stubs: orders raise, the gate lets everything through), HTTP clients and
vendor parsers below what their rows say, the Databento file parser, SQL queries,
configuration tables, ratio adjustment and other decimal arithmetic of the series,
floating-point estimators, bootstraps and the Monte-Carlo paths: no state of their own,
or values out of TLC's reach. `PROJECT.json` gives the reason for each component.

## Plan

Done: broker, engines, sizing, limiter, series, roll desk, verification pipelines,
persistence, point-in-time sources, reference rate, in this order, and the proofs of every
invariant and action property the runs check, but for the dates of the holidays. Left:

1. Purged splits and CSCV as pure algorithms against a reference definition; step-down
   multiple testing and the promotion gate.
2. The oracle comparison of `brr.py` and the ratio adjustment of the series, with the
   rounding of their decimals.
