--------------------------- MODULE BrrReconstructor ---------------------------
(***************************************************************************)
(* BRRReconstructor.reconstruct: the venues are asked one after the other, *)
(* in the order of their ids, while trading goes on; the fix is the mean   *)
(* of the partitions' means of the closes.  SHA256 is injective, so a hash *)
(* is what is hashed.                                                      *)
(***************************************************************************)
EXTENDS CryptoVenues, Functions

CONSTANTS
    DayLength,      \* bars of a day
    WindowStart,    \* 15:00 London, in bars of the local day
    NumPartitions,  \* partitions of the hour: 12 in the code
    FixDates,       \* fix dates
    MaxFixes        \* bound: fixes kept

MinVenues == 2      \* _MIN_VENUES_PER_PARTITION
Supported == {"BTCUSD", "ETHUSD"}

ASSUME BrrAssumption ==
    /\ Cardinality(Deployment) >= MinVenues     \* InsufficientVenues otherwise
    /\ NumPartitions \in Nat \ {0} /\ DayLength \in Nat /\ WindowStart \in Nat
    /\ FixDates \subseteq Nat
    /\ WindowStart >= NumPartitions /\ WindowStart + NumPartitions <= DayLength

VARIABLES
    summer,         \* days on which London is one hour ahead of UTC
    call,           \* the reconstruct call in progress
    fixes           \* every BRRReconstruction returned, and how it was asked for

brrVars == <<venueVars, summer, call, fixes>>

Nobody == [venue \in {} |-> {}]
NoCall == [active |-> FALSE, contract |-> "", day |-> 0, begun |-> 0, asked |-> 0,
           bars |-> Nobody, whole |-> TRUE]

BrrInit == VenueInit /\ summer \in SUBSET FixDates /\ call = NoCall /\ fixes = {}

(* self._sources: sorted by SOURCE_ID, each venue at the rank its id gives it. *)
IdRank(v) == CHOOSE i \in DOMAIN SourceOrder : SourceOrder[i] = v
SortedSources ==
    [i \in 1 .. Cardinality(Deployment) |->
        CHOOSE v \in Deployment : Cardinality({u \in Deployment : IdRank(u) < IdRank(v)}) = i - 1]

------------------------------------------------------------------------------
(* The window and its partitions *)

(* The window is an hour long, and so is the shift of summer time. *)
LondonWindowUtc(d) ==
    LET start == DayLength * d + WindowStart - (IF d \in summer THEN NumPartitions ELSE 0)
    IN [start |-> start, end |-> start + NumPartitions]

PartitionStart(d, i) == LondonWindowUtc(d).start + i
Hits(bars, d, i) == {b \in bars : PartitionStart(d, i) <= b.ts /\ b.ts < PartitionStart(d, i) + 1}
LastClose(hits) == (CHOOSE b \in hits : \A x \in hits : x.ts <= b.ts).close

(* Mutant: divides by the number of venues, answering or not. *)
ArithmeticMeanOfAll(f) == SumFunction(f) \div Cardinality(Deployment)

(* Decimal mean; the prices are chosen so that it is an integer. *)
ArithmeticMean(f) == SumFunction(f) \div Cardinality(DOMAIN f)

NoValue == 0

PartitionAggregate(bars, d, i) ==
    LET hit == {v \in DOMAIN bars : Hits(bars[v], d, i) # {}}
    IN IF Cardinality(hit) < MinVenues THEN NoValue
       ELSE ArithmeticMean([v \in hit |-> LastClose(Hits(bars[v], d, i))])

(* Mutant: the hashed payload carries the time of the run. *)
ContentShaDated(c, d, bars) ==
    <<c, d, venueClock, [v \in DOMAIN bars |-> {<<b.ts, b.close>> : b \in bars[v]}]>>

ContentSha(c, d, bars) ==
    <<c, d, [v \in DOMAIN bars |-> {<<b.ts, b.close>> : b \in bars[v]}]>>

(* BRRReconstruction *)
Reconstruction(c, d, bars) ==
    LET values == [i \in 0 .. NumPartitions - 1 |-> PartitionAggregate(bars, d, i)]
        valid == {i \in DOMAIN values : values[i] # NoValue}
    IN [contract |-> c, day |-> d, values |-> values, valid |-> Cardinality(valid),
        value |-> IF valid = {} THEN NoValue ELSE ArithmeticMean([i \in valid |-> values[i]]),
        sha |-> ContentSha(c, d, bars)]

------------------------------------------------------------------------------
(* reconstruct *)

Reconstruct(c, d) ==
    /\ ~call.active
    /\ Cardinality(fixes) < MaxFixes
    /\ c \in Supported
    /\ call' = [NoCall EXCEPT !.active = TRUE, !.contract = c, !.day = d, !.begun = venueClock]
    /\ UNCHANGED <<venueVars, summer, fixes>>

NextVenue == SortedSources[call.asked + 1]
Asking == call.active /\ call.asked < Len(SortedSources)

(* get_bars of the next venue answers; the window is applied once more. *)
VenueAnswers(from) ==
    LET w == LondonWindowUtc(call.day)
        v == NextVenue
        bars == GetBars(FetchOhlcv(v, call.contract, from), w.start, w.end)
    IN /\ Asking
       /\ ResolveCcxtSymbol(v, call.contract)
       /\ call' = [call EXCEPT
                     !.asked = @ + 1,
                     !.bars = [u \in DOMAIN @ \cup {v} |->
                                 IF u = v THEN {b \in bars : w.start <= b.ts /\ b.ts < w.end}
                                 ELSE @[u]],
                     !.whole = @ /\ from <= w.start]
       /\ UNCHANGED <<venueVars, summer, fixes>>

(* fetch_ohlcv raises or a row is malformed: nothing catches it. *)
VenueRaises ==
    /\ Asking
    /\ call' = NoCall
    /\ UNCHANGED <<venueVars, summer, fixes>>

(* BRRWindowEmpty, or the reconstruction. *)
Finish ==
    /\ call.active /\ ~Asking
    /\ LET fix == Reconstruction(call.contract, call.day, call.bars)
       IN fixes' = IF fix.valid = 0 THEN fixes
                   ELSE fixes \cup {[fix |-> fix, begun |-> call.begun, whole |-> call.whole]}
    /\ call' = NoCall
    /\ UNCHANGED <<venueVars, summer>>

(* Bound: trades in the window of a fix date and in the bar after it. *)
NearWindow ==
    \E d \in FixDates : venueClock \in LondonWindowUtc(d).start .. LondonWindowUtc(d).end

World ==
    /\ \/ VenueTick
       \/ NearWindow /\ \E v \in Deployment, c \in Contracts, p \in Prices : Trade(v, c, p)
    /\ UNCHANGED <<summer, call, fixes>>

(* Where an answer starts: at `since`, before it, or after it. *)
Starts == {0, LondonWindowUtc(call.day).start, LondonWindowUtc(call.day).start + 1}

BrrNext ==
    \/ World
    \/ \E c \in Contracts, d \in FixDates : Reconstruct(c, d)
    \/ \E from \in Starts : VenueAnswers(from)
    \/ VenueRaises
    \/ Finish

BrrSpec == BrrInit /\ [][BrrNext]_brrVars

------------------------------------------------------------------------------
(* Properties *)

(* Every variable has its shape, and a reconstruction passes the checks of its *)
(* constructor: a positive value and between 1 and NumPartitions valid ones.   *)
BrrTypeOK ==
    /\ venueClock \in Times /\ summer \subseteq FixDates
    /\ \A v \in Deployment, c \in Contracts, t \in Times :
          rows[v][c][t] \in Prices \cup {0} /\ (t > venueClock => ~Traded(v, c, t))
    /\ call.asked \in 0 .. Len(SortedSources)
    /\ DOMAIN call.bars = {SortedSources[i] : i \in 1 .. call.asked}
    /\ \A x \in fixes : x.fix.value > 0 /\ x.fix.valid \in 1 .. NumPartitions

(* The mean over the venues that traded in bar t, read off the market. *)
MarketMean(c, t) ==
    LET quoted == {v \in Deployment : Traded(v, c, t)}
    IN IF Cardinality(quoted) < MinVenues THEN NoValue
       ELSE ArithmeticMean([v \in quoted |-> rows[v][c][t]])

(* The bar of London's i-th partition on day d: 14:00 UTC is 15:00 in summer. *)
LondonBar(d, i) ==
    CHOOSE t \in DayLength * d .. DayLength * (d + 1) - 1 :
        t + (IF d \in summer THEN NumPartitions ELSE 0) = DayLength * d + WindowStart + i

(* The fix tells the market: every partition that was over when reconstruct   *)
(* was called carries the mean of the venues' final closes in the bar London  *)
(* time assigns to it, summer and winter, whatever was traded while the       *)
(* venues were being asked; and the fix is the mean of its valid partitions.  *)
FixIsMarket ==
    \A x \in fixes : x.whole =>
        /\ \A i \in DOMAIN x.fix.values :
              LondonBar(x.fix.day, i) < x.begun
              => x.fix.values[i] = MarketMean(x.fix.contract, LondonBar(x.fix.day, i))
        /\ \E low, high \in DOMAIN x.fix.values :
              /\ x.fix.values[low] # NoValue /\ x.fix.values[high] # NoValue
              /\ x.fix.values[low] <= x.fix.value /\ x.fix.value <= x.fix.values[high]

(* No partition rests on one venue: two venues traded in every bar that counts, *)
(* also when answers were cut short or the hour was not over.                   *)
TwoVenuesEach ==
    \A x \in fixes : \A i \in DOMAIN x.fix.values : x.fix.values[i] # NoValue =>
        Cardinality({v \in Deployment : Traded(v, x.fix.contract, LondonBar(x.fix.day, i))})
            >= MinVenues

(* What reconstruct would return now if every venue answered in full. *)
Again(c, d) ==
    LET w == LondonWindowUtc(d)
    IN Reconstruction(c, d, [v \in Deployment |->
                                GetBars(FetchOhlcv(v, c, w.start), w.start, w.end)])

(* Same inputs, same record: once the hour is over, a fix from whole answers is *)
(* returned again, with the same content hash, at any later time.               *)
Reproducible ==
    \A x \in fixes :
        x.whole /\ LondonBar(x.fix.day, NumPartitions - 1) < x.begun
        => x.fix = Again(x.fix.contract, x.fix.day)

(* A fix is the market's: two venues in each partition, the mean of their      *)
(* closes, and a record its constructor accepts.                               *)
FixIsSound == BrrTypeOK /\ TwoVenuesEach /\ FixIsMarket

==============================================================================
