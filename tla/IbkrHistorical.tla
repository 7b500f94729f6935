--------------------------- MODULE IbkrHistorical ---------------------------
(***************************************************************************)
(* IBKRHistoricalDataSource: get_bars and latest_settle over the rate      *)
(* limiter and a connection to the Gateway that is opened on demand.       *)
(*                                                                         *)
(* The API is synchronous, but the client patches asyncio so that the      *)
(* event loop runs while a request is out (_DefaultIBClient.connect): a    *)
(* second call may then begin before the first one has its answer.  The    *)
(* open calls form a stack.                                                *)
(*                                                                         *)
(* A call's arguments and the Gateway's data play no part before the       *)
(* reply: they are chosen there.  Windows are counted in half seconds,     *)
(* the arguments and bars of latest_settle in hours of UTC from a Monday.  *)
(***************************************************************************)
EXTENDS BackoffQueue, FiniteSets, FiniteSetsExt

CONSTANTS
    Windows,            \* the [ts_start, ts_end) asked for, in half seconds
    DaySeconds,         \* SECONDS_PER_DAY
    Tape,               \* the seconds for which the Gateway has a bar
    Sessions,           \* days of the Gateway's daily bars
    AsOfs               \* the as_of asked for, in hours

ASSUME HistoricalAssumption ==
    /\ Windows \subseteq Nat \X Nat /\ Tape \subseteq Nat
    /\ DaySeconds \in Nat \ {0}
    /\ IsFiniteSet(Sessions) /\ Sessions \subseteq Nat /\ AsOfs \subseteq Nat

VARIABLES
    connected,          \* _ib.is_connected()
    calls,              \* the open calls, the innermost last
    answer              \* what the call that just ended hands to its caller

sourceVars == <<connected, calls, answer>>

NoAnswer == [kind |-> "none"]
Raised == [kind |-> "raised"]         \* any exception: all are DataSourceErrors

SourceInit ==
    /\ Init
    /\ connected = FALSE
    /\ calls = <<>>
    /\ answer = NoAnswer

-----------------------------------------------------------------------------
(* Requests *)

\* Mutant: whole days are counted without rounding up.
DurationFloor(window) ==
    LET secs == (window[2] - window[1]) \div 2
    IN  IF secs < DaySeconds THEN secs ELSE (secs \div DaySeconds) * DaySeconds

\* _compute_duration_str: int() drops the fraction of a second, days round up.
Duration(window) ==
    LET secs == (window[2] - window[1]) \div 2
    IN  IF secs < DaySeconds
        THEN secs
        ELSE ((secs + DaySeconds - 1) \div DaySeconds) * DaySeconds

\* _format_end_datetime: whole seconds.
EndDatetime(window) == window[2] \div 2

\* The Gateway's reply: the bars of the duration that ends at the end time.
Served(window) ==
    {t \in Tape : /\ EndDatetime(window) - Duration(window) <= t
                  /\ t < EndDatetime(window)}

\* _ib_bar_to_raw: the bar's stamp and price, hashed after conversion.
IbBarToRaw(t) == [ts |-> t, close |-> t * t, sha |-> <<t, t * t>>]

-----------------------------------------------------------------------------
(* Daily bars *)

Forms == {"date", "instant", "naive"}   \* how the client delivers BarData.date
Offsets == {5, 6}                       \* hours from CT to UTC: summer, winter
SessionClose == 16                      \* CT
Friday == 4
Weekday(day) == day % 7

\* The day of an instant in CME_SESSION_TZ.
CtDate(ts, off) == (ts - off) \div 24

\* _coerce_ts_to_utc of a bar that is not naive: a plain date becomes noon UTC.
CoerceTsToUtc(day, form, off) ==
    IF form = "date" THEN 24 * day + 12 ELSE 24 * day + SessionClose + off

LagHours(ts, off) == IF Weekday(CtDate(ts, off)) = Friday THEN 42 ELSE 18

ComputeSettleState(ts, asOf, off) ==
    IF asOf - ts < LagHours(ts, off) THEN "preliminary" ELSE "final"

ClosePrice(day) == day * day            \* any two differences are distinct

\* sorted(ib_bars)[-1]
LatestBar(delivered, form, off) ==
    CHOOSE d \in {delivered[i] : i \in DOMAIN delivered} :
        \A i \in DOMAIN delivered :
            CoerceTsToUtc(delivered[i], form, off) <= CoerceTsToUtc(d, form, off)

\* _ib_bar_to_settle of the latest bar and the one before it, if there is one.
IbBarToSettle(delivered, form, off, asOf) ==
    LET latest == LatestBar(delivered, form, off)
        prior == {delivered[i] : i \in DOMAIN delivered} \ {latest}
        ts == CoerceTsToUtc(latest, form, off)
    IN  [kind |-> "settle", delivered |-> delivered, asOf |-> asOf, off |-> off,
         day |-> CtDate(ts, off),
         state |-> ComputeSettleState(ts, asOf, off),
         change |-> IF prior = {} THEN 0 ELSE ClosePrice(latest) - ClosePrice(Max(prior))]

\* "2 D" up to as_of: at most two sessions that have opened, in any order.
Deliverable(asOf, off) ==
    LET open == {d \in Sessions : 24 * d - 7 + off <= asOf}
    IN  {<<>>} \cup {<<d>> : d \in open}
               \cup {p \in open \X open : p[1] # p[2]}

-----------------------------------------------------------------------------
(* The calls *)

Innermost == calls[Len(calls)]
Outer == SubSeq(calls, 1, Len(calls) - 1)

\* The caller's thread, or the event loop under an open request, has control.
Free == pc = "idle" /\ answer = NoAnswer

Connect == connected' = TRUE

\* _ensure_connected of a call that goes on: connected before, or now.
EnsureConnected == (connected /\ UNCHANGED connected) \/ (~connected /\ Connect)

\* A call that passes its checks and _ensure_connected enters acquire().
Begin(op, c) ==
    /\ Free
    /\ EnsureConnected
    /\ Acquire(c)
    /\ calls' = Append(calls, [op |-> op, contract |-> c, held |-> FALSE])
    /\ UNCHANGED answer

\* get_bars and latest_settle go the same way up to the reply.
Fetch(c) == Begin("fetch", c)

\* ValueError, BarsNotSupported, ContractNotConfigured, TicksNotSupported, or
\* an IBKRConnectionError of _ensure_connected: before anything is acquired.
Refuse ==
    /\ Free
    /\ answer' = Raised
    /\ UNCHANGED <<vars, connected, calls>>

InAcquire ==
    /\ PruneGlobal \/ PruneContract \/ ComputeRequiredSleep \/ Sleep \/ Wake
    /\ UNCHANGED sourceVars

TakeSlot ==
    /\ RecordAcquire
    /\ calls' = [calls EXCEPT ![Len(calls)].held = TRUE]
    /\ UNCHANGED <<connected, answer>>

\* The innermost call ends with an answer.
End(a) ==
    /\ calls' = Outer
    /\ answer' = a
    /\ UNCHANGED connected

\* BackoffQueueTimeout leaves the call.
GiveUp(op) ==
    /\ TimedOut
    /\ Innermost.op = op
    /\ End(Raised)

\* The request is out and the `with` block ends, normally or by an exception.
Replied(op) ==
    /\ Free
    /\ calls # <<>>
    /\ Innermost.op = op
    /\ Release

\* Mutant: the slot of a request that raised stays taken.
RequestFailsHolding(op) ==
    /\ Free /\ calls # <<>> /\ Innermost.op = op
    /\ UNCHANGED vars
    /\ End(Raised)

RequestFails(op) ==
    /\ Replied(op)
    /\ End(Raised)

\* get_bars: what the Gateway served is converted, not cut to the window.
BarsReply ==
    /\ Replied("fetch")
    /\ \/ \E w \in Windows :
            End([kind |-> "bars", window |-> w, bars |-> {IbBarToRaw(t) : t \in Served(w)}])
       \/ End(Raised)                  \* a naive bar date

SettleReply ==
    /\ Replied("fetch")
    /\ \E asOf \in AsOfs, off \in Offsets, form \in Forms :
          \E delivered \in Deliverable(asOf, off) :
             End(CASE delivered = <<>> -> [kind |-> "no settle"]
                   [] delivered # <<>> /\ form = "naive" -> Raised
                   [] OTHER -> IbBarToSettle(delivered, form, off, asOf))

\* The caller takes the answer.
Returns ==
    /\ answer # NoAnswer
    /\ answer' = NoAnswer
    /\ UNCHANGED <<vars, connected, calls>>

\* disconnect(), or the Gateway going away.
Disconnect ==
    /\ connected
    /\ answer = NoAnswer
    /\ connected' = FALSE
    /\ UNCHANGED <<vars, calls, answer>>

Clock == answer = NoAnswer /\ Tick /\ UNCHANGED sourceVars

SourceNext ==
    \/ \E c \in Keys : Fetch(c)
    \/ Refuse
    \/ InAcquire \/ TakeSlot
    \/ GiveUp("fetch") \/ RequestFails("fetch") \/ BarsReply \/ SettleReply
    \/ Returns \/ Disconnect \/ Clock

-----------------------------------------------------------------------------
(* Properties *)

\* Slots and open requests are the same thing: however calls nest and however
\* they end (reply, vendor error, bad date, timeout before the slot), each
\* request that is out holds one slot and no slot outlives its request.
SlotsAreRequests == inFlight = Cardinality({i \in DOMAIN calls : calls[i].held})

\* get_bars misses nothing: every bar the Gateway has in a window of whole
\* seconds is in the answer, on both sides of the switch from seconds to days.
WindowCovered ==
    answer.kind = "bars" =>
        LET w == answer.window
        IN  w[1] % 2 = 0 /\ w[2] % 2 = 0 =>
              \A t \in Tape : w[1] <= 2 * t /\ 2 * t < w[2] => IbBarToRaw(t) \in answer.bars

\* latest_settle is dated by the last session delivered, in whatever order and
\* form the bars come and in summer and winter time, and its change is against
\* the session before it.
SettleDated ==
    answer.kind = "settle" =>
        LET days == {answer.delivered[i] : i \in DOMAIN answer.delivered}
        IN  /\ answer.day = Max(days)
            /\ Cardinality(days) = 2 =>
                 answer.change = ClosePrice(Max(days)) - ClosePrice(Min(days))

\* "final" is never said of a session still open at as_of, and of a Friday not
\* before the Saturday morning (CT) on which its settlement is published.
FinalIsPublished ==
    answer.kind = "settle" /\ answer.state = "final" =>
        /\ answer.asOf >= 24 * answer.day + SessionClose + answer.off
        /\ Weekday(answer.day) = Friday =>
             answer.asOf >= 24 * (answer.day + 1) + 12 + answer.off

\* No way in or out of a call upsets the queue's books.
RequestsAreSound == TypeOK /\ LogIsRecent /\ SlotsAreRequests

\* What the source answers is what the market had: all the bars asked for, the
\* last session's settle under its date, and "final" only when it is.
AnswersAreSound == WindowCovered /\ SettleDated /\ FinalIsPublished

=============================================================================
