---------------------------- MODULE BackoffQueue ----------------------------
(***************************************************************************)
(* The rate limiter of futur3/data/sources/backoff_queue.py: acquire()     *)
(* blocks until a rolling cap over all requests, a rolling cap per         *)
(* contract key and a cap on requests in flight all permit one more.       *)
(*                                                                         *)
(* The queue is used from one thread; what runs beside it is the clock.    *)
(* Each reading of the clock is a step of its own, and Tick may come       *)
(* between any two.  Time is counted in ticks of the 50 ms re-poll.  The   *)
(* caller holds any number of slots (nested `with` blocks, generators) and *)
(* while it waits in acquire() nobody can release one.                     *)
(***************************************************************************)
EXTENDS Integers, Sequences

CONSTANTS
    Keys,               \* contract keys
    Global,             \* the bucket of the global cap
    GlobalLimit, GlobalWindow,
    ContractLimit, ContractWindow,
    ConcurrentLimit,
    Timeout,            \* acquire_timeout_seconds
    PollInterval,       \* the 50 ms re-poll of the concurrency cap
    ClockAdvances,      \* TRUE: the clock is never read twice at one instant by
                        \* two acquires (its resolution is finer than a call)
    MaxTime,            \* bound: ticks
    MaxGrants           \* bound: slots granted

ASSUME QueueAssumption ==
    /\ Global \notin Keys
    /\ GlobalLimit \in Nat \ {0} /\ GlobalWindow \in Nat \ {0}
    /\ ContractLimit \in Nat \ {0} /\ ContractWindow \in Nat \ {0}
    /\ ConcurrentLimit \in Nat \ {0}
    /\ Timeout \in Nat \ {0} /\ PollInterval \in Nat \ {0}
    /\ ClockAdvances \in BOOLEAN
    /\ MaxTime \in Nat /\ MaxGrants \in Nat

VARIABLES
    now,                \* the monotonic clock
    log,                \* log[Global]: _global_log, log[k]: _per_contract_log[k]
    inFlight,           \* _concurrent_count
    pc,                 \* where acquire() stands; "idle" outside of it
    key,                \* its contract_key (Global outside of it)
    deadline,           \* its deadline
    need,               \* the last value of _compute_required_sleep
    until,              \* when the current sleep is over
    granted             \* history: every timestamp ever recorded, per bucket

vars == <<now, log, inFlight, pc, key, deadline, need, until, granted>>

Buckets == Keys \cup {Global}
Limit(b) == IF b = Global THEN GlobalLimit ELSE ContractLimit
Window(b) == IF b = Global THEN GlobalWindow ELSE ContractWindow

Init ==
    /\ now = 0
    /\ log = [b \in Buckets |-> <<>>]
    /\ inFlight = 0
    /\ pc = "idle"
    /\ key = Global
    /\ deadline = 0
    /\ need = 0
    /\ until = 0
    /\ granted = [b \in Buckets |-> <<>>]

\* The clock.
Tick ==
    /\ now < MaxTime
    /\ now' = now + 1
    /\ UNCHANGED <<log, inFlight, pc, key, deadline, need, until, granted>>

LastGrant == granted[Global][Len(granted[Global])]

\* acquire(k), up to the first turn of the loop in _wait_for_slot.
Acquire(k) ==
    /\ pc = "idle"
    /\ Len(granted[Global]) < MaxGrants
    /\ now + Timeout <= MaxTime
    /\ ClockAdvances /\ Len(granted[Global]) > 0 => now > LastGrant
    /\ pc' = "prune_global"
    /\ key' = k
    /\ deadline' = now + Timeout
    /\ UNCHANGED <<now, log, inFlight, need, until, granted>>

\* _prune_global, _prune_per_contract: pop while the head is older than the
\* window.  An entry exactly one window old stays.
Prune(b) ==
    /\ \E n \in 0 .. Len(log[b]) :
          /\ \A i \in 1 .. n : log[b][i] < now - Window(b)
          /\ n < Len(log[b]) => log[b][n + 1] >= now - Window(b)
          /\ log' = [log EXCEPT ![b] = SubSeq(@, n + 1, Len(@))]

PruneGlobal ==
    /\ pc = "prune_global"
    /\ Prune(Global)
    /\ pc' = "prune_contract"
    /\ UNCHANGED <<now, inFlight, key, deadline, need, until, granted>>

PruneContract ==
    /\ pc = "prune_contract"
    /\ Prune(key)
    /\ pc' = "compute"
    /\ UNCHANGED <<now, inFlight, key, deadline, need, until, granted>>

\* _compute_required_sleep: what each of the three caps asks for, and the
\* largest of them.
NonNeg(n) == IF n < 0 THEN 0 ELSE n

\* Mutant: a log one short of full is let through twice.
WindowDelayLate(b) ==
    IF Len(log[b]) > Limit(b) THEN NonNeg(log[b][1] + Window(b) - now) ELSE 0

WindowDelay(b) ==
    IF Len(log[b]) >= Limit(b) THEN NonNeg(log[b][1] + Window(b) - now) ELSE 0

\* Mutant: the cap on requests in flight is one too high.
PollDelayLate == IF inFlight > ConcurrentLimit THEN PollInterval ELSE 0

PollDelay == IF inFlight >= ConcurrentLimit THEN PollInterval ELSE 0
Larger(m, n) == IF m < n THEN n ELSE m

ComputeRequiredSleep ==
    LET secs == Larger(PollDelay, Larger(WindowDelay(Global), WindowDelay(key)))
    IN  /\ pc = "compute"
        /\ need' = secs
        /\ pc' = IF secs <= 0 THEN "record" ELSE "check"
        /\ UNCHANGED <<now, log, inFlight, key, deadline, until, granted>>

\* acquire() hands control back; its locals are gone.
Return ==
    /\ pc' = "idle"
    /\ key' = Global
    /\ deadline' = 0
    /\ need' = 0
    /\ until' = 0

\* The bail-out: BackoffQueueTimeout leaves acquire() with nothing recorded.
TimedOut ==
    /\ pc = "check"
    /\ now + need > deadline
    /\ Return
    /\ UNCHANGED <<now, log, inFlight, granted>>

\* Mutant: sleep whatever the deadline says.
SleepAlways ==
    /\ pc = "check"
    /\ until' = now + need
    /\ pc' = "sleep"
    /\ UNCHANGED <<now, log, inFlight, key, deadline, need, granted>>

Sleep ==
    /\ pc = "check"
    /\ now + need <= deadline
    /\ until' = now + need
    /\ pc' = "sleep"
    /\ UNCHANGED <<now, log, inFlight, key, deadline, need, granted>>

\* sleep_fn may oversleep, never undersleep.
Wake ==
    /\ pc = "sleep"
    /\ now >= until
    /\ pc' = "prune_global"
    /\ UNCHANGED <<now, log, inFlight, key, deadline, need, until, granted>>

\* _record_acquire: the caller's block begins.
RecordAcquire ==
    /\ pc = "record"
    /\ log' = [b \in Buckets |-> IF b \in {Global, key} THEN Append(log[b], now) ELSE log[b]]
    /\ granted' = [b \in Buckets |->
                      IF b \in {Global, key} THEN Append(granted[b], now) ELSE granted[b]]
    /\ inFlight' = inFlight + 1
    /\ Return
    /\ UNCHANGED now

\* _release: a block ends, normally or by an exception.
Release ==
    /\ pc = "idle"
    /\ inFlight > 0
    /\ inFlight' = inFlight - 1
    /\ UNCHANGED <<now, log, pc, key, deadline, need, until, granted>>

\* global_count() and per_contract_count() prune as they look.
Inspect(b) ==
    /\ pc = "idle"
    /\ Prune(b)
    /\ UNCHANGED <<now, inFlight, pc, key, deadline, need, until, granted>>

\* One step inside acquire().
Step ==
    \/ PruneGlobal
    \/ PruneContract
    \/ ComputeRequiredSleep
    \/ TimedOut
    \/ Sleep
    \/ Wake
    \/ RecordAcquire

Next ==
    \/ Tick
    \/ \E k \in Keys : Acquire(k)
    \/ Step
    \/ Release
    \/ \E b \in Buckets : Inspect(b)

\* The thread inside acquire() runs, and the clock goes on.
Fairness == WF_vars(Step) /\ WF_vars(Tick)

Spec == Init /\ [][Next]_vars /\ Fairness

-----------------------------------------------------------------------------
(* Properties                                                                *)

PCs == {"idle", "prune_global", "prune_contract", "compute", "check", "sleep", "record"}

\* Every variable keeps its shape.
TypeOK ==
    /\ now \in Nat
    /\ log \in [Buckets -> Seq(Nat)]
    /\ inFlight \in Nat
    /\ pc \in PCs
    /\ key \in Buckets /\ (pc # "idle" => key \in Keys)
    /\ deadline \in Nat /\ need \in Nat /\ until \in Nat
    /\ granted \in [Buckets -> Seq(Nat)]

\* The rolling caps, over the whole history and not just over what the logs
\* still remember: Limit + 1 requests of a bucket span at least its window, so
\* that no window (t - W, t] holds more than Limit of them.
RollingCap ==
    \A b \in Buckets : \A i \in DOMAIN granted[b] :
        i + Limit(b) \in DOMAIN granted[b] =>
            granted[b][i + Limit(b)] >= granted[b][i] + Window(b)

\* Never more requests in flight than the cap, although the check and the
\* increment are steps apart.
ConcurrencyCap == inFlight <= ConcurrentLimit

\* Pruning forgets nothing that still counts: a log is the end of its bucket's
\* history, and what was dropped is older than the window.
LogIsRecent ==
    \A b \in Buckets :
        LET dropped == Len(granted[b]) - Len(log[b])
        IN  /\ dropped >= 0
            /\ \A i \in DOMAIN log[b] : log[b][i] = granted[b][i + dropped]
            /\ \A i \in 1 .. dropped : granted[b][i] < now - Window(b)

\* acquire() never hangs: it ends with a slot or with a timeout, also when the
\* only requests in flight are the caller's own and no slot can come free.
AcquireEnds == pc # "idle" ~> pc = "idle"
=============================================================================
