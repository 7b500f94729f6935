----------------------- MODULE BarVerification_proofs -----------------------
(***************************************************************************)
(* Theorems about the rate limiter, and about IBKRHistoricalDataSource and  *)
(* verify_bar over it: the caps, the slots of nested calls, the answers of  *)
(* the source and the verified bars, for every limit, window, timeout, set  *)
(* of keys, sources, sessions and bars and every interleaving of calls,     *)
(* failures, timeouts and the clock.                                        *)
(***************************************************************************)
EXTENDS BarVerification, SumTheorems

-----------------------------------------------------------------------------
(* The limiter by itself                                                     *)

LEMMA BucketFacts ==
    /\ Global \in Buckets /\ Keys \subseteq Buckets
    /\ \A b \in Buckets : Limit(b) \in Nat \ {0} /\ Window(b) \in Nat \ {0}
BY QueueAssumption DEF Buckets, Limit, Window

\* What Prune does to the log of its bucket.
LEMMA PruneFacts ==
    ASSUME TypeOK, NEW b \in Buckets, Prune(b)
    PROVE  /\ log' \in [Buckets -> Seq(Nat)]
           /\ \A c \in Buckets \ {b} : log'[c] = log[c]
           /\ \E n \in 0 .. Len(log[b]) :
                 /\ Len(log'[b]) = Len(log[b]) - n
                 /\ \A i \in 1 .. (Len(log[b]) - n) : log'[b][i] = log[b][i + n]
                 /\ \A i \in 1 .. n : log[b][i] < now - Window(b)
                 /\ n < Len(log[b]) => log[b][n + 1] >= now - Window(b)
<1>1. PICK n \in 0 .. Len(log[b]) :
          /\ \A i \in 1 .. n : log[b][i] < now - Window(b)
          /\ n < Len(log[b]) => log[b][n + 1] >= now - Window(b)
          /\ log' = [log EXCEPT ![b] = SubSeq(log[b], n + 1, Len(log[b]))]
  BY DEF Prune
<1> DEFINE s == log[b]
           t == SubSeq(s, n + 1, Len(s))
<1>2. s \in Seq(Nat) /\ Len(s) \in Nat /\ n \in Nat /\ log \in [Buckets -> Seq(Nat)]
  BY DEF TypeOK
<1>3. /\ t \in Seq(Nat) /\ Len(t) = Len(s) - n
      /\ \A i \in 1 .. (Len(s) - n) : t[i] = s[i + n]
  BY <1>1, <1>2
<1> HIDE DEF s, t
<1>4. log' = [log EXCEPT ![b] = t]
  BY <1>1 DEF s, t
<1>5. log'[b] = t /\ log' \in [Buckets -> Seq(Nat)]
      /\ \A c \in Buckets \ {b} : log'[c] = log[c]
  BY <1>2, <1>3, <1>4
<1> QED
  BY <1>1, <1>3, <1>5 DEF s

\* What RecordAcquire does to the log and the history of each bucket.
LEMMA RecordFacts ==
    ASSUME TypeOK, RecordAcquire
    PROVE  /\ log' \in [Buckets -> Seq(Nat)] /\ granted' \in [Buckets -> Seq(Nat)]
           /\ \A b \in Buckets \ {Global, key} : log'[b] = log[b] /\ granted'[b] = granted[b]
           /\ \A b \in {Global, key} \cap Buckets :
                 /\ log'[b] = Append(log[b], now) /\ granted'[b] = Append(granted[b], now)
           /\ key \in Keys
BY DEF TypeOK, RecordAcquire

\* Appending to a sequence of numbers.
LEMMA AppendFacts ==
    ASSUME NEW s \in Seq(Nat), NEW x \in Nat
    PROVE  /\ Append(s, x) \in Seq(Nat)
           /\ Len(Append(s, x)) = Len(s) + 1
           /\ Append(s, x)[Len(s) + 1] = x
           /\ \A i \in 1 .. Len(s) : Append(s, x)[i] = s[i]
           /\ DOMAIN s = 1 .. Len(s)
           /\ Len(s) \in Nat
OBVIOUS

\* The three delays are numbers, and none of them is positive when the largest
\* is not.
LEMMA DelayTypes ==
    ASSUME TypeOK
    PROVE  /\ \A b \in Buckets : WindowDelay(b) \in Nat
           /\ PollDelay \in Nat
           /\ Larger(PollDelay, Larger(WindowDelay(Global), WindowDelay(key))) <= 0 =>
                PollDelay = 0 /\ WindowDelay(Global) = 0 /\ WindowDelay(key) = 0
<1>1. ASSUME NEW b \in Buckets PROVE WindowDelay(b) \in Nat
  <2> SUFFICES ASSUME Len(log[b]) >= Limit(b)
               PROVE  log[b][1] + Window(b) - now \in Int
    BY DEF WindowDelay, NonNeg
  <2>1. log[b] \in Seq(Nat) /\ Limit(b) \in Nat \ {0} /\ Window(b) \in Nat /\ now \in Nat
    BY BucketFacts DEF TypeOK
  <2>2. log[b][1] \in Nat
    BY <2>1
  <2> QED
    BY <2>1, <2>2
<1>2. PollDelay \in Nat
  BY QueueAssumption DEF PollDelay
<1>3. WindowDelay(Global) \in Nat /\ WindowDelay(key) \in Nat
  BY <1>1, BucketFacts DEF TypeOK
<1> QED
  BY <1>1, <1>2, <1>3 DEF Larger

LEMMA TypeOKInit == Init => TypeOK
BY BucketFacts DEF Init, TypeOK, PCs

LEMMA TypeOKStep == TypeOK /\ [Next]_vars => TypeOK'
<1> SUFFICES ASSUME TypeOK, [Next]_vars PROVE TypeOK'
  OBVIOUS
<1> USE BucketFacts
<1>1. CASE Tick
  BY <1>1 DEF Tick, TypeOK
<1>2. ASSUME NEW k \in Keys, Acquire(k) PROVE TypeOK'
  BY <1>2, QueueAssumption DEF Acquire, TypeOK, PCs
<1>3. CASE PruneGlobal
  <2>1. log' \in [Buckets -> Seq(Nat)]
    BY <1>3, PruneFacts DEF PruneGlobal
  <2> QED
    BY <1>3, <2>1 DEF PruneGlobal, TypeOK, PCs
<1>4. CASE PruneContract
  <2>1. log' \in [Buckets -> Seq(Nat)]
    BY <1>4, PruneFacts DEF PruneContract, TypeOK
  <2> QED
    BY <1>4, <2>1 DEF PruneContract, TypeOK, PCs
<1>5. CASE ComputeRequiredSleep
  <2>1. Larger(PollDelay, Larger(WindowDelay(Global), WindowDelay(key))) \in Nat
    BY DelayTypes DEF Larger, TypeOK
  <2> QED
    BY <1>5, <2>1 DEF ComputeRequiredSleep, TypeOK, PCs
<1>6. CASE TimedOut
  BY <1>6 DEF TimedOut, Return, TypeOK, PCs
<1>7. CASE Sleep
  BY <1>7 DEF Sleep, TypeOK, PCs
<1>8. CASE Wake
  BY <1>8 DEF Wake, TypeOK, PCs
<1>9. CASE RecordAcquire
  <2>1. log' \in [Buckets -> Seq(Nat)] /\ granted' \in [Buckets -> Seq(Nat)]
    BY <1>9, RecordFacts
  <2> QED
    BY <1>9, <2>1 DEF RecordAcquire, Return, TypeOK, PCs
<1>10. CASE Release
  BY <1>10 DEF Release, TypeOK
<1>11. ASSUME NEW b \in Buckets, Inspect(b) PROVE TypeOK'
  <2>1. log' \in [Buckets -> Seq(Nat)]
    BY <1>11, PruneFacts DEF Inspect
  <2> QED
    BY <1>11, <2>1 DEF Inspect, TypeOK
<1>12. CASE UNCHANGED vars
  BY <1>12 DEF vars, TypeOK
<1> QED
  BY <1>1, <1>2, <1>3, <1>4, <1>5, <1>6, <1>7, <1>8, <1>9, <1>10, <1>11, <1>12
     DEF Next, Step

LEMMA TypeCorrect == Spec => []TypeOK
BY TypeOKInit, TypeOKStep, PTL DEF Spec

-----------------------------------------------------------------------------
(* The cap on requests in flight                                             *)

\* Between the check and the increment nothing else takes a slot.
SlotFree == pc = "record" => inFlight < ConcurrentLimit

LEMMA ConcurrencyStep ==
    TypeOK /\ ConcurrencyCap /\ SlotFree /\ [Next]_vars => ConcurrencyCap' /\ SlotFree'
<1> SUFFICES ASSUME TypeOK, ConcurrencyCap, SlotFree, [Next]_vars
             PROVE  ConcurrencyCap' /\ SlotFree'
  OBVIOUS
<1>0. inFlight \in Nat /\ ConcurrentLimit \in Nat /\ PollInterval \in Nat \ {0}
  BY QueueAssumption DEF TypeOK
<1>1. CASE ComputeRequiredSleep
  <2>1. pc' = "record" => PollDelay = 0
    BY <1>1, DelayTypes DEF ComputeRequiredSleep
  <2>2. pc' = "record" => inFlight < ConcurrentLimit
    BY <1>0, <2>1 DEF PollDelay
  <2> QED
    BY <1>1, <2>2 DEF ComputeRequiredSleep, ConcurrencyCap, SlotFree
<1>2. CASE RecordAcquire
  BY <1>0, <1>2 DEF RecordAcquire, Return, ConcurrencyCap, SlotFree
<1>3. CASE Release
  BY <1>0, <1>3 DEF Release, ConcurrencyCap, SlotFree
<1> QED
  BY <1>1, <1>2, <1>3
     DEF Next, Step, vars, Tick, Acquire, PruneGlobal, PruneContract, TimedOut, Return,
         Sleep, Wake, Inspect, ConcurrencyCap, SlotFree

\* The number of slots held never exceeds concurrent_limit, for every caller
\* behaviour and every progress of the clock (backoff_queue.py, _wait_for_slot
\* and _record_acquire).
THEOREM ConcurrencyIsCapped == Spec => []ConcurrencyCap
<1>1. Init => ConcurrencyCap /\ SlotFree
  BY QueueAssumption DEF Init, ConcurrencyCap, SlotFree
<1> QED
  BY <1>1, TypeCorrect, ConcurrencyStep, PTL DEF Spec

-----------------------------------------------------------------------------
(* What pruning forgets                                                      *)

LEMMA RecentPrune ==
    ASSUME TypeOK, LogIsRecent, NEW b \in Buckets, Prune(b), UNCHANGED <<now, granted>>
    PROVE  LogIsRecent'
<1>1. /\ log' \in [Buckets -> Seq(Nat)]
      /\ \A c \in Buckets \ {b} : log'[c] = log[c]
  BY PruneFacts
<1>2. PICK n \in 0 .. Len(log[b]) :
          /\ Len(log'[b]) = Len(log[b]) - n
          /\ \A i \in 1 .. (Len(log[b]) - n) : log'[b][i] = log[b][i + n]
          /\ \A i \in 1 .. n : log[b][i] < now - Window(b)
  BY PruneFacts
<1>3. SUFFICES ASSUME NEW c \in Buckets
               PROVE  LET dropped == Len(granted[c]) - Len(log'[c])
                      IN  /\ dropped >= 0
                          /\ \A i \in DOMAIN log'[c] : log'[c][i] = granted[c][i + dropped]
                          /\ \A i \in 1 .. dropped : granted[c][i] < now - Window(c)
  BY DEF LogIsRecent
<1>4. CASE c # b
  BY <1>1, <1>4 DEF LogIsRecent
<1>5. CASE c = b
  <2> DEFINE d == Len(granted[b]) - Len(log[b])
             e == Len(granted[b]) - Len(log'[b])
  <2>1. /\ log[b] \in Seq(Nat) /\ log'[b] \in Seq(Nat) /\ granted[b] \in Seq(Nat)
        /\ now \in Nat /\ Window(b) \in Nat
    BY <1>1, BucketFacts DEF TypeOK
  <2>2. /\ Len(log[b]) \in Nat /\ Len(granted[b]) \in Nat /\ n \in Nat
        /\ Len(log'[b]) \in Nat
        /\ DOMAIN log[b] = 1 .. Len(log[b]) /\ DOMAIN log'[b] = 1 .. Len(log'[b])
    BY <2>1
  <2>3. e = d + n /\ d \in Nat /\ e \in Nat
    BY <1>2, <2>2 DEF LogIsRecent
  <2>4. /\ \A i \in 1 .. Len(log[b]) : log[b][i] = granted[b][i + d]
        /\ \A i \in 1 .. d : granted[b][i] < now - Window(b)
    BY <2>2 DEF LogIsRecent
  <2> HIDE DEF d, e
  <2>5. ASSUME NEW i \in DOMAIN log'[b] PROVE log'[b][i] = granted[b][i + e]
    <3>1. i \in 1 .. (Len(log[b]) - n) /\ i + n \in 1 .. Len(log[b])
      BY <1>2, <2>2
    <3>2. log'[b][i] = log[b][i + n] /\ log[b][i + n] = granted[b][(i + n) + d]
      BY <1>2, <2>4, <3>1
    <3>3. (i + n) + d = i + e
      BY <2>2, <2>3, <3>1
    <3> QED
      BY <3>2, <3>3
  <2>6. ASSUME NEW i \in 1 .. e PROVE granted[b][i] < now - Window(b)
    <3>1. CASE i \in 1 .. d
      BY <2>4, <3>1
    <3>2. CASE i \notin 1 .. d
      <4>1. i - d \in 1 .. n /\ i - d \in 1 .. Len(log[b]) /\ (i - d) + d = i
        BY <1>2, <2>2, <2>3, <3>2
      <4> QED
        BY <1>2, <2>4, <4>1
    <3> QED
      BY <3>1, <3>2
  <2>7. e >= 0
    BY <2>3
  <2>8. /\ e >= 0
        /\ \A i \in DOMAIN log'[c] : log'[c][i] = granted[c][i + e]
        /\ \A i \in 1 .. e : granted[c][i] < now - Window(c)
    BY <1>5, <2>5, <2>6, <2>7, Zenon
  <2>9. e = Len(granted[c]) - Len(log'[c])
    BY <1>5 DEF e
  <2> QED
    BY <2>8, <2>9, Zenon
<1> QED
  BY <1>4, <1>5

\* Appending the same timestamp to a log and to its history.
LEMMA RecentAppend ==
    ASSUME NEW l \in Seq(Nat), NEW g \in Seq(Nat), NEW x \in Nat, NEW d \in Nat,
           Len(g) = Len(l) + d,
           \A i \in 1 .. Len(l) : l[i] = g[i + d]
    PROVE  \A i \in 1 .. (Len(l) + 1) : Append(l, x)[i] = Append(g, x)[i + d]
<1> SUFFICES ASSUME NEW i \in 1 .. (Len(l) + 1)
             PROVE  Append(l, x)[i] = Append(g, x)[i + d]
  OBVIOUS
<1>0. Len(l) \in Nat /\ Len(g) \in Nat
  OBVIOUS
<1>1. CASE i \in 1 .. Len(l)
  <2>1. i + d \in 1 .. Len(g)
    BY <1>0, <1>1
  <2>2. Append(l, x)[i] = l[i] /\ Append(g, x)[i + d] = g[i + d]
    BY <1>1, <2>1, AppendFacts
  <2> QED
    BY <1>1, <2>2
<1>2. CASE i = Len(l) + 1
  <2>1. i + d = Len(g) + 1
    BY <1>0, <1>2
  <2>2. Append(l, x)[Len(l) + 1] = x
    BY AppendFacts
  <2>3. Append(g, x)[Len(g) + 1] = x
    BY AppendFacts
  <2>4. Append(l, x)[i] = x
    BY <1>2, <2>2
  <2>5. Append(g, x)[i + d] = x
    BY <2>1, <2>3
  <2> QED
    BY <2>4, <2>5
<1>3. i \in 1 .. Len(l) \/ i = Len(l) + 1
  BY <1>0
<1> QED
  BY <1>1, <1>2, <1>3, Zenon

LEMMA RecentRecord ==
    ASSUME TypeOK, LogIsRecent, RecordAcquire
    PROVE  LogIsRecent'
<1>1. now' = now
  BY DEF RecordAcquire
<1>2. SUFFICES ASSUME NEW c \in Buckets
               PROVE  LET dropped == Len(granted'[c]) - Len(log'[c])
                      IN  /\ dropped >= 0
                          /\ \A i \in DOMAIN log'[c] : log'[c][i] = granted'[c][i + dropped]
                          /\ \A i \in 1 .. dropped : granted'[c][i] < now - Window(c)
  BY <1>1 DEF LogIsRecent
<1>3. CASE c \notin {Global, key}
  BY <1>3, RecordFacts DEF LogIsRecent
<1>4. CASE c \in {Global, key}
  <2> DEFINE l == log[c]
             g == granted[c]
             d == Len(g) - Len(l)
  <2>1. log'[c] = Append(l, now) /\ granted'[c] = Append(g, now)
    BY <1>4, RecordFacts
  <2>2. l \in Seq(Nat) /\ g \in Seq(Nat) /\ now \in Nat
    BY DEF TypeOK
  <2>3. /\ d >= 0 /\ \A i \in DOMAIN l : l[i] = g[i + d]
        /\ \A i \in 1 .. d : g[i] < now - Window(c)
    BY DEF LogIsRecent
  <2> HIDE DEF l, g
  <2>4. Len(l) \in Nat /\ Len(g) \in Nat /\ DOMAIN l = 1 .. Len(l)
    BY <2>2
  <2>5. d \in Nat /\ Len(g) = Len(l) + d
    BY <2>3, <2>4
  <2> HIDE DEF d
  <2>6. /\ Len(log'[c]) = Len(l) + 1 /\ Len(granted'[c]) = Len(g) + 1
        /\ DOMAIN log'[c] = 1 .. (Len(l) + 1)
    BY <2>1, <2>2
  <2>7. Len(granted'[c]) - Len(log'[c]) = d
    BY <2>4, <2>5, <2>6
  <2>8. \A i \in DOMAIN log'[c] : log'[c][i] = granted'[c][i + d]
    <3>1. \A i \in 1 .. Len(l) : l[i] = g[i + d]
      BY <2>3, <2>4
    <3>2. \A i \in 1 .. (Len(l) + 1) : Append(l, now)[i] = Append(g, now)[i + d]
      BY <2>2, <2>5, <3>1, RecentAppend
    <3> QED
      BY <2>1, <2>6, <3>2
  <2>9. ASSUME NEW i \in 1 .. d PROVE granted'[c][i] < now - Window(c)
    <3>1. i \in 1 .. Len(g)
      BY <2>4, <2>5
    <3>2. Append(g, now)[i] = g[i]
      BY <2>2, <3>1, AppendFacts
    <3> QED
      BY <2>1, <2>3, <3>2
  <2>10. d >= 0
    BY <2>5
  <2> QED
    BY <2>7, <2>8, <2>9, <2>10
<1> QED
  BY <1>3, <1>4

LEMMA RecentStep == TypeOK /\ LogIsRecent /\ [Next]_vars => LogIsRecent'
<1> SUFFICES ASSUME TypeOK, LogIsRecent, [Next]_vars PROVE LogIsRecent'
  OBVIOUS
<1>1. CASE Tick
  <2>1. now' = now + 1 /\ log' = log /\ granted' = granted
    BY <1>1 DEF Tick
  <2>2. SUFFICES ASSUME NEW c \in Buckets, NEW i \in 1 .. (Len(granted[c]) - Len(log[c]))
                 PROVE  granted[c][i] < now' - Window(c)
    BY <2>1 DEF LogIsRecent
  <2>3. /\ granted[c] \in Seq(Nat) /\ log[c] \in Seq(Nat) /\ now \in Nat
        /\ Window(c) \in Nat
    BY BucketFacts DEF TypeOK
  <2>4. granted[c][i] \in Nat
    <3>1. i \in 1 .. Len(granted[c])
      BY <2>3
    <3> QED
      BY <2>3, <3>1
  <2>5. granted[c][i] < now - Window(c)
    BY DEF LogIsRecent
  <2> QED
    BY <2>1, <2>3, <2>4, <2>5
<1>2. CASE PruneGlobal
  BY <1>2, RecentPrune, BucketFacts DEF PruneGlobal
<1>3. CASE PruneContract
  BY <1>3, RecentPrune DEF PruneContract, TypeOK
<1>4. CASE RecordAcquire
  BY <1>4, RecentRecord
<1>5. ASSUME NEW b \in Buckets, Inspect(b) PROVE LogIsRecent'
  BY <1>5, RecentPrune DEF Inspect
<1>6. CASE UNCHANGED <<now, log, granted>>
  BY <1>6 DEF LogIsRecent
<1> QED
  BY <1>1, <1>2, <1>3, <1>4, <1>5, <1>6
     DEF Next, Step, vars, Acquire, ComputeRequiredSleep, TimedOut, Sleep, Wake, Release

\* Pruning only ever drops requests that are out of every window still to come
\* (backoff_queue.py, _prune_global and _prune_per_contract).
THEOREM LogsAreRecent == Spec => []LogIsRecent
<1>1. Init => LogIsRecent
  BY DEF Init, LogIsRecent
<1> QED
  BY <1>1, TypeCorrect, RecentStep, PTL DEF Spec

-----------------------------------------------------------------------------
(* The rolling caps                                                          *)

\* Every recorded timestamp is at most the last one recorded in any bucket.
GrantsOrdered ==
    \A b \in Buckets : \A i \in DOMAIN granted[b] :
        Len(granted[Global]) > 0 /\ granted[b][i] <= LastGrant

\* While acquire() runs, the clock is past every recorded timestamp.
ClockIsPast ==
    pc # "idle" => \A b \in Buckets : \A i \in DOMAIN granted[b] : granted[b][i] < now

\* A log may hold one entry too many: the one that was exactly one window old
\* at the last grant.
Overfull ==
    \A b \in Buckets : Len(log[b]) > Limit(b) =>
        /\ Len(log[b]) = Limit(b) + 1
        /\ Len(granted[Global]) > 0
        /\ log[b][1] + Window(b) <= LastGrant

\* Pruning brings a log back to its limit.
PrunedFit ==
    /\ pc \notin {"idle", "prune_global"} => Len(log[Global]) <= Limit(Global)
    /\ pc \notin {"idle", "prune_global", "prune_contract"} => Len(log[key]) <= Limit(key)

\* When the loop is left, a full log's oldest entry has expired.
MayRecord ==
    pc = "record" => \A b \in {Global, key} :
        Len(log[b]) >= Limit(b) => log[b][1] + Window(b) <= now

Paced == GrantsOrdered /\ ClockIsPast /\ Overfull /\ PrunedFit /\ MayRecord

\* What the sequences of a bucket look like to the provers.
LEMMA SeqFacts ==
    ASSUME TypeOK, NEW b \in Buckets
    PROVE  /\ log[b] \in Seq(Nat) /\ granted[b] \in Seq(Nat)
           /\ Len(log[b]) \in Nat /\ Len(granted[b]) \in Nat
           /\ DOMAIN log[b] = 1 .. Len(log[b]) /\ DOMAIN granted[b] = 1 .. Len(granted[b])
           /\ \A i \in 1 .. Len(log[b]) : log[b][i] \in Nat
           /\ \A i \in 1 .. Len(granted[b]) : granted[b][i] \in Nat
           /\ now \in Nat /\ Limit(b) \in Nat \ {0} /\ Window(b) \in Nat
<1>1. log[b] \in Seq(Nat) /\ granted[b] \in Seq(Nat) /\ now \in Nat
  BY DEF TypeOK
<1>2. Limit(b) \in Nat \ {0} /\ Window(b) \in Nat
  BY BucketFacts
<1> QED
  BY <1>1, <1>2

\* While acquire() runs, a prune leaves at most Limit entries.
LEMMA PruneFits ==
    ASSUME TypeOK, Overfull, ClockIsPast, NEW b \in Buckets, Prune(b), pc # "idle"
    PROVE  Len(log'[b]) <= Limit(b)
<1>1. PICK n \in 0 .. Len(log[b]) :
          /\ Len(log'[b]) = Len(log[b]) - n
          /\ n < Len(log[b]) => log[b][n + 1] >= now - Window(b)
  BY PruneFacts
<1>2. CASE Len(log[b]) <= Limit(b)
  BY <1>1, <1>2, SeqFacts
<1>3. CASE Len(log[b]) > Limit(b)
  <2>1. /\ Len(log[b]) = Limit(b) + 1 /\ log[b][1] + Window(b) <= LastGrant
        /\ Len(granted[Global]) > 0
    BY <1>3 DEF Overfull
  <2>2. LastGrant \in Nat /\ LastGrant < now
    <3>1. Len(granted[Global]) \in DOMAIN granted[Global]
      BY <2>1, SeqFacts, BucketFacts
    <3>2. LastGrant < now
      BY <3>1, BucketFacts DEF ClockIsPast, LastGrant
    <3> QED
      BY <3>1, <3>2, SeqFacts, BucketFacts DEF LastGrant
  <2>3. log[b][1] \in Nat /\ now \in Nat /\ Window(b) \in Nat /\ Limit(b) \in Nat
    BY <2>1, SeqFacts
  <2>4. log[b][1] < now - Window(b)
    BY <2>1, <2>2, <2>3
  <2>5. n # 0
    <3> SUFFICES ASSUME n = 0 PROVE FALSE
      OBVIOUS
    <3>1. log[b][n + 1] >= now - Window(b) /\ n + 1 = 1
      BY <1>1, <2>1, <2>3
    <3> QED
      BY <2>3, <2>4, <3>1
  <2> QED
    BY <1>1, <2>1, <2>3, <2>5
<1> QED
  BY <1>2, <1>3, SeqFacts

\* A prune, inside acquire() or not, never breaks Overfull.
LEMMA PruneOverfull ==
    ASSUME TypeOK, Overfull, NEW b \in Buckets, Prune(b), UNCHANGED granted
    PROVE  Overfull'
<1>1. \A c \in Buckets \ {b} : log'[c] = log[c]
  BY PruneFacts
<1>2. PICK n \in 0 .. Len(log[b]) :
          /\ Len(log'[b]) = Len(log[b]) - n
          /\ \A i \in 1 .. (Len(log[b]) - n) : log'[b][i] = log[b][i + n]
  BY PruneFacts
<1>3. SUFFICES ASSUME NEW c \in Buckets, Len(log'[c]) > Limit(c)
               PROVE  /\ Len(log'[c]) = Limit(c) + 1
                      /\ Len(granted[Global]) > 0
                      /\ log'[c][1] + Window(c) <= LastGrant
  BY DEF Overfull, LastGrant
<1>4. CASE c # b
  BY <1>1, <1>3, <1>4 DEF Overfull
<1>5. CASE c = b
  <2>1. Len(log[b]) > Limit(b)
    BY <1>2, <1>3, <1>5, SeqFacts
  <2>2. /\ Len(log[b]) = Limit(b) + 1 /\ Len(granted[Global]) > 0
        /\ log[b][1] + Window(b) <= LastGrant
    BY <2>1 DEF Overfull
  <2>3. n = 0
    BY <1>2, <1>3, <1>5, <2>2, SeqFacts
  <2>4. 1 \in 1 .. (Len(log[b]) - n) /\ 1 + n = 1
    BY <2>2, <2>3, SeqFacts
  <2>5. log'[b][1] = log[b][1]
    BY <1>2, <2>4
  <2>6. Len(log'[b]) = Len(log[b])
    BY <1>2, <2>3, SeqFacts
  <2> QED
    BY <1>5, <2>2, <2>5, <2>6
<1> QED
  BY <1>4, <1>5

\* One more grant in a bucket.
LEMMA RecordBucket ==
    ASSUME TypeOK, Paced, LogIsRecent, RollingCap, RecordAcquire,
           NEW b \in {Global, key}
    PROVE  /\ Len(log'[b]) > Limit(b) =>
                 Len(log'[b]) = Limit(b) + 1 /\ log'[b][1] + Window(b) <= now
           /\ \A i \in DOMAIN granted'[b] :
                 i + Limit(b) \in DOMAIN granted'[b] =>
                    granted'[b][i + Limit(b)] >= granted'[b][i] + Window(b)
<1> DEFINE l == log[b]
           g == granted[b]
           L == Limit(b)
           W == Window(b)
           d == Len(g) - Len(l)
<1>1. b \in Buckets /\ key \in Keys /\ pc = "record"
  BY BucketFacts, RecordFacts DEF TypeOK, RecordAcquire
<1>2. log'[b] = Append(l, now) /\ granted'[b] = Append(g, now)
  BY <1>1, RecordFacts
<1>3. /\ l \in Seq(Nat) /\ g \in Seq(Nat) /\ now \in Nat /\ L \in Nat \ {0} /\ W \in Nat
      /\ Len(l) \in Nat /\ Len(g) \in Nat
      /\ DOMAIN l = 1 .. Len(l) /\ DOMAIN g = 1 .. Len(g)
      /\ \A i \in 1 .. Len(l) : l[i] \in Nat
      /\ \A i \in 1 .. Len(g) : g[i] \in Nat
  BY <1>1, SeqFacts
<1>4. Len(l) <= L /\ (Len(l) >= L => l[1] + W <= now)
  BY <1>1 DEF Paced, PrunedFit, MayRecord
<1>5. /\ d >= 0 /\ \A i \in 1 .. Len(l) : l[i] = g[i + d]
      /\ \A i \in 1 .. d : g[i] < now - W
  BY <1>1, <1>3 DEF LogIsRecent
<1>6. \A i \in 1 .. Len(g) : i + L \in 1 .. Len(g) => g[i + L] >= g[i] + W
  BY <1>1, <1>3 DEF RollingCap
<1> HIDE DEF l, g, L, W
<1>a. Len(l) \in Nat /\ Len(g) \in Nat /\ L \in Nat \ {0} /\ Len(l) <= L /\ d >= 0
  BY <1>3, <1>4, <1>5
<1>7. /\ Len(Append(l, now)) = Len(l) + 1
      /\ \A i \in 1 .. Len(l) : Append(l, now)[i] = l[i]
  BY <1>3, AppendFacts
<1>8. /\ Append(g, now) \in Seq(Nat) /\ Len(Append(g, now)) = Len(g) + 1
      /\ Append(g, now)[Len(g) + 1] = now
      /\ \A i \in 1 .. Len(g) : Append(g, now)[i] = g[i]
  BY <1>3, AppendFacts
<1>9. Len(Append(l, now)) > L =>
          Len(Append(l, now)) = L + 1 /\ Append(l, now)[1] + W <= now
  <2> SUFFICES ASSUME Len(Append(l, now)) > L
               PROVE  Len(Append(l, now)) = L + 1 /\ Append(l, now)[1] + W <= now
    OBVIOUS
  <2>0. Len(l) + 1 > L
    BY <1>7
  <2>1. Len(l) = L /\ 1 \in 1 .. Len(l)
    BY <1>a, <2>0
  <2>2. Append(l, now)[1] = l[1]
    BY <1>7, <2>1
  <2>3. Len(Append(l, now)) = L + 1
    BY <1>7, <2>1
  <2>4. l[1] + W <= now
    BY <1>3, <1>4, <2>1
  <2> QED
    BY <2>2, <2>3, <2>4
<1>10. DOMAIN Append(g, now) = 1 .. (Len(g) + 1)
  BY <1>8
<1>11. ASSUME NEW i \in 1 .. (Len(g) + 1), i + L \in 1 .. (Len(g) + 1)
       PROVE  Append(g, now)[i + L] >= Append(g, now)[i] + W
  <2>1. i \in 1 .. Len(g)
    BY <1>3, <1>11
  <2>2. Append(g, now)[i] = g[i] /\ g[i] \in Nat
    BY <1>3, <1>8, <2>1
  <2>3. CASE i + L \in 1 .. Len(g)
    <3>1. Append(g, now)[i + L] = g[i + L] /\ g[i + L] >= g[i] + W
      BY <1>6, <1>8, <2>1, <2>3
    <3> QED
      BY <2>2, <3>1
  <2>4. CASE i + L = Len(g) + 1
    <3>1. Append(g, now)[i + L] = now
      BY <1>8, <2>4
    <3>2. CASE i \in 1 .. d
      <4>1. g[i] < now - W
        BY <1>5, <3>2
      <4>2. now >= g[i] + W
        BY <1>3, <2>2, <4>1
      <4> QED
        BY <2>2, <3>1, <4>2
    <3>3. CASE i \notin 1 .. d
      <4>1. i = 1 + d /\ Len(l) >= L /\ 1 \in 1 .. Len(l)
        BY <1>a, <2>1, <2>4, <3>3
      <4>2. l[1] = g[1 + d]
        BY <1>5, <4>1
      <4>3. l[1] = g[i] /\ l[1] + W <= now
        BY <1>4, <4>1, <4>2
      <4>4. now >= g[i] + W
        BY <1>3, <2>2, <4>3
      <4> QED
        BY <2>2, <3>1, <4>4
    <3> QED
      BY <3>2, <3>3
  <2>5. i + L \in 1 .. Len(g) \/ i + L = Len(g) + 1
    BY <1>3, <1>11
  <2> QED
    BY <2>3, <2>4, <2>5, Zenon
<1> QED
  BY <1>2, <1>9, <1>10, <1>11 DEF L, W

LEMMA RecordPaced ==
    ASSUME TypeOK, Paced, LogIsRecent, RollingCap, RecordAcquire
    PROVE  RollingCap' /\ Paced'
<1>1. pc = "record" /\ pc' = "idle" /\ now' = now /\ key \in Keys
  BY RecordFacts DEF RecordAcquire, Return
<1>2. \A b \in Buckets \ {Global, key} : log'[b] = log[b] /\ granted'[b] = granted[b]
  BY RecordFacts
<1>3. /\ granted'[Global] = Append(granted[Global], now)
      /\ \A b \in {Global, key} : granted'[b] = Append(granted[b], now)
  BY <1>1, BucketFacts, RecordFacts
<1>4. Len(granted'[Global]) > 0 /\ LastGrant' = now
  <2>1. granted[Global] \in Seq(Nat) /\ now \in Nat
    BY BucketFacts DEF TypeOK
  <2>2. /\ Len(Append(granted[Global], now)) = Len(granted[Global]) + 1
        /\ Append(granted[Global], now)[Len(granted[Global]) + 1] = now
        /\ Len(granted[Global]) \in Nat
    BY <2>1, AppendFacts
  <2>3. LastGrant' = granted'[Global][Len(granted'[Global])]
    BY DEF LastGrant
  <2> QED
    BY <1>3, <2>2, <2>3
<1>5. RollingCap'
  BY <1>2, RecordBucket DEF RollingCap
<1>6. GrantsOrdered'
  <2> SUFFICES ASSUME NEW b \in Buckets, NEW i \in DOMAIN granted'[b]
               PROVE  granted'[b][i] <= now
    BY <1>4 DEF GrantsOrdered
  <2>1. \A j \in 1 .. Len(granted[b]) : granted[b][j] <= now
    BY <1>1, SeqFacts DEF Paced, ClockIsPast
  <2>2. CASE b \notin {Global, key}
    BY <1>2, <2>1, <2>2, SeqFacts
  <2>3. CASE b \in {Global, key}
    <3>1. granted[b] \in Seq(Nat) /\ now \in Nat
      BY DEF TypeOK
    <3>2. granted'[b] = Append(granted[b], now)
      BY <1>3, <2>3
    <3>3. /\ Append(granted[b], now) \in Seq(Nat)
          /\ Len(Append(granted[b], now)) = Len(granted[b]) + 1
          /\ Append(granted[b], now)[Len(granted[b]) + 1] = now
          /\ \A j \in 1 .. Len(granted[b]) : Append(granted[b], now)[j] = granted[b][j]
          /\ Len(granted[b]) \in Nat
      BY <3>1, AppendFacts
    <3>4. DOMAIN Append(granted[b], now) = 1 .. (Len(granted[b]) + 1)
      BY <3>3
    <3>5. i \in 1 .. Len(granted[b]) \/ i = Len(granted[b]) + 1
      BY <3>2, <3>3, <3>4
    <3>6. CASE i \in 1 .. Len(granted[b])
      BY <2>1, <3>2, <3>3, <3>6
    <3>7. CASE i = Len(granted[b]) + 1
      <4>1. granted'[b][i] = now
        BY <3>2, <3>3, <3>7
      <4> QED
        BY <3>1, <4>1
    <3> QED
      BY <3>5, <3>6, <3>7, Zenon
  <2> QED
    BY <2>2, <2>3
<1>7. Overfull'
  <2> SUFFICES ASSUME NEW b \in Buckets, Len(log'[b]) > Limit(b)
               PROVE  Len(log'[b]) = Limit(b) + 1 /\ log'[b][1] + Window(b) <= now
    BY <1>4 DEF Overfull
  <2>1. CASE b \in {Global, key}
    BY <2>1, RecordBucket
  <2>2. CASE b \notin {Global, key}
    <3>1. /\ log'[b] = log[b] /\ Len(log[b]) = Limit(b) + 1 /\ Len(granted[Global]) > 0
          /\ log[b][1] + Window(b) <= LastGrant
      BY <1>2, <2>2 DEF Paced, Overfull
    <3>2. Len(granted[Global]) \in DOMAIN granted[Global]
      BY <3>1, SeqFacts, BucketFacts
    <3>3. LastGrant < now /\ LastGrant \in Nat
      BY <1>1, <3>2, SeqFacts, BucketFacts DEF Paced, ClockIsPast, LastGrant
    <3>4. log[b][1] \in Nat /\ now \in Nat /\ Window(b) \in Nat
      BY <3>1, SeqFacts
    <3> QED
      BY <3>1, <3>3, <3>4
  <2> QED
    BY <2>1, <2>2
<1> QED
  BY <1>1, <1>5, <1>6, <1>7 DEF Paced, ClockIsPast, PrunedFit, MayRecord

LEMMA PacedStep ==
    ASSUME ClockAdvances = TRUE
    PROVE  TypeOK /\ LogIsRecent /\ RollingCap /\ Paced /\ [Next]_vars => RollingCap' /\ Paced'
<1> SUFFICES ASSUME TypeOK, LogIsRecent, RollingCap, Paced, [Next]_vars
             PROVE  RollingCap' /\ Paced'
  OBVIOUS
<1>0. key \in Buckets /\ Global \in Buckets /\ (pc # "idle" => key \in Keys)
  BY BucketFacts DEF TypeOK
<1>1. CASE Tick
  <2>1. /\ now' = now + 1 /\ log' = log /\ granted' = granted /\ pc' = pc /\ key' = key
    BY <1>1 DEF Tick
  <2>2. ClockIsPast'
    <3> SUFFICES ASSUME pc # "idle", NEW b \in Buckets, NEW i \in DOMAIN granted[b]
                 PROVE  granted[b][i] < now + 1
      BY <2>1 DEF ClockIsPast
    <3>1. granted[b][i] < now /\ granted[b][i] \in Nat /\ now \in Nat
      BY SeqFacts DEF Paced, ClockIsPast
    <3> QED
      BY <3>1
  <2>3. MayRecord'
    <3> SUFFICES ASSUME pc = "record", NEW b \in {Global, key}, Len(log[b]) >= Limit(b)
                 PROVE  log[b][1] + Window(b) <= now + 1
      BY <2>1 DEF MayRecord
    <3>1. log[b][1] + Window(b) <= now
      BY DEF Paced, MayRecord
    <3>2. b \in Buckets
      BY <1>0
    <3>3. log[b][1] \in Nat /\ now \in Nat /\ Window(b) \in Nat
      BY <3>2, SeqFacts
    <3> QED
      BY <3>1, <3>3
  <2> QED
    BY <2>1, <2>2, <2>3 DEF Paced, GrantsOrdered, Overfull, PrunedFit, RollingCap, LastGrant
<1>2. ASSUME NEW k \in Keys, Acquire(k) PROVE RollingCap' /\ Paced'
  <2>1. /\ pc' = "prune_global" /\ UNCHANGED <<now, log, granted>>
        /\ Len(granted[Global]) > 0 => now > LastGrant
    BY <1>2 DEF Acquire
  <2>2. ClockIsPast'
    <3> SUFFICES ASSUME NEW b \in Buckets, NEW i \in DOMAIN granted[b]
                 PROVE  granted[b][i] < now
      BY <2>1 DEF ClockIsPast
    <3>1. Len(granted[Global]) > 0 /\ granted[b][i] <= LastGrant
      BY DEF Paced, GrantsOrdered
    <3>2. granted[b][i] \in Nat /\ now \in Nat
      BY SeqFacts
    <3>3. LastGrant \in Nat
      BY <3>1, SeqFacts, BucketFacts DEF LastGrant
    <3> QED
      BY <2>1, <3>1, <3>2, <3>3
  <2> QED
    BY <2>1, <2>2
       DEF Paced, GrantsOrdered, Overfull, PrunedFit, MayRecord, RollingCap, LastGrant
<1>3. CASE PruneGlobal
  <2>1. /\ pc = "prune_global" /\ pc' = "prune_contract" /\ Prune(Global)
        /\ UNCHANGED <<now, granted, key>>
    BY <1>3 DEF PruneGlobal
  <2>2. Len(log'[Global]) <= Limit(Global)
    BY <1>0, <2>1, PruneFits DEF Paced
  <2>3. Overfull'
    BY <1>0, <2>1, PruneOverfull DEF Paced
  <2> QED
    BY <2>1, <2>2, <2>3
       DEF Paced, GrantsOrdered, ClockIsPast, PrunedFit, MayRecord, RollingCap, LastGrant
<1>4. CASE PruneContract
  <2>1. /\ pc = "prune_contract" /\ pc' = "compute" /\ Prune(key)
        /\ UNCHANGED <<now, granted, key>>
    BY <1>4 DEF PruneContract
  <2>2. Len(log'[key]) <= Limit(key)
    BY <1>0, <2>1, PruneFits DEF Paced
  <2>3. Overfull'
    BY <1>0, <2>1, PruneOverfull DEF Paced
  <2>4. log'[Global] = log[Global]
    BY <1>0, <2>1, PruneFacts, QueueAssumption
  <2> QED
    BY <2>1, <2>2, <2>3, <2>4
       DEF Paced, GrantsOrdered, ClockIsPast, PrunedFit, MayRecord, RollingCap, LastGrant
<1>5. CASE ComputeRequiredSleep
  <2>1. /\ pc = "compute" /\ UNCHANGED <<now, log, granted, key>>
        /\ pc' = "record" \/ pc' = "check"
        /\ pc' = "record" => WindowDelay(Global) = 0 /\ WindowDelay(key) = 0
    BY <1>5, DelayTypes DEF ComputeRequiredSleep
  <2>2. MayRecord'
    <3> SUFFICES ASSUME pc' = "record", NEW b \in {Global, key}, Len(log[b]) >= Limit(b)
                 PROVE  log[b][1] + Window(b) <= now
      BY <2>1 DEF MayRecord
    <3>1. WindowDelay(b) = 0 /\ b \in Buckets
      BY <1>0, <2>1
    <3>2. 1 \in 1 .. Len(log[b])
      BY <3>1, SeqFacts
    <3>3. log[b][1] \in Nat /\ now \in Nat /\ Window(b) \in Nat
      BY <3>1, <3>2, SeqFacts
    <3>4. NonNeg(log[b][1] + Window(b) - now) = 0
      BY <3>1 DEF WindowDelay
    <3> QED
      BY <3>3, <3>4 DEF NonNeg
  <2> QED
    BY <2>1, <2>2
       DEF Paced, GrantsOrdered, ClockIsPast, Overfull, PrunedFit, RollingCap, LastGrant
<1>6. CASE RecordAcquire
  BY <1>6, RecordPaced
<1>7. ASSUME NEW b \in Buckets, Inspect(b) PROVE RollingCap' /\ Paced'
  <2>1. pc = "idle" /\ pc' = "idle" /\ Prune(b) /\ UNCHANGED <<now, granted, key>>
    BY <1>7 DEF Inspect
  <2>2. Overfull'
    BY <2>1, PruneOverfull DEF Paced
  <2> QED
    BY <2>1, <2>2
       DEF Paced, GrantsOrdered, ClockIsPast, PrunedFit, MayRecord, RollingCap, LastGrant
<1>8. CASE TimedOut
  BY <1>8 DEF TimedOut, Return, Paced, GrantsOrdered, ClockIsPast, Overfull, PrunedFit,
              MayRecord, RollingCap, LastGrant
<1>9. CASE Sleep \/ Wake
  BY <1>9 DEF Sleep, Wake, Paced, GrantsOrdered, ClockIsPast, Overfull, PrunedFit,
              MayRecord, RollingCap, LastGrant
<1>10. CASE Release \/ UNCHANGED vars
  BY <1>10 DEF Release, vars, Paced, GrantsOrdered, ClockIsPast, Overfull, PrunedFit,
               MayRecord, RollingCap, LastGrant
<1> QED
  BY <1>1, <1>2, <1>3, <1>4, <1>5, <1>6, <1>7, <1>8, <1>9, <1>10 DEF Next, Step

LEMMA PacedInit == Init => RollingCap /\ Paced
<1> SUFFICES ASSUME Init PROVE RollingCap /\ Paced
  OBVIOUS
<1>1. /\ \A b \in Buckets : granted[b] = << >> /\ log[b] = << >>
      /\ pc = "idle"
  BY DEF Init
<1>2. \A b \in Buckets : DOMAIN granted[b] = {} /\ Len(log[b]) = 0
  BY <1>1
<1> QED
  BY <1>1, <1>2, BucketFacts
     DEF RollingCap, Paced, GrantsOrdered, ClockIsPast, Overfull, PrunedFit, MayRecord

\* When two acquires never read the clock at one instant, no window of any
\* bucket ever holds more grants than its limit, for every limit and window,
\* although a prune keeps the entry that is exactly one window old
\* (backoff_queue.py, _wait_for_slot, _compute_required_sleep, _record_acquire).
THEOREM RollingCapsHold ==
    ASSUME ClockAdvances = TRUE
    PROVE  Spec => []RollingCap
<1>1. Init => RollingCap /\ Paced
  BY PacedInit
<1>2. TypeOK /\ LogIsRecent /\ RollingCap /\ Paced /\ [Next]_vars => RollingCap' /\ Paced'
  BY PacedStep
<1> QED
  BY <1>1, <1>2, TypeCorrect, LogsAreRecent, PTL DEF Spec

-----------------------------------------------------------------------------
(* The limiter under the source                                              *)

\* Whatever the source and the verifier do is a step of BackoffQueue or leaves
\* it alone: everything proved of the queue holds under them.
LEMMA QueueStep == [VerifierNext]_allVars => [Next]_vars
<1> SUFFICES ASSUME [VerifierNext]_allVars PROVE [Next]_vars
  OBVIOUS
<1>1. ASSUME NEW op, NEW c \in Keys, Begin(op, c) PROVE [Next]_vars
  BY <1>1 DEF Begin, Next
<1>2. CASE InAcquire \/ TakeSlot
  BY <1>2 DEF InAcquire, TakeSlot, Next, Step
<1>3. ASSUME NEW op, GiveUp(op) PROVE [Next]_vars
  BY <1>3 DEF GiveUp, Next, Step
<1>4. ASSUME NEW op, Replied(op) PROVE [Next]_vars
  BY <1>4 DEF Replied, Next
<1>5. CASE Refuse \/ Returns \/ Disconnect \/ Clock
  BY <1>5 DEF Refuse, Returns, Disconnect, Clock, Next
<1>6. CASE SourceNext
  BY <1>1, <1>2, <1>3, <1>4, <1>5, <1>6
     DEF SourceNext, Fetch, RequestFails, BarsReply, SettleReply
<1>7. ASSUME NEW c \in Verifiable, VerifyBar(c) PROVE [Next]_vars
  BY <1>1, <1>7, BarAssumption DEF VerifyBar
<1>8. CASE VerifyGivesUp \/ VerifyFails \/ VerifyReply
  BY <1>3, <1>4, <1>8 DEF VerifyGivesUp, VerifyFails, VerifyReply, RequestFails
<1>9. CASE UNCHANGED allVars
  BY <1>9 DEF allVars
<1> QED
  BY <1>6, <1>7, <1>8, <1>9 DEF VerifierNext

\* The limiter's state under the source, as an invariant.
Limiter == TypeOK /\ LogIsRecent /\ ConcurrencyCap /\ SlotFree

LEMMA LimiterInit == VerifierInit => Limiter
BY TypeOKInit, QueueAssumption
   DEF VerifierInit, SourceInit, Init, Limiter, LogIsRecent, ConcurrencyCap, SlotFree

LEMMA LimiterStep == Limiter /\ [VerifierNext]_allVars => Limiter'
BY QueueStep, TypeOKStep, RecentStep, ConcurrencyStep DEF Limiter

\* However verify_bar, get_bars and latest_settle nest, time out and fail, the
\* requests in flight stay within concurrent_limit (backoff_queue.py used from
\* ibkr_historical.py).
THEOREM ConcurrencyCappedUnderSource == VerifierSpec => []ConcurrencyCap
<1>1. Limiter => ConcurrencyCap
  BY DEF Limiter
<1> QED
  BY <1>1, LimiterInit, LimiterStep, PTL DEF VerifierSpec

\* And the requests sent to the Gateway stay within the rolling caps, over all
\* contracts and per contract.
THEOREM RollingCappedUnderSource ==
    ASSUME ClockAdvances = TRUE
    PROVE  VerifierSpec => []RollingCap
<1>1. VerifierInit => Limiter /\ RollingCap /\ Paced
  BY LimiterInit, PacedInit DEF VerifierInit, SourceInit
<1>2. Limiter /\ RollingCap /\ Paced /\ [VerifierNext]_allVars
         => (Limiter /\ RollingCap /\ Paced)'
  BY LimiterStep, QueueStep, PacedStep DEF Limiter
<1> QED
  BY <1>1, <1>2, PTL DEF VerifierSpec

-----------------------------------------------------------------------------
(* Slots and requests                                                        *)

Call == [op : {"fetch", "verify"}, contract : Keys, held : BOOLEAN]

\* A stack of calls of which the first n hold a slot; a "verify" is of a
\* contract that is verified.
Stack(s, n) ==
    /\ s \in Seq(Call)
    /\ \A i \in 1 .. Len(s) : s[i].op = "verify" => s[i].contract \in Verifiable
    /\ \A i \in 1 .. Len(s) : s[i].held <=> i <= n

\* Only the innermost call can be without its slot, and only inside acquire().
CallsHold ==
    /\ Stack(calls, inFlight)
    /\ Len(calls) = inFlight + (IF pc = "idle" THEN 0 ELSE 1)

LEMMA HeldSlots ==
    ASSUME TypeOK, CallsHold
    PROVE  SlotsAreRequests
<1>1. inFlight \in Nat /\ Len(calls) \in Nat /\ calls \in Seq(Call)
  BY DEF TypeOK, CallsHold, Stack
<1>2. DOMAIN calls = 1 .. Len(calls) /\ inFlight <= Len(calls)
  BY <1>1 DEF CallsHold
<1>3. {i \in DOMAIN calls : calls[i].held} = 1 .. inFlight
  <2>1. \A i \in 1 .. Len(calls) : calls[i].held <=> i <= inFlight
    BY DEF CallsHold, Stack
  <2> QED
    BY <1>1, <1>2, <2>1
<1>4. Cardinality(1 .. inFlight) = inFlight
  <2>1. IF 1 > inFlight THEN Cardinality(1 .. inFlight) = 0
        ELSE Cardinality(1 .. inFlight) = inFlight - 1 + 1
    BY <1>1, FS_Interval
  <2> QED
    BY <1>1, <2>1
<1> QED
  BY <1>3, <1>4 DEF SlotsAreRequests

\* A call enters acquire().
LEMMA StackPush ==
    ASSUME NEW s, NEW n \in Nat, Stack(s, n), Len(s) = n,
           NEW op \in {"fetch", "verify"}, NEW c \in Keys, op = "verify" => c \in Verifiable
    PROVE  LET t == Append(s, [op |-> op, contract |-> c, held |-> FALSE])
           IN  Stack(t, n) /\ Len(t) = n + 1
<1> DEFINE e == [op |-> op, contract |-> c, held |-> FALSE]
           t == Append(s, e)
<1>1. e \in Call /\ e.op = op /\ e.contract = c /\ e.held = FALSE
  BY DEF Call
<1> HIDE DEF e
<1>2. s \in Seq(Call)
  BY DEF Stack
<1>3. t \in Seq(Call) /\ Len(t) = n + 1 /\ t[n + 1] = e /\ \A i \in 1 .. n : t[i] = s[i]
  BY <1>1, <1>2
<1> HIDE DEF t
<1>4. ASSUME NEW i \in 1 .. Len(t)
      PROVE  (t[i].op = "verify" => t[i].contract \in Verifiable) /\ (t[i].held <=> i <= n)
  <2>1. CASE i = n + 1
    <3>1. t[i] = e /\ ~(i <= n)
      BY <1>3, <2>1
    <3> QED
      BY <1>1, <3>1
  <2>2. CASE i \in 1 .. n
    <3>1. t[i] = s[i]
      BY <1>3, <2>2
    <3> QED
      BY <2>2, <3>1 DEF Stack
  <2> QED
    BY <1>3, <2>1, <2>2
<1>5. Stack(t, n) /\ Len(t) = n + 1
  BY <1>3, <1>4 DEF Stack
<1> QED
  BY <1>5 DEF t, e

\* A call ends.
LEMMA StackPop ==
    ASSUME NEW s, NEW n \in Nat, Stack(s, n), Len(s) > 0, NEW m \in Nat,
           m = Len(s) - 1, m <= n
    PROVE  LET t == SubSeq(s, 1, Len(s) - 1) IN Stack(t, m) /\ Len(t) = m
<1> DEFINE t == SubSeq(s, 1, Len(s) - 1)
<1>1. s \in Seq(Call) /\ Len(s) \in Nat
  BY DEF Stack
<1>2. t \in Seq(Call) /\ Len(t) = m /\ \A i \in 1 .. m : t[i] = s[i]
  <2>1. t = SubSeq(s, 1, m) /\ m <= Len(s)
    BY <1>1
  <2>2. \A i \in 1 .. m : s[i] \in Call
    BY <1>1, <2>1
  <2>3. SubSeq(s, 1, m) = [i \in 1 .. m |-> s[i]]
    BY <1>1, <2>1
  <2> QED
    BY <2>1, <2>2, <2>3
<1> HIDE DEF t
<1>3. \A i \in 1 .. m : i \in 1 .. Len(s) /\ i <= n
  BY <1>1
<1>4. \A i \in 1 .. Len(t) : /\ t[i].op = "verify" => t[i].contract \in Verifiable
                             /\ t[i].held <=> i <= m
  BY <1>2, <1>3 DEF Stack
<1>5. Stack(t, m) /\ Len(t) = m
  BY <1>2, <1>4 DEF Stack
<1> QED
  BY <1>5 DEF t

\* The innermost call takes its slot.
LEMMA StackHold ==
    ASSUME NEW s, NEW n \in Nat, Stack(s, n), Len(s) = n + 1
    PROVE  LET t == [s EXCEPT ![Len(s)].held = TRUE] IN Stack(t, n + 1) /\ Len(t) = n + 1
<1> DEFINE e == [s[n + 1] EXCEPT !.held = TRUE]
           t == [s EXCEPT ![n + 1] = e]
<1>1. s \in Seq(Call) /\ n + 1 \in 1 .. Len(s) /\ s[n + 1] \in Call
  BY DEF Stack
<1>2. e \in Call /\ e.op = s[n + 1].op /\ e.contract = s[n + 1].contract /\ e.held = TRUE
  BY <1>1 DEF Call
<1> HIDE DEF e
<1>3. /\ t \in Seq(Call) /\ Len(t) = n + 1 /\ t[n + 1] = e
      /\ \A i \in 1 .. n : t[i] = s[i]
  BY <1>1, <1>2
<1> HIDE DEF t
<1>4. ASSUME NEW i \in 1 .. Len(t)
      PROVE  (t[i].op = "verify" => t[i].contract \in Verifiable) /\ (t[i].held <=> i <= n + 1)
  <2>1. CASE i = n + 1
    <3>1. t[i] = e /\ i <= n + 1
      BY <1>3, <2>1
    <3> QED
      BY <1>1, <1>2, <3>1 DEF Stack
  <2>2. CASE i \in 1 .. n
    <3>1. t[i] = s[i] /\ i \in 1 .. Len(s) /\ i <= n /\ i <= n + 1
      BY <1>3, <2>2
    <3> QED
      BY <3>1 DEF Stack
  <2> QED
    BY <1>3, <2>1, <2>2
<1>5. Stack(t, n + 1) /\ Len(t) = n + 1
  BY <1>3, <1>4 DEF Stack
<1>6. t = [s EXCEPT ![Len(s)].held = TRUE]
  BY DEF t, e
<1> QED
  BY <1>5, <1>6

LEMMA CallsHoldStep ==
    ASSUME TypeOK, CallsHold, [VerifierNext]_allVars
    PROVE  CallsHold'
<1>0. inFlight \in Nat /\ Stack(calls, inFlight) /\ Len(calls) \in Nat
  BY DEF TypeOK, CallsHold, Stack
<1>1. ASSUME NEW op \in {"fetch", "verify"}, NEW c \in Keys, Begin(op, c),
             op = "verify" => c \in Verifiable
      PROVE  CallsHold'
  <2>1. /\ pc = "idle" /\ pc' = "prune_global" /\ inFlight' = inFlight
        /\ calls' = Append(calls, [op |-> op, contract |-> c, held |-> FALSE])
    BY <1>1 DEF Begin, Acquire
  <2>2. Len(calls) = inFlight
    BY <1>0, <2>1 DEF CallsHold
  <2>3. Stack(calls', inFlight) /\ Len(calls') = inFlight + 1
    BY <1>0, <1>1, <2>1, <2>2, StackPush
  <2> QED
    BY <2>1, <2>3 DEF CallsHold
<1>2. CASE InAcquire
  <2>1. calls' = calls /\ inFlight' = inFlight /\ pc # "idle" /\ pc' # "idle"
    BY <1>2 DEF InAcquire, sourceVars, PruneGlobal, PruneContract, ComputeRequiredSleep,
                Sleep, Wake
  <2> QED
    BY <2>1 DEF CallsHold
<1>3. CASE TakeSlot
  <2>1. /\ pc = "record" /\ pc' = "idle" /\ inFlight' = inFlight + 1
        /\ calls' = [calls EXCEPT ![Len(calls)].held = TRUE]
    BY <1>3 DEF TakeSlot, RecordAcquire, Return
  <2>2. Len(calls) = inFlight + 1
    BY <1>0, <2>1 DEF CallsHold
  <2>3. Stack(calls', inFlight + 1) /\ Len(calls') = inFlight + 1
    BY <1>0, <2>1, <2>2, StackHold
  <2> QED
    BY <1>0, <2>1, <2>3 DEF CallsHold
<1>4. ASSUME NEW op, GiveUp(op) PROVE CallsHold'
  <2>1. /\ pc = "check" /\ pc' = "idle" /\ inFlight' = inFlight
        /\ calls' = SubSeq(calls, 1, Len(calls) - 1)
    BY <1>4 DEF GiveUp, TimedOut, Return, End, Outer
  <2>2. Len(calls) > 0 /\ inFlight = Len(calls) - 1
    BY <1>0, <2>1 DEF CallsHold
  <2>3. Stack(calls', inFlight) /\ Len(calls') = inFlight
    BY <1>0, <2>1, <2>2, StackPop
  <2> QED
    BY <1>0, <2>1, <2>3 DEF CallsHold
<1>5. ASSUME NEW op, NEW a, Replied(op), End(a) PROVE CallsHold'
  <2>1. /\ pc = "idle" /\ pc' = "idle" /\ inFlight > 0 /\ inFlight' = inFlight - 1
        /\ calls' = SubSeq(calls, 1, Len(calls) - 1)
    BY <1>5 DEF Replied, Release, End, Outer
  <2>2. Len(calls) > 0 /\ inFlight - 1 = Len(calls) - 1 /\ inFlight - 1 \in Nat
        /\ inFlight - 1 <= inFlight
    BY <1>0, <2>1 DEF CallsHold
  <2>3. Stack(calls', inFlight - 1) /\ Len(calls') = inFlight - 1
    BY <1>0, <2>1, <2>2, StackPop
  <2> QED
    BY <1>0, <2>1, <2>3 DEF CallsHold
<1>6. CASE UNCHANGED <<pc, inFlight, calls>>
  BY <1>6 DEF CallsHold
<1>7. CASE Refuse \/ Returns \/ Disconnect \/ Clock
  BY <1>6, <1>7 DEF Refuse, Returns, Disconnect, Clock, vars, Tick, sourceVars
<1>8. CASE RequestFails("fetch") \/ BarsReply \/ SettleReply
  BY <1>5, <1>8 DEF RequestFails, BarsReply, SettleReply
<1>9. ASSUME NEW c \in Keys, Fetch(c) PROVE CallsHold'
  BY <1>1, <1>9 DEF Fetch
<1>10. CASE SourceNext
  BY <1>2, <1>3, <1>4, <1>7, <1>8, <1>9, <1>10 DEF SourceNext
<1>11. ASSUME NEW c \in Verifiable, VerifyBar(c) PROVE CallsHold'
  <2>1. CASE Begin("verify", c)
    BY <1>1, <2>1, BarAssumption
  <2>2. CASE UNCHANGED <<vars, sourceVars>>
    BY <1>6, <2>2 DEF vars, sourceVars
  <2> QED
    BY <1>11, <2>1, <2>2 DEF VerifyBar
<1>12. CASE VerifyGivesUp \/ VerifyFails \/ VerifyReply
  BY <1>4, <1>5, <1>12 DEF VerifyGivesUp, VerifyFails, VerifyReply, RequestFails
<1>13. CASE UNCHANGED allVars
  BY <1>6, <1>13 DEF allVars, vars, sourceVars
<1> QED
  BY <1>10, <1>11, <1>12, <1>13 DEF VerifierNext

LEMMA RequestsInit == VerifierInit => Limiter /\ CallsHold
<1> SUFFICES ASSUME VerifierInit PROVE Limiter /\ CallsHold
  OBVIOUS
<1>1. calls = << >> /\ inFlight = 0 /\ pc = "idle"
  BY DEF VerifierInit, SourceInit, Init
<1>2. << >> \in Seq(Call) /\ Len(<< >>) = 0
  OBVIOUS
<1> QED
  BY <1>1, <1>2, LimiterInit DEF CallsHold, Stack

\* Slots and open requests are the same thing however calls nest and end, and no
\* way in or out of a call upsets the logs of the limiter (ibkr_historical.py,
\* get_bars and latest_settle inside `with self._backoff.acquire`).
THEOREM RequestsSound == VerifierSpec => []RequestsAreSound
<1>1. VerifierInit => Limiter /\ CallsHold
  BY RequestsInit
<1>2. Limiter /\ CallsHold /\ [VerifierNext]_allVars => (Limiter /\ CallsHold)'
  BY LimiterStep, CallsHoldStep DEF Limiter
<1>3. Limiter /\ CallsHold => RequestsAreSound
  BY HeldSlots DEF Limiter, RequestsAreSound
<1> QED
  BY <1>1, <1>2, <1>3, PTL DEF VerifierSpec

-----------------------------------------------------------------------------
(* The answers of the source                                                 *)

\* Rounding up to whole units never falls short.
LEMMA RoundUp ==
    ASSUME NEW n \in Nat, NEW D \in Nat \ {0}
    PROVE  ((n + D - 1) \div D) * D \in Int /\ ((n + D - 1) \div D) * D >= n
<1> DEFINE a == n + D - 1
           q == a \div D
           r == a % D
<1>1. a \in Nat /\ q \in Int /\ r \in 0 .. D - 1
  OBVIOUS
<1>2. a = D * q + r
  BY <1>1
<1>3. q * D = D * q /\ q * D \in Int
  BY <1>1
<1>4. a = n + D - 1
  OBVIOUS
<1> HIDE DEF a, q, r
<1>5. q * D >= n
  <2>1. q * D = a - r
    BY <1>1, <1>2, <1>3
  <2> QED
    BY <1>1, <1>4, <2>1
<1> QED
  BY <1>3, <1>5 DEF a, q

\* Every bar of a window of whole seconds is served.
LEMMA WholeWindow ==
    ASSUME NEW w \in Windows, w[1] % 2 = 0, w[2] % 2 = 0,
           NEW t \in Tape, w[1] <= 2 * t, 2 * t < w[2]
    PROVE  t \in Served(w)
<1>1. w[1] \in Nat /\ w[2] \in Nat /\ t \in Nat /\ DaySeconds \in Nat \ {0}
  BY HistoricalAssumption
<1>2. PICK a, b \in Nat : w[1] = 2 * a /\ w[2] = 2 * b
  <2>1. w[1] = 2 * (w[1] \div 2) /\ w[2] = 2 * (w[2] \div 2)
        /\ w[1] \div 2 \in Nat /\ w[2] \div 2 \in Nat
    BY <1>1
  <2> QED
    BY <2>1
<1>3. (w[2] - w[1]) \div 2 = b - a /\ EndDatetime(w) = b /\ a <= t /\ t < b
  BY <1>1, <1>2 DEF EndDatetime
<1>4. b - a \in Nat
  BY <1>1, <1>3
<1>5. Duration(w) \in Int /\ Duration(w) >= b - a
  <2>1. CASE b - a < DaySeconds
    BY <1>3, <1>4, <2>1 DEF Duration
  <2>2. CASE ~(b - a < DaySeconds)
    <3>1. Duration(w) = (((b - a) + DaySeconds - 1) \div DaySeconds) * DaySeconds
      BY <1>3, <2>2 DEF Duration
    <3> QED
      BY <1>1, <1>4, <3>1, RoundUp
  <2> QED
    BY <2>1, <2>2
<1>6. b - Duration(w) <= t
  BY <1>1, <1>3, <1>5
<1> QED
  BY <1>3, <1>6 DEF Served

DaysOf(delivered) == {delivered[i] : i \in DOMAIN delivered}

\* The days of a delivery: one or two of the sessions.
LEMMA DeliveredDays ==
    ASSUME NEW asOf, NEW off, NEW delivered \in Deliverable(asOf, off), delivered # <<>>
    PROVE  \E d, e \in Sessions : DaysOf(delivered) = {d, e}
<1> DEFINE open == {d \in Sessions : 24 * d - 7 + off <= asOf}
<1>1. open \subseteq Sessions
  OBVIOUS
<1> HIDE DEF open
<1>2. \/ \E d \in open : delivered = <<d>>
      \/ delivered \in open \X open
  BY DEF Deliverable, open
<1>3. ASSUME NEW d \in open, delivered = <<d>>
      PROVE  {delivered[i] : i \in DOMAIN delivered} = {d, d}
  <2>1. DOMAIN delivered = {1} /\ delivered[1] = d
    BY <1>3
  <2> QED
    BY <2>1, Zenon
<1>4. ASSUME delivered \in open \X open
      PROVE  /\ delivered[1] \in open /\ delivered[2] \in open
             /\ {delivered[i] : i \in DOMAIN delivered} = {delivered[1], delivered[2]}
  <2>1. PICK d, e \in open : delivered = <<d, e>>
    BY <1>4
  <2>2. DOMAIN delivered = {1, 2} /\ delivered[1] = d /\ delivered[2] = e
    BY <2>1
  <2>3. {delivered[i] : i \in {1, 2}} = {delivered[1], delivered[2]}
    BY Zenon
  <2> QED
    BY <2>2, <2>3
<1>5. ASSUME NEW d \in open, delivered = <<d>> PROVE DaysOf(delivered) = {d, d}
  BY <1>3, <1>5 DEF DaysOf
<1>6. ASSUME delivered \in open \X open
      PROVE  DaysOf(delivered) = {delivered[1], delivered[2]}
  BY <1>4, <1>6 DEF DaysOf
<1> QED
  BY <1>1, <1>2, <1>4, <1>5, <1>6

\* The largest and the smallest of a set of numbers that has one.
LEMMA MaxIs ==
    ASSUME NEW S \in SUBSET Int, NEW x \in S, \A y \in S : y <= x
    PROVE  Max(S) = x
<1>1. \A y \in S : x >= y
  OBVIOUS
<1> DEFINE m == Max(S)
<1>2. m \in S /\ \A y \in S : m >= y
  BY <1>1 DEF Max
<1> HIDE DEF m
<1>3. m \in Int /\ x \in Int /\ m >= x /\ m <= x
  BY <1>2
<1>4. m = x
  BY <1>3
<1> QED
  BY <1>4 DEF m

LEMMA MinIs ==
    ASSUME NEW S \in SUBSET Int, NEW x \in S, \A y \in S : x <= y
    PROVE  Min(S) = x
<1> DEFINE m == Min(S)
<1>2. m \in S /\ \A y \in S : m <= y
  BY DEF Min
<1> HIDE DEF m
<1>3. m \in Int /\ x \in Int /\ x <= m /\ m <= x
  BY <1>2
<1>4. m = x
  BY <1>3
<1> QED
  BY <1>4 DEF m

\* Later days have later stamps, and a stamp falls on its day in Chicago.
LEMMA Stamps ==
    ASSUME NEW off \in Offsets, NEW form \in {"date", "instant"}, NEW d \in Nat
    PROVE  /\ CoerceTsToUtc(d, form, off) \in Int
           /\ CoerceTsToUtc(d, form, off) >= 24 * d + 12
           /\ CtDate(CoerceTsToUtc(d, form, off), off) = d
           /\ \A e \in Nat : CoerceTsToUtc(e, form, off) <= CoerceTsToUtc(d, form, off)
                             <=> e <= d
<1>1. off \in {5, 6}
  BY DEF Offsets
<1>2. CASE form = "date"
  <2>1. \A e \in Nat : CoerceTsToUtc(e, form, off) = 24 * e + 12
    BY <1>2 DEF CoerceTsToUtc
  <2>2. ((24 * d + 12) - off) \div 24 = d
    BY <1>1
  <2> QED
    BY <2>1, <2>2 DEF CtDate
<1>3. CASE form = "instant"
  <2>1. \A e \in Nat : CoerceTsToUtc(e, form, off) = 24 * e + 16 + off
    BY <1>3 DEF CoerceTsToUtc, SessionClose
  <2>2. ((24 * d + 16 + off) - off) \div 24 = d
    BY <1>1
  <2> QED
    BY <1>1, <2>1, <2>2 DEF CtDate
<1> QED
  BY <1>2, <1>3

\* The bar the source settles on is the last session of the delivery.
LEMMA LatestIsLast ==
    ASSUME NEW off \in Offsets, NEW form \in {"date", "instant"}, NEW delivered,
           NEW days, days = DaysOf(delivered), days \subseteq Nat,
           NEW hi \in days, \A d \in days : d <= hi
    PROVE  LatestBar(delivered, form, off) = hi
<1> DEFINE Stamp(d) == CoerceTsToUtc(d, form, off)
           Last(d) == \A i \in DOMAIN delivered : Stamp(delivered[i]) <= Stamp(d)
           latest == CHOOSE d \in days : Last(d)
<1>1. \A i \in DOMAIN delivered : delivered[i] \in days
  BY DEF DaysOf
<1>2. \A d, e \in days : Stamp(e) <= Stamp(d) <=> e <= d
  BY Stamps
<1>3. LatestBar(delivered, form, off) = latest
  BY DEF LatestBar, DaysOf
<1> HIDE DEF Stamp
<1>4. Last(hi)
  BY <1>1, <1>2
<1>5. latest \in days /\ Last(latest)
  BY <1>4
<1>6. PICK i \in DOMAIN delivered : delivered[i] = hi
  BY DEF DaysOf
<1>7. Stamp(hi) <= Stamp(latest)
  BY <1>5, <1>6
<1> HIDE DEF latest
<1>8. hi <= latest /\ latest <= hi /\ hi \in Nat /\ latest \in Nat
  BY <1>2, <1>5, <1>7
<1>9. latest = hi
  BY <1>8
<1> QED
  BY <1>3, <1>9

\* "final" comes after the close, and for a Friday after Saturday noon.
LEMMA FinalIsLate ==
    ASSUME NEW off \in Offsets, NEW form \in {"date", "instant"}, NEW d \in Nat,
           NEW asOf \in Nat,
           ComputeSettleState(CoerceTsToUtc(d, form, off), asOf, off) = "final"
    PROVE  /\ asOf >= 24 * d + SessionClose + off
           /\ Weekday(d) = Friday => asOf >= 24 * (d + 1) + 12 + off
<1> DEFINE ts == CoerceTsToUtc(d, form, off)
<1>1. ts \in Int /\ ts >= 24 * d + 12 /\ CtDate(ts, off) = d
  BY Stamps
<1>2. off \in {5, 6}
  BY DEF Offsets
<1> HIDE DEF ts
<1>3. ~(asOf - ts < LagHours(ts, off))
  BY DEF ComputeSettleState, ts
<1>4. CASE Weekday(d) = Friday
  <2>1. LagHours(ts, off) = 42
    BY <1>1, <1>4 DEF LagHours
  <2> QED
    BY <1>1, <1>2, <1>3, <2>1 DEF SessionClose
<1>5. CASE Weekday(d) # Friday
  <2>1. LagHours(ts, off) = 18
    BY <1>1, <1>5 DEF LagHours
  <2> QED
    BY <1>1, <1>2, <1>3, <1>5, <2>1 DEF SessionClose
<1> QED
  BY <1>4, <1>5

\* What latest_settle says of a delivery.
LEMMA SettleFacts ==
    ASSUME NEW asOf \in AsOfs, NEW off \in Offsets, NEW form \in {"date", "instant"},
           NEW delivered \in Deliverable(asOf, off), delivered # <<>>,
           NEW a, a = IbBarToSettle(delivered, form, off, asOf),
           NEW days, days = DaysOf(delivered)
    PROVE  /\ a.kind = "settle" /\ a.delivered = delivered /\ a.asOf = asOf /\ a.off = off
           /\ a.day = Max(days)
           /\ Cardinality(days) = 2 => a.change = ClosePrice(Max(days)) - ClosePrice(Min(days))
           /\ a.state = "final" =>
                /\ asOf >= 24 * a.day + SessionClose + off
                /\ Weekday(a.day) = Friday => asOf >= 24 * (a.day + 1) + 12 + off
<1>1. PICK d, e \in Sessions : days = {d, e}
  <2>1. \E d, e \in Sessions : DaysOf(delivered) = {d, e}
    BY DeliveredDays
  <2> QED
    BY <2>1
<1>2. PICK hi, lo \in Sessions : days = {hi, lo} /\ lo <= hi
  <2>1. d \in Nat /\ e \in Nat
    BY HistoricalAssumption
  <2>2. {d, e} = {e, d}
    OBVIOUS
  <2>3. CASE e <= d
    BY <1>1, <2>3
  <2>4. CASE d <= e
    <3>1. days = {e, d}
      BY <1>1, <2>2
    <3> QED
      BY <2>4, <3>1
  <2> QED
    BY <2>1, <2>3, <2>4
<1>3. hi \in Nat /\ lo \in Nat /\ asOf \in Nat
  BY HistoricalAssumption
<1>a. days \in SUBSET Nat /\ days \in SUBSET Int /\ hi \in days /\ lo \in days
  BY <1>2, <1>3
<1>b. (\A x \in days : x <= hi) /\ (\A x \in days : lo <= x)
  BY <1>2, <1>3
<1> DEFINE latest == LatestBar(delivered, form, off)
           ts == CoerceTsToUtc(latest, form, off)
           prior == days \ {latest}
<1>4. latest = hi
  BY <1>a, <1>b, LatestIsLast, Zenon
<1>5. Max(days) = hi /\ Min(days) = lo
  BY <1>a, <1>b, MaxIs, MinIs, Zenon
<1>6. a = [kind |-> "settle", delivered |-> delivered, asOf |-> asOf, off |-> off,
           day |-> CtDate(ts, off), state |-> ComputeSettleState(ts, asOf, off),
           change |-> IF prior = {} THEN 0 ELSE ClosePrice(latest) - ClosePrice(Max(prior))]
  BY DEF IbBarToSettle, DaysOf
<1> HIDE DEF ts, prior, latest
<1>7. /\ a.kind = "settle" /\ a.delivered = delivered /\ a.asOf = asOf /\ a.off = off
      /\ a.day = CtDate(ts, off) /\ a.state = ComputeSettleState(ts, asOf, off)
      /\ a.change = IF prior = {} THEN 0 ELSE ClosePrice(latest) - ClosePrice(Max(prior))
  BY <1>6
<1>8. CtDate(ts, off) = hi
  BY <1>3, <1>4, Stamps DEF ts
<1>9. ASSUME Cardinality(days) = 2
      PROVE  a.change = ClosePrice(hi) - ClosePrice(lo)
  <2>1. hi # lo
    <3> SUFFICES ASSUME hi = lo PROVE FALSE
      OBVIOUS
    <3>1. days = {hi}
      BY <1>2
    <3>2. Cardinality({hi}) = 1
      BY FS_Singleton
    <3>3. Cardinality(days) = 1
      BY <3>1, <3>2, Zenon
    <3> QED
      BY <1>9, <3>3
  <2>2. prior = {lo}
    BY <1>2, <1>4, <2>1 DEF prior
  <2>3. Max({lo}) = lo
    <3>1. {lo} \in SUBSET Int /\ lo \in {lo} /\ \A x \in {lo} : x <= lo
      BY <1>3
    <3> QED
      BY <3>1, MaxIs, Zenon
  <2>4. prior # {} /\ Max(prior) = lo
    BY <2>2, <2>3
  <2> QED
    BY <1>4, <1>7, <2>4
<1>10. ASSUME a.state = "final"
       PROVE  /\ asOf >= 24 * hi + SessionClose + off
              /\ Weekday(hi) = Friday => asOf >= 24 * (hi + 1) + 12 + off
  <2>1. ComputeSettleState(CoerceTsToUtc(hi, form, off), asOf, off) = "final"
    BY <1>4, <1>7, <1>10 DEF ts
  <2> QED
    BY <1>3, <2>1, FinalIsLate
<1> QED
  BY <1>5, <1>7, <1>8, <1>9, <1>10

\* An answer that is neither bars nor a settle claims nothing.
LEMMA NothingClaimed ==
    ASSUME answer'.kind \notin {"bars", "settle"}
    PROVE  AnswersAreSound'
BY DEF AnswersAreSound, WindowCovered, SettleDated, FinalIsPublished

LEMMA BarsAnswerSound ==
    ASSUME NEW w \in Windows,
           answer' = [kind |-> "bars", window |-> w, bars |-> {IbBarToRaw(t) : t \in Served(w)}]
    PROVE  AnswersAreSound'
<1> DEFINE bars == {IbBarToRaw(t) : t \in Served(w)}
<1>1. \A t \in Served(w) : IbBarToRaw(t) \in bars
  OBVIOUS
<1> HIDE DEF bars
<1>2. answer'.kind = "bars" /\ answer'.window = w /\ answer'.bars = bars
  BY DEF bars
<1>3. WindowCovered'
  BY <1>1, <1>2, WholeWindow DEF WindowCovered
<1> QED
  BY <1>2, <1>3 DEF AnswersAreSound, SettleDated, FinalIsPublished

LEMMA SettleAnswerSound ==
    ASSUME NEW asOf \in AsOfs, NEW off \in Offsets, NEW form \in {"date", "instant"},
           NEW delivered \in Deliverable(asOf, off), delivered # <<>>,
           answer' = IbBarToSettle(delivered, form, off, asOf)
    PROVE  AnswersAreSound'
<1> DEFINE days == DaysOf(delivered)
<1>1. PICK a : a = answer'
  OBVIOUS
<1> HIDE DEF days
<1>2. /\ a.kind = "settle" /\ a.delivered = delivered /\ a.asOf = asOf /\ a.off = off
      /\ a.day = Max(days)
      /\ Cardinality(days) = 2 => a.change = ClosePrice(Max(days)) - ClosePrice(Min(days))
      /\ a.state = "final" =>
           /\ asOf >= 24 * a.day + SessionClose + off
           /\ Weekday(a.day) = Friday => asOf >= 24 * (a.day + 1) + 12 + off
  BY <1>1, SettleFacts DEF days
<1>3. WindowCovered'
  BY <1>1, <1>2 DEF WindowCovered
<1>4. FinalIsPublished'
  BY <1>1, <1>2 DEF FinalIsPublished
<1>5. SettleDated'
  <2>1. {answer'.delivered[i] : i \in DOMAIN answer'.delivered} = days
    BY <1>1, <1>2 DEF days, DaysOf
  <2> QED
    BY <1>1, <1>2, <2>1 DEF SettleDated
<1> QED
  BY <1>3, <1>4, <1>5 DEF AnswersAreSound

LEMMA AnswersStep ==
    ASSUME AnswersAreSound, [VerifierNext]_allVars
    PROVE  AnswersAreSound'
<1>1. CASE answer' = answer
  BY <1>1 DEF AnswersAreSound, WindowCovered, SettleDated, FinalIsPublished
<1>2. CASE answer' \in {NoAnswer, Raised}
  <2>1. answer'.kind \notin {"bars", "settle"}
    BY <1>2 DEF NoAnswer, Raised
  <2> QED
    BY <2>1, NothingClaimed
<1>3. CASE BarsReply
  <2>1. CASE \E w \in Windows :
              End([kind |-> "bars", window |-> w, bars |-> {IbBarToRaw(t) : t \in Served(w)}])
    BY <2>1, BarsAnswerSound DEF End
  <2>2. CASE End(Raised)
    BY <1>2, <2>2 DEF End
  <2> QED
    BY <1>3, <2>1, <2>2 DEF BarsReply
<1>4. CASE SettleReply
  <2>0. PICK asOf \in AsOfs, off \in Offsets, form \in Forms :
            \E delivered \in Deliverable(asOf, off) :
                 End(CASE delivered = <<>> -> [kind |-> "no settle"]
                       [] delivered # <<>> /\ form = "naive" -> Raised
                       [] OTHER -> IbBarToSettle(delivered, form, off, asOf))
    BY <1>4 DEF SettleReply
  <2>1. PICK delivered \in Deliverable(asOf, off) :
                 End(CASE delivered = <<>> -> [kind |-> "no settle"]
                       [] delivered # <<>> /\ form = "naive" -> Raised
                       [] OTHER -> IbBarToSettle(delivered, form, off, asOf))
    BY <2>0
  <2>2. CASE delivered = <<>>
    <3>1. answer' = [kind |-> "no settle"]
      BY <2>1, <2>2 DEF End
    <3> QED
      BY <3>1, NothingClaimed
  <2>3. CASE delivered # <<>> /\ form = "naive"
    BY <1>2, <2>1, <2>3 DEF End
  <2>4. CASE delivered # <<>> /\ form # "naive"
    <3>1. answer' = IbBarToSettle(delivered, form, off, asOf)
      BY <2>1, <2>4 DEF End
    <3>2. form \in {"date", "instant"}
      BY <2>4 DEF Forms
    <3> QED
      BY <2>4, <3>1, <3>2, SettleAnswerSound
  <2> QED
    BY <2>2, <2>3, <2>4
<1>5. ASSUME NEW op, GiveUp(op) \/ RequestFails(op) PROVE AnswersAreSound'
  BY <1>2, <1>5 DEF GiveUp, RequestFails, End
<1>6. CASE SourceNext
  BY <1>1, <1>2, <1>3, <1>4, <1>5, <1>6
     DEF SourceNext, Fetch, Begin, Refuse, InAcquire, TakeSlot, Returns, Disconnect, Clock,
         sourceVars
<1>7. ASSUME NEW c \in Verifiable, VerifyBar(c) PROVE AnswersAreSound'
  BY <1>1, <1>7 DEF VerifyBar, Begin, sourceVars
<1>8. CASE VerifyGivesUp \/ VerifyFails \/ VerifyReply
  BY <1>2, <1>5, <1>8 DEF VerifyGivesUp, VerifyFails, VerifyReply, End
<1>9. CASE UNCHANGED allVars
  BY <1>1, <1>9 DEF allVars, sourceVars
<1> QED
  BY <1>6, <1>7, <1>8, <1>9 DEF VerifierNext

\* For every window of whole seconds get_bars returns each bar the Gateway has;
\* latest_settle is dated by the last session delivered and compares it with the
\* one before; it says "final" only once that settlement is published
\* (ibkr_historical.py, _compute_duration_str, _ib_bar_to_settle and
\* _compute_settle_state).
THEOREM AnswersSound == VerifierSpec => []AnswersAreSound
<1>1. VerifierInit => AnswersAreSound
  BY DEF VerifierInit, SourceInit, NoAnswer, AnswersAreSound, WindowCovered, SettleDated,
         FinalIsPublished
<1>2. AnswersAreSound /\ [VerifierNext]_allVars => AnswersAreSound'
  BY AnswersStep
<1> QED
  BY <1>1, <1>2, PTL DEF VerifierSpec

-----------------------------------------------------------------------------
(* Verified bars                                                             *)

LEMMA OhlcFacts == OhlcPolicy.quorum = 3 /\ OhlcPolicy.band = "NORMAL"
<1>1. OhlcPolicy = OhlcMajorityA1
  BY DEF OhlcPolicy, ResolveForField, PhaseA1
<1> QED
  BY <1>1 DEF OhlcMajorityA1, Resolved

\* Answers of a call about the bar at ts: of sources, true but for the liars'.
Told(answers, ts) ==
    /\ DOMAIN answers \subseteq Sources
    /\ \A s \in DOMAIN answers \ Liars : answers[s].close = ts /\ answers[s].rest = "true"

\* The three ways a verdict on a bar comes out.
LEMMA BarVerdictFacts ==
    ASSUME NEW p, NEW c, NEW ts, NEW res, NEW answers, NEW prev,
           NEW v, v = BarVerdict(p, c, ts, res, answers, prev), v.kind = "verified"
    PROVE  /\ ~Incomplete(p, answers) /\ BarsAgree(p, answers)
           /\ v.contract = c /\ v.ts = ts /\ v.resolution = res /\ v.prev = prev
           /\ v.close = answers[Min(DOMAIN answers)].close
           /\ v.rest = answers[Min(DOMAIN answers)].rest
<1>1. ~Incomplete(p, answers)
  <2> SUFFICES ASSUME Incomplete(p, answers) PROVE FALSE
    OBVIOUS
  <2>1. v = [kind |-> "incomplete"]
    BY DEF BarVerdict
  <2> QED
    BY <2>1
<1>2. BarsAgree(p, answers)
  <2> SUFFICES ASSUME ~BarsAgree(p, answers) PROVE FALSE
    OBVIOUS
  <2>1. v = [kind |-> "disagreement"]
    BY <1>1 DEF BarVerdict
  <2> QED
    BY <2>1
<1>3. v = [kind |-> "verified", contract |-> c, ts |-> ts, resolution |-> res,
           close |-> answers[Min(DOMAIN answers)].close,
           rest |-> answers[Min(DOMAIN answers)].rest,
           agreed |-> Cardinality(DOMAIN answers), tier |-> BestTier(DOMAIN answers),
           hash |-> RunHash(p, answers, <<c, ts, res>>), prev |-> prev]
  BY <1>1, <1>2 DEF BarVerdict
<1> QED
  BY <1>1, <1>2, <1>3

\* Fewer liars than the quorum: an honest source is among the answers, and all
\* agree with it.
LEMMA HonestQuorum ==
    ASSUME NEW answers, NEW ts, Told(answers, ts), Cardinality(Liars) < OhlcPolicy.quorum,
           ~Incomplete(OhlcPolicy, answers), BarsAgree(OhlcPolicy, answers)
    PROVE  /\ answers[Min(DOMAIN answers)].close = ts
           /\ answers[Min(DOMAIN answers)].rest = "true"
<1> DEFINE D == DOMAIN answers
<1>1. D \subseteq Sources /\ IsFiniteSet(Sources) /\ Sources \subseteq Nat
      /\ Liars \subseteq Sources
  BY VerifierAssumption, BarAssumption DEF Told
<1>2. ~(Cardinality(D) < 3) /\ Cardinality(Liars) < 3
  BY OhlcFacts DEF Incomplete
<1>3. \A s, t \in D : answers[s].close = answers[t].close /\ answers[s].rest = answers[t].rest
  BY OhlcFacts DEF BarsAgree
<1> HIDE DEF D
<1>4. IsFiniteSet(Liars) /\ IsFiniteSet(D)
  BY <1>1, FS_Subset
<1>5. Cardinality(D) \in Nat /\ Cardinality(Liars) \in Nat
  BY <1>4, FS_CardinalityType
<1>6. PICK s \in D : s \notin Liars
  <2> SUFFICES ASSUME D \subseteq Liars PROVE FALSE
    OBVIOUS
  <2>1. Cardinality(D) <= Cardinality(Liars)
    BY <1>4, FS_Subset
  <2> QED
    BY <1>2, <1>5, <2>1
<1>7. answers[s].close = ts /\ answers[s].rest = "true"
  BY <1>6 DEF Told, D
<1>8. Min(D) \in D
  <2>1. D \in SUBSET Nat /\ D # {}
    BY <1>1, <1>6
  <2>2. PICK m \in D : \A n \in D : m <= n
    BY <2>1, LeastNatural
  <2> QED
    BY <2>2 DEF Min
<1>9. answers[Min(D)].close = answers[s].close /\ answers[Min(D)].rest = answers[s].rest
  BY <1>3, <1>6, <1>8
<1> QED
  BY <1>7, <1>9 DEF D

\* The answers that verify_bar puts together.
Answers(ibkr, others) ==
    [s \in DOMAIN ibkr \cup DOMAIN others |-> IF s = Ibkr THEN ibkr[s] ELSE others[s]]

LEMMA AnswersTold ==
    ASSUME NEW ts, NEW others \in Others(ts), NEW ibkr,
           ibkr \in {[s \in {Ibkr} |-> TrueBar(Ibkr, ts)], [s \in {} |-> TrueBar(Ibkr, ts)]}
    PROVE  Told(Answers(ibkr, others), ts)
<1> DEFINE asked == TierFilter(OhlcPolicy) \ {Ibkr}
<1>1. asked \subseteq Sources /\ Ibkr \notin asked /\ Ibkr \in Sources
  BY BarAssumption DEF TierFilter
<1> HIDE DEF asked
<1>2. PICK S \in SUBSET asked :
          others \in {f \in [S -> UNION {AnyBars(s, ts) : s \in S}] :
                         \A s \in S : f[s] \in IF s \in Liars THEN AnyBars(s, ts)
                                                              ELSE {TrueBar(s, ts)}}
  BY DEF Others, asked
<1>3. DOMAIN others = S /\ \A s \in S \ Liars : others[s] = TrueBar(s, ts)
  BY <1>2
<1>4. DOMAIN ibkr \subseteq {Ibkr} /\ \A s \in DOMAIN ibkr : ibkr[s] = TrueBar(s, ts)
  OBVIOUS
<1>5. \A s : TrueBar(s, ts).close = ts /\ TrueBar(s, ts).rest = "true"
  BY DEF TrueBar
<1> DEFINE a == Answers(ibkr, others)
<1>6. DOMAIN a = DOMAIN ibkr \cup DOMAIN others
  BY DEF Answers
<1>7. ASSUME NEW s \in DOMAIN a \ Liars PROVE a[s] = TrueBar(s, ts)
  <2>1. a[s] = IF s = Ibkr THEN ibkr[s] ELSE others[s]
    BY <1>6 DEF Answers
  <2>2. s = Ibkr => s \in DOMAIN ibkr
    BY <1>1, <1>2, <1>3, <1>6
  <2>3. s # Ibkr => s \in S \ Liars
    BY <1>3, <1>4, <1>6, <1>7
  <2> QED
    BY <1>3, <1>4, <2>1, <2>2, <2>3
<1> HIDE DEF a
<1>8. DOMAIN a \subseteq Sources
  BY <1>1, <1>2, <1>3, <1>4, <1>6
<1> QED
  BY <1>5, <1>7, <1>8 DEF Told, a

TrueVerdict(v) == Cardinality(Liars) < OhlcPolicy.quorum => v.close = v.ts /\ v.rest = "true"

\* What Decide does to the chain: nothing, or one more link.
Links(c, res, v) ==
    /\ v.contract = c /\ v.resolution = res /\ v.prev = prevBarHash[<<c, res>>]
    /\ TrueVerdict(v)
    /\ prevBarHash' = [prevBarHash EXCEPT ![<<c, res>>] = v.hash]
    /\ verified' = Append(verified, v)

LEMMA DecideFacts ==
    ASSUME NEW c, NEW responded \in BOOLEAN, Decide(c, responded)
    PROVE  UNCHANGED barVars \/ \E res \in Resolutions : \E v : Links(c, res, v)
<1>1. PICK ts \in Moments, res \in Resolutions :
        \E others \in Others(ts) :
          LET ibkr == IF responded THEN IbkrAnswer(ts) ELSE [s \in {} |-> TrueBar(Ibkr, ts)]
              answers == [s \in DOMAIN ibkr \cup DOMAIN others |->
                              IF s = Ibkr THEN ibkr[s] ELSE others[s]]
              v == BarVerdict(OhlcPolicy, c, ts, res, answers, prevBarHash[PrevKey(c, res)])
          IN  IF v.kind = "verified"
              THEN /\ prevBarHash' = [prevBarHash EXCEPT ![PrevKey(c, res)] = v.hash]
                   /\ verified' = Append(verified, v)
              ELSE UNCHANGED barVars
  BY DEF Decide
<1> DEFINE ibkr == IF responded THEN IbkrAnswer(ts) ELSE [s \in {} |-> TrueBar(Ibkr, ts)]
           Verdict(others) == BarVerdict(OhlcPolicy, c, ts, res, Answers(ibkr, others),
                                         prevBarHash[<<c, res>>])
<1>2. PICK others \in Others(ts) :
          IF Verdict(others).kind = "verified"
          THEN /\ prevBarHash' = [prevBarHash EXCEPT ![<<c, res>>] = Verdict(others).hash]
               /\ verified' = Append(verified, Verdict(others))
          ELSE UNCHANGED barVars
  BY <1>1 DEF Answers, PrevKey
<1>3. ibkr \in {[s \in {Ibkr} |-> TrueBar(Ibkr, ts)], [s \in {} |-> TrueBar(Ibkr, ts)]}
  BY DEF IbkrAnswer
<1> HIDE DEF ibkr
<1>4. Told(Answers(ibkr, others), ts)
  BY <1>3, AnswersTold
<1> DEFINE v == Verdict(others)
<1>5. v = BarVerdict(OhlcPolicy, c, ts, res, Answers(ibkr, others), prevBarHash[<<c, res>>])
  OBVIOUS
<1> HIDE DEF Verdict, v
<1>6. CASE v.kind = "verified"
  <2> DEFINE a == Answers(ibkr, others)
  <2> HIDE DEF a
  <2>1. /\ ~Incomplete(OhlcPolicy, a) /\ BarsAgree(OhlcPolicy, a)
        /\ v.contract = c /\ v.ts = ts /\ v.resolution = res /\ v.prev = prevBarHash[<<c, res>>]
        /\ v.close = a[Min(DOMAIN a)].close /\ v.rest = a[Min(DOMAIN a)].rest
    BY <1>5, <1>6, BarVerdictFacts DEF a
  <2>2. TrueVerdict(v)
    BY <1>4, <2>1, HonestQuorum DEF TrueVerdict, a
  <2>3. Links(c, res, v)
    BY <1>2, <1>6, <2>1, <2>2 DEF Links, v
  <2> QED
    BY <2>3
<1>7. CASE v.kind # "verified"
  BY <1>2, <1>7 DEF v
<1> QED
  BY <1>6, <1>7

\* The bars of a contract and resolution among the first n, and the head of
\* their chain: the hash of the last of them.
Before(s, n, c, res) == {j \in 1 .. n : s[j].contract = c /\ s[j].resolution = res}
HeadIs(s, n, c, res, h) ==
    \/ Before(s, n, c, res) = {} /\ h = NoHash
    \/ \E m \in Before(s, n, c, res) :
          (\A j \in Before(s, n, c, res) : j <= m) /\ h = s[m].hash

\* _prev_bar_hash holds the heads, and every bar points at the head before it.
Chain ==
    /\ \E S : verified \in Seq(S)
    /\ prevBarHash = [k \in Verifiable \X Resolutions |-> prevBarHash[k]]
    /\ \A i \in 1 .. Len(verified) :
          /\ TrueVerdict(verified[i])
          /\ HeadIs(verified, i - 1, verified[i].contract, verified[i].resolution,
                  verified[i].prev)
    /\ \A c \in Verifiable, res \in Resolutions :
          HeadIs(verified, Len(verified), c, res, prevBarHash[<<c, res>>])

\* The head depends on the bars up to n only.
LEMMA HeadOfPrefix ==
    ASSUME NEW s, NEW t, NEW n \in Nat, \A j \in 1 .. n : t[j] = s[j],
           NEW c, NEW res, NEW h, HeadIs(s, n, c, res, h)
    PROVE  HeadIs(t, n, c, res, h)
<1>1. Before(t, n, c, res) = Before(s, n, c, res)
  BY DEF Before
<1>2. \A m \in Before(s, n, c, res) : t[m] = s[m]
  BY DEF Before
<1> QED
  BY <1>1, <1>2 DEF HeadIs

\* A new bar is the head of its own chain and leaves the others alone.
LEMMA HeadOfNew ==
    ASSUME NEW t, NEW n \in Nat, NEW c, NEW res,
           t[n + 1].contract = c, t[n + 1].resolution = res
    PROVE  HeadIs(t, n + 1, c, res, t[n + 1].hash)
<1>1. n + 1 \in Before(t, n + 1, c, res) /\ \A j \in Before(t, n + 1, c, res) : j <= n + 1
  BY DEF Before
<1> QED
  BY <1>1 DEF HeadIs

LEMMA HeadOfOther ==
    ASSUME NEW t, NEW n \in Nat, NEW c, NEW res, NEW h, HeadIs(t, n, c, res, h),
           ~(t[n + 1].contract = c /\ t[n + 1].resolution = res)
    PROVE  HeadIs(t, n + 1, c, res, h)
<1>1. ASSUME NEW j \in 1 .. n + 1 PROVE j \in 1 .. n \/ j = n + 1
  OBVIOUS
<1>2. 1 .. n \subseteq 1 .. n + 1
  OBVIOUS
<1>3. Before(t, n + 1, c, res) = Before(t, n, c, res)
  BY <1>1, <1>2 DEF Before
<1> QED
  BY <1>3 DEF HeadIs

LEMMA AppendAny ==
    ASSUME NEW S, NEW s \in Seq(S), NEW e
    PROVE  /\ Append(s, e) \in Seq(S \cup {e})
           /\ Len(s) \in Nat /\ Len(Append(s, e)) = Len(s) + 1
           /\ Append(s, e)[Len(s) + 1] = e
           /\ \A i \in 1 .. Len(s) : Append(s, e)[i] = s[i]
<1> DEFINE T == S \cup {e}
<1>1. /\ Len(s) \in Nat /\ DOMAIN s = 1 .. Len(s)
      /\ s = [i \in 1 .. Len(s) |-> s[i]]
      /\ \A i \in 1 .. Len(s) : s[i] \in T
  OBVIOUS
<1>2. e \in T
  OBVIOUS
<1> HIDE DEF T
<1>3. s \in Seq(T)
  BY <1>1
<1>4. /\ Append(s, e) \in Seq(T) /\ Len(Append(s, e)) = Len(s) + 1
      /\ Append(s, e)[Len(s) + 1] = e
      /\ \A i \in 1 .. Len(s) : Append(s, e)[i] = s[i]
  BY <1>1, <1>2, <1>3
<1> QED
  BY <1>1, <1>4 DEF T

LEMMA ChainGrows ==
    ASSUME Chain, NEW c \in Verifiable, NEW res \in Resolutions, NEW v, Links(c, res, v)
    PROVE  Chain'
<1> DEFINE n == Len(verified)
<1>1. PICK S : verified \in Seq(S)
  BY DEF Chain
<1>2. /\ verified' \in Seq(S \cup {v}) /\ n \in Nat /\ Len(verified') = n + 1
      /\ verified'[n + 1] = v /\ \A i \in 1 .. n : verified'[i] = verified[i]
  BY <1>1, AppendAny DEF Links
<1>3. /\ v.contract = c /\ v.resolution = res /\ v.prev = prevBarHash[<<c, res>>]
      /\ TrueVerdict(v)
  BY DEF Links
<1>4. /\ prevBarHash' = [k \in Verifiable \X Resolutions |-> prevBarHash'[k]]
      /\ prevBarHash'[<<c, res>>] = v.hash
      /\ \A k \in Verifiable \X Resolutions : k # <<c, res>> => prevBarHash'[k] = prevBarHash[k]
  <2>1. prevBarHash = [k \in Verifiable \X Resolutions |-> prevBarHash[k]]
    BY DEF Chain
  <2>2. prevBarHash' = [prevBarHash EXCEPT ![<<c, res>>] = v.hash]
    BY DEF Links
  <2>3. <<c, res>> \in Verifiable \X Resolutions
    OBVIOUS
  <2> QED
    BY <2>1, <2>2, <2>3
<1> HIDE DEF n
<1>5. ASSUME NEW m \in 0 .. n, NEW d, NEW r, NEW h, HeadIs(verified, m, d, r, h)
      PROVE  HeadIs(verified', m, d, r, h)
  <2>1. m \in Nat /\ \A j \in 1 .. m : verified'[j] = verified[j]
    BY <1>2
  <2> QED
    BY <1>5, <2>1, HeadOfPrefix
<1>6. ASSUME NEW i \in 1 .. n + 1
      PROVE  /\ TrueVerdict(verified'[i])
             /\ HeadIs(verified', i - 1, verified'[i].contract, verified'[i].resolution,
                     verified'[i].prev)
  <2>1. CASE i = n + 1
    <3>1. verified'[i] = v /\ i - 1 = n /\ n \in 0 .. n
      BY <1>2, <2>1
    <3>2. HeadIs(verified, n, c, res, v.prev)
      BY <1>3 DEF Chain, n
    <3>3. HeadIs(verified', n, c, res, v.prev)
      BY <1>5, <3>1, <3>2
    <3> QED
      BY <1>3, <3>1, <3>3
  <2>2. CASE i \in 1 .. n
    <3>1. verified'[i] = verified[i] /\ i - 1 \in 0 .. n
      BY <1>2, <2>2
    <3>2. /\ TrueVerdict(verified[i])
          /\ HeadIs(verified, i - 1, verified[i].contract, verified[i].resolution,
                  verified[i].prev)
      BY <2>2 DEF Chain, n
    <3>3. HeadIs(verified', i - 1, verified[i].contract, verified[i].resolution,
               verified[i].prev)
      BY <1>5, <3>1, <3>2
    <3> QED
      BY <3>1, <3>2, <3>3
  <2> QED
    BY <1>2, <2>1, <2>2
<1>7. ASSUME NEW d \in Verifiable, NEW r \in Resolutions
      PROVE  HeadIs(verified', n + 1, d, r, prevBarHash'[<<d, r>>])
  <2>1. CASE d = c /\ r = res
    <3>1. HeadIs(verified', n + 1, c, res, verified'[n + 1].hash)
      BY <1>2, <1>3, HeadOfNew
    <3> QED
      BY <1>2, <1>4, <2>1, <3>1
  <2>2. CASE ~(d = c /\ r = res)
    <3>1. prevBarHash'[<<d, r>>] = prevBarHash[<<d, r>>]
      <4>1. <<d, r>> # <<c, res>> /\ <<d, r>> \in Verifiable \X Resolutions
        BY <2>2
      <4> QED
        BY <1>4, <4>1
    <3>2. HeadIs(verified, n, d, r, prevBarHash[<<d, r>>])
      BY DEF Chain, n
    <3>3. n \in 0 .. n
      BY <1>2
    <3>4. HeadIs(verified', n, d, r, prevBarHash[<<d, r>>])
      BY <1>5, <3>2, <3>3
    <3>5. ~(verified'[n + 1].contract = d /\ verified'[n + 1].resolution = r)
      BY <1>2, <1>3, <2>2
    <3>6. HeadIs(verified', n + 1, d, r, prevBarHash[<<d, r>>])
      BY <1>2, <3>4, <3>5, HeadOfOther
    <3> QED
      BY <3>1, <3>6
  <2> QED
    BY <2>1, <2>2
<1>8. /\ \E T : verified' \in Seq(T)
      /\ \A i \in 1 .. Len(verified') :
            /\ TrueVerdict(verified'[i])
            /\ HeadIs(verified', i - 1, verified'[i].contract, verified'[i].resolution,
                    verified'[i].prev)
      /\ \A d \in Verifiable, r \in Resolutions :
            HeadIs(verified', Len(verified'), d, r, prevBarHash'[<<d, r>>])
  BY <1>2, <1>6, <1>7
<1> QED
  BY <1>4, <1>8 DEF Chain, TrueVerdict

LEMMA ChainStep ==
    ASSUME TypeOK, CallsHold, Chain, [VerifierNext]_allVars
    PROVE  Chain'
<1>1. CASE UNCHANGED barVars
  BY <1>1 DEF barVars, Chain, TrueVerdict
<1>2. ASSUME NEW c \in Verifiable, NEW responded \in BOOLEAN, Decide(c, responded)
      PROVE  Chain'
  <2>1. CASE \E res \in Resolutions : \E v : Links(c, res, v)
    BY <1>2, <2>1, ChainGrows
  <2> QED
    BY <1>1, <1>2, <2>1, DecideFacts
<1>3. ASSUME NEW c \in Verifiable, VerifyBar(c) PROVE Chain'
  BY <1>1, <1>2, <1>3 DEF VerifyBar
<1>4. ASSUME Len(calls) > 0, Innermost.op = "verify" PROVE Innermost.contract \in Verifiable
  <2>1. Stack(calls, inFlight) /\ calls \in Seq(Call)
    BY DEF CallsHold, Stack
  <2>2. Len(calls) \in 1 .. Len(calls)
    BY <1>4, <2>1
  <2> QED
    BY <1>4, <2>1, <2>2 DEF Stack, Innermost
<1>5. CASE VerifyGivesUp
  <2>1. pc = "check" /\ Innermost.op = "verify" /\ Decide(Innermost.contract, FALSE)
    BY <1>5 DEF VerifyGivesUp, GiveUp, TimedOut
  <2>2. Len(calls) > 0
    BY <2>1 DEF CallsHold, TypeOK
  <2> QED
    BY <1>2, <1>4, <2>1, <2>2
<1>6. CASE VerifyFails \/ VerifyReply
  <2>1. /\ pc = "idle" /\ inFlight > 0 /\ Innermost.op = "verify"
        /\ \E responded \in BOOLEAN : Decide(Innermost.contract, responded)
    BY <1>6 DEF VerifyFails, VerifyReply, RequestFails, Replied, Release
  <2>2. Len(calls) > 0
    BY <2>1 DEF CallsHold, TypeOK
  <2> QED
    BY <1>2, <1>4, <2>1, <2>2
<1>7. CASE UNCHANGED allVars
  BY <1>1, <1>7 DEF allVars, barVars
<1> QED
  BY <1>1, <1>3, <1>5, <1>6, <1>7 DEF VerifierNext

LEMMA ChainIsSound ==
    ASSUME Chain
    PROVE  VerdictsAreSound
<1>1. PICK S : verified \in Seq(S)
  BY DEF Chain
<1>2. DOMAIN verified = 1 .. Len(verified) /\ Len(verified) \in Nat
  BY <1>1
<1>3. VerifiedIsTrue
  BY <1>2 DEF VerifiedIsTrue, Chain, TrueVerdict
<1>4. ASSUME NEW i \in 1 .. Len(verified)
      PROVE  LET before == Before(verified, i - 1, verified[i].contract,
                                  verified[i].resolution)
             IN  verified[i].prev = IF before = {} THEN NoHash ELSE verified[Max(before)].hash
  <2> DEFINE before == Before(verified, i - 1, verified[i].contract, verified[i].resolution)
  <2>1. before \in SUBSET Int
    BY DEF Before
  <2>2. \/ before = {} /\ verified[i].prev = NoHash
        \/ \E m \in before : (\A j \in before : j <= m) /\ verified[i].prev = verified[m].hash
    BY DEF Chain, HeadIs
  <2> HIDE DEF before
  <2>3. ASSUME NEW m \in before, \A j \in before : j <= m PROVE Max(before) = m
    BY <2>1, <2>3, MaxIs
  <2>4. verified[i].prev = IF before = {} THEN NoHash ELSE verified[Max(before)].hash
    BY <2>2, <2>3
  <2> QED
    BY <2>4 DEF before
<1>5. ChainLinks
  BY <1>2, <1>4 DEF ChainLinks, Before
<1> QED
  BY <1>3, <1>5 DEF VerdictsAreSound

\* With fewer liars than the quorum a verified bar is the true one, and the
\* verified bars of a contract and resolution form one chain of hashes, whatever
\* sources were silent and however often verify_bar timed out, failed or found
\* no agreement in between (verifier.py, verify_bar and _prev_bar_hash).
THEOREM VerdictsSound == VerifierSpec => []VerdictsAreSound
<1>1. VerifierInit => Chain
  <2> SUFFICES ASSUME VerifierInit PROVE Chain
    OBVIOUS
  <2>1. /\ verified = << >>
        /\ prevBarHash = [k \in Verifiable \X Resolutions |-> NoHash]
    BY DEF VerifierInit
  <2>2. << >> \in Seq({}) /\ Len(<< >>) = 0 /\ 1 .. 0 = {}
    OBVIOUS
  <2>3. \A c \in Verifiable, res \in Resolutions : prevBarHash[<<c, res>>] = NoHash
    BY <2>1
  <2>4. \A c, res : Before(<< >>, 0, c, res) = {}
    BY <2>2 DEF Before
  <2>5. \E S : verified \in Seq(S)
    BY <2>1, <2>2
  <2>6. prevBarHash = [k \in Verifiable \X Resolutions |-> prevBarHash[k]]
    BY <2>1
  <2> QED
    BY <2>1, <2>2, <2>3, <2>4, <2>5, <2>6 DEF Chain, HeadIs
<1>2. Limiter /\ CallsHold /\ Chain /\ [VerifierNext]_allVars => Chain'
  BY ChainStep DEF Limiter
<1>3. Limiter /\ CallsHold /\ [VerifierNext]_allVars => (Limiter /\ CallsHold)'
  BY LimiterStep, CallsHoldStep DEF Limiter
<1>4. VerifierInit => Limiter /\ CallsHold
  BY RequestsInit
<1>5. Chain => VerdictsAreSound
  BY ChainIsSound
<1> QED
  BY <1>1, <1>2, <1>3, <1>4, <1>5, PTL DEF VerifierSpec
=============================================================================
