--------------------------- MODULE BarVerification ---------------------------
(***************************************************************************)
(* verify_bar over IBKRHistoricalDataSource and other sources: the IBKR    *)
(* part of the call waits in the rate limiter, and whatever becomes of it  *)
(* the verdict is taken from the sources that answered.  Verified bars of  *)
(* a contract and resolution form a chain of hashes.                       *)
(***************************************************************************)
EXTENDS IbkrHistorical, MultiSourceVerifier

CONSTANTS
    Ibkr,               \* the source above
    Liars,              \* sources that may answer any bar
    Verifiable, Resolutions, Moments,   \* contract, resolution, bar_ts to verify
    MaxBars             \* bound: verified bars

ASSUME BarAssumption ==
    /\ Ibkr \in Sources /\ Liars \subseteq Sources \ {Ibkr}
    /\ Verifiable \subseteq Keys /\ Moments \subseteq Nat /\ MaxBars \in Nat

VARIABLES
    prevBarHash,        \* _prev_bar_hash
    verified            \* every VerifiedBar, in the order of the calls

barVars == <<prevBarHash, verified>>
allVars == <<vars, sourceVars, barVars>>

NoHash == [id |-> <<>>]
OhlcPolicy == ResolveForField(PhaseA1, "ohlc")

PrevKey(c, res) == <<c, res>>

VerifierInit ==
    /\ SourceInit
    /\ prevBarHash = [k \in Verifiable \X Resolutions |-> NoHash]
    /\ verified = <<>>

-----------------------------------------------------------------------------

TrueBar(s, ts) == [source |-> s, close |-> ts, rest |-> "true", iso |-> 0, sha |-> ts]
AnyBars(s, ts) == {[TrueBar(s, ts) EXCEPT !.close = x, !.rest = r] :
                       x \in {ts, ts + 1}, r \in {"true", "false"}}

\* What the other eligible sources answer.
Others(ts) ==
    LET asked == TierFilter(OhlcPolicy) \ {Ibkr}
    IN  UNION {{f \in [S -> UNION {AnyBars(s, ts) : s \in S}] :
                   \A s \in S : f[s] \in IF s \in Liars THEN AnyBars(s, ts)
                                                        ELSE {TrueBar(s, ts)}} :
               S \in SUBSET asked}

\* get_bars(bar_ts, bar_ts + 1 ms), of which the bar at bar_ts itself counts.
IbkrAnswer(ts) ==
    IF ts \in Served(<<2 * ts, 2 * ts + 1>>) THEN [s \in {Ibkr} |-> TrueBar(Ibkr, ts)]
                                             ELSE [s \in {} |-> TrueBar(Ibkr, ts)]

\* verify_bar after its sources were asked.
Decide(c, responded) ==
    \E ts \in Moments, res \in Resolutions : \E others \in Others(ts) :
        LET ibkr == IF responded THEN IbkrAnswer(ts) ELSE [s \in {} |-> TrueBar(Ibkr, ts)]
            answers == [s \in DOMAIN ibkr \cup DOMAIN others |->
                            IF s = Ibkr THEN ibkr[s] ELSE others[s]]
            v == BarVerdict(OhlcPolicy, c, ts, res, answers, prevBarHash[PrevKey(c, res)])
        IN  IF v.kind = "verified"
            THEN /\ prevBarHash' = [prevBarHash EXCEPT ![PrevKey(c, res)] = v.hash]
                 /\ verified' = Append(verified, v)
            ELSE UNCHANGED barVars

\* verify_bar up to IBKR's acquire(); without a connection it goes on without.
VerifyBar(c) ==
    /\ calls = <<>>
    /\ Len(verified) < MaxBars
    /\ \/ Begin("verify", c) /\ UNCHANGED barVars
       \/ Free /\ ~connected /\ Decide(c, FALSE) /\ UNCHANGED <<vars, sourceVars>>

\* Timeout, failure and reply of IBKR's part; only the last may hold a bar.
VerifyGivesUp == GiveUp("verify") /\ Decide(Innermost.contract, FALSE)
VerifyFails == RequestFails("verify") /\ Decide(Innermost.contract, FALSE)
VerifyReply ==
    /\ Replied("verify")
    /\ End(NoAnswer)
    /\ Decide(Innermost.contract, TRUE)

VerifierNext ==
    \/ SourceNext /\ UNCHANGED barVars
    \/ \E c \in Verifiable : VerifyBar(c)
    \/ VerifyGivesUp \/ VerifyFails \/ VerifyReply

\* The thread runs on inside acquire() and when a call returns; the clock goes on.
VerifierSpec ==
    /\ VerifierInit
    /\ [][VerifierNext]_allVars
    /\ WF_allVars((InAcquire \/ TakeSlot \/ GiveUp("fetch"))
                  /\ UNCHANGED barVars)
    /\ WF_allVars(VerifyGivesUp)
    /\ WF_allVars(Returns /\ UNCHANGED barVars)
    /\ WF_allVars(Clock /\ UNCHANGED barVars)

-----------------------------------------------------------------------------
(* Properties *)

\* With fewer lying sources than the quorum, a verified bar is the true one in
\* all its fields, whichever sources were silent.
VerifiedIsTrue ==
    Cardinality(Liars) < OhlcPolicy.quorum =>
        \A i \in DOMAIN verified : /\ verified[i].close = verified[i].ts
                                   /\ verified[i].rest = "true"

\* The chain: each verified bar points at the verified bar before it of the
\* same contract and resolution; what was not verified leaves no link.
ChainLinks ==
    \A i \in DOMAIN verified :
        LET before == {j \in 1 .. i - 1 : /\ verified[j].contract = verified[i].contract
                                          /\ verified[j].resolution = verified[i].resolution}
        IN  verified[i].prev = IF before = {} THEN NoHash ELSE verified[Max(before)].hash

\* Verified bars are true and form a chain per contract and resolution.
VerdictsAreSound == VerifiedIsTrue /\ ChainLinks

=============================================================================
