---------------------------- MODULE SettlePipeline ----------------------------
(***************************************************************************)
(* verify_settle over the sources of a deployment: the exchange's pages     *)
(* (asking them also writes the archive), a vendor, and the replay of the   *)
(* archive.  The exchange is asked first, in steps, while the clock runs    *)
(* and the page changes; then the others, which only read.                  *)
(***************************************************************************)
EXTENDS CmeArchive, MultiSourceVerifier, TLC

CONSTANTS
    Cme, Vendor, Echo,      \* the three sources, in the order of their ids
    Faulty,                 \* sources that may answer anything
    MaxVerdicts             \* bound: verified settles kept

ASSUME PipelineAssumption ==
    /\ Sources = {Cme, Vendor, Echo} /\ Cme < Vendor /\ Vendor < Echo
    /\ Faulty \subseteq {Vendor}
    /\ MaxVerdicts \in Nat

(* A ReplayDataSource keeps its default tier, T4_DERIVED: below the filter's. *)
ASSUME ReplayAssumption == Tier[Echo] > T2Macro

VARIABLES
    policy,         \* resolved for the settle field, locked at construction
    call,           \* the verify_settle call in progress
    verdicts        \* every verified settle, with the answers it rests on

pipelineVars == <<policy, call, verdicts>>
vars == <<archiveVars, pipelineVars>>

NoAnswers == [s \in {} |-> 0]
NoCall == [stage |-> "idle", contract |-> Idle.contract, asOf |-> 0, answers |-> NoAnswers]

(* A deployment's policy: a preset, one that also admits derived sources, or *)
(* one with the wide band.                                                   *)
Policies ==
    {ResolveForField(PolicyNamed[name], "settle") : name \in DOMAIN PolicyNamed}
    \cup {[SettleExact EXCEPT !.id = "relaxed_v1", !.t2 = FALSE],
          [SettleExact EXCEPT !.id = "wide_v1", !.band = "WIDE"]}

PipelineInit ==
    /\ Init
    /\ policy \in Policies
    /\ call = NoCall
    /\ verdicts = {}

------------------------------------------------------------------------------
(* verify_settle *)

(* as_of is the moment of the call; the exchange is asked first. *)
VerifySettle(c) ==
    /\ call.stage = "idle"
    /\ Cardinality(verdicts) < MaxVerdicts
    /\ Cme \in TierFilter(policy)
    /\ BeginFetch(c)
    /\ call' = [stage |-> "cme", contract |-> c, asOf |-> clock, answers |-> NoAnswers]
    /\ UNCHANGED <<policy, verdicts>>

(* The answers with one more. *)
Answered(answers, s, r) ==
    [t \in DOMAIN answers \cup {s} |-> IF t = s THEN r ELSE answers[t]]

\* The exchange has answered, or has not.
Responds(r) == call' = [call EXCEPT !.stage = "others", !.answers = Answered(@, Cme, r)]
Silent == call' = [call EXCEPT !.stage = "others"]

(* The settle as the verifier sees it. *)
Settle(source, r) == [source |-> source, date |-> r.date, state |-> r.state,
                      price |-> r.price, iso |-> r.iso, sha |-> r.sha]

CmeAnswers ==
    /\ call.stage = "cme"
    /\ EndWrite
    /\ LET r == Answer(call.contract, scrape.rows)
       IN IF r = None THEN Silent ELSE Responds(Settle(Cme, r))
    /\ UNCHANGED <<policy, verdicts>>

(* A DataSourceError, or a page without any settle. *)
CmeSilent ==
    /\ call.stage = "cme"
    /\ FetchFails \/ (Fetched /\ scrape'.pc = "idle")
    /\ Silent
    /\ UNCHANGED <<policy, verdicts>>

CmeWorks ==
    /\ call.stage = "cme"
    /\ (Fetched /\ scrape'.pc = "parsed") \/ ReadArchive \/ BeginWrite
    /\ UNCHANGED pipelineVars

(* A torn archive raises no DataSourceError: the whole call raises. *)
CmeRaises ==
    /\ call.stage = "cme"
    /\ ReadRaises
    /\ call' = NoCall
    /\ UNCHANGED <<policy, verdicts>>

ProcessCrash ==
    /\ Crash
    /\ call' = NoCall
    /\ UNCHANGED <<policy, verdicts>>

(* The vendor's settle of today or of an earlier day; an honest one quotes a *)
(* settle that the exchange has published for the day it names.              *)
VendorQuotes(c, d, p) ==
    Vendor \in Faulty \/ \E q \in published : q.date = d /\ q.price[c] = p

VendorSettles ==
    {[source |-> Vendor, date |-> q[1], state |-> "final", price |-> q[2],
      iso |-> IF stamped THEN DayLength * q[1] ELSE NoIso, sha |-> q] :
        q \in {q \in Dates \X Prices : /\ q[1] <= Day(call.asOf)
                                      /\ VendorQuotes(call.contract, q[1], q[2])},
        stamped \in BOOLEAN}

(* The answers with the vendor's, if it has one. *)
AskVendor(answers) ==
    {answers} \cup (IF Vendor \in TierFilter(policy)
                    THEN {Answered(answers, Vendor, r) : r \in VendorSettles} ELSE {})

(* The replayed record carries the source_id of its origin. *)
AskEcho(answers) ==
    LET r == Replay(call.contract, call.asOf)
    IN IF Echo \notin TierFilter(policy) \/ ReplayRaises(call.asOf) \/ r = None
       THEN answers
       ELSE Answered(answers, Echo, Settle(Cme, r))

(* The other sources in their order, and the verdict.  They write nothing and *)
(* the archive is this process's own: nothing in between changes an answer.   *)
Decide ==
    /\ call.stage = "others"
    /\ \E asked \in AskVendor(call.answers) :
         LET answers == AskEcho(asked)
             v == SettleVerdict(policy, call.contract, answers)
         IN verdicts' = IF v.kind = "verified"
                        THEN verdicts \cup {[v |-> v, answers |-> answers]}
                        ELSE verdicts
    /\ call' = NoCall
    /\ UNCHANGED <<archiveVars, policy>>

------------------------------------------------------------------------------

World == (Tick \/ Publish) /\ UNCHANGED pipelineVars

PipelineNext ==
    \/ World
    \/ \E c \in Contracts : VerifySettle(c)
    \/ CmeWorks \/ CmeAnswers \/ CmeSilent \/ CmeRaises
    \/ Decide
    \/ ProcessCrash

Spec == PipelineInit /\ [][PipelineNext]_vars

------------------------------------------------------------------------------
(* Properties *)

(* Every variable has its shape: archived rows lie in the file of their year, *)
(* a key occurs once in a file, and a call past the exchange has no scrape.    *)
PipelineTypeOK ==
    /\ clock \in Times /\ page \in published /\ published \subseteq Pages
    /\ \A y \in Years : /\ archive[y] \in [exists : BOOLEAN, torn : BOOLEAN, rows : SUBSET Rows]
                        /\ \A r \in Archived(y) : Year(r.date) = y
                        /\ \A r, q \in Archived(y) : Key(r) = Key(q) => r = q
    /\ policy \in Policies
    /\ call.stage \in {"idle", "cme", "others"}
    /\ scrape.pc # "idle" <=> call.stage = "cme"
    /\ DOMAIN call.answers \subseteq TierFilter(policy)

(* _write_archive keeps history: whatever settle the live source has ever     *)
(* returned is still in its year's file under its key (contract, date, state, *)
(* bytes), revisions and re-fetches included, unless a crash tore the file.   *)
HistoryKept ==
    \A k \in returned : \/ archive[Year(k.date)].torn
                        \/ k \in Keys(Archived(Year(k.date)))

(* Backtest is live: while the exchange has revised nothing and no fetch       *)
(* straddled a publication, replaying the archive as of now gives exactly the  *)
(* settle the live source returned last, with the provenance of that fetch.    *)
ReplayIsLive ==
    (/\ Revisions = 0
     /\ ~\E y \in Years : archive[y].torn
     /\ \A r \in returned : \E q \in published : q.sha = r.sha /\ q.date = r.date)
    => \A c \in Contracts : seen[c] # None => Replay(c, clock) = seen[c]

(* A verified price is one the exchange has published for the contract (within *)
(* the band, if that is wide), as long as fewer sources lie than the quorum.    *)
VerifiedWasPublished ==
    \A x \in verdicts : Cardinality(Faulty) < policy.quorum =>
        \E q \in published :
            /\ q.price[x.v.contract] # Missing
            /\ IF policy.band = "WIDE"
               THEN 100 * Distance(x.v.price, q.price[x.v.contract]) <= WidePercent * x.v.price
               ELSE q.price[x.v.contract] = x.v.price

(* A quorum is made of independent records: with the tier filter on, the      *)
(* exchange's own page replayed from the archive never confirms itself.       *)
IndependentQuorum ==
    \A x \in verdicts : policy.t2 =>
        Cardinality({x.answers[s].source : s \in DOMAIN x.answers}) >= policy.quorum

(* verifier_run_hash stands for the verdict: two verdicts with one hash carry *)
(* the same date, price, state and number of sources.                         *)
HashIdentifies ==
    \A x, y \in verdicts : x.v.hash = y.v.hash => x.v = y.v

\* The archive keeps what was returned, each key once and in its year's file.
ArchiveIsSound == PipelineTypeOK /\ HistoryKept

\* A quorum is independent and its hash stands for its verdict.
QuorumIsSound == IndependentQuorum /\ HashIdentifies

==============================================================================
