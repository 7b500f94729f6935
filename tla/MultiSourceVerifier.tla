-------------------------- MODULE MultiSourceVerifier --------------------------
(***************************************************************************)
(* The consensus of MultiSourceVerifier: which sources count, when their   *)
(* answers agree, and what the record of an agreement carries.  Sources    *)
(* are numbers, in the order of their source_id; the answers of a call are *)
(* a function from the sources that responded.  SHA256 is injective, so a  *)
(* hash is the tuple that is hashed.                                       *)
(***************************************************************************)
EXTENDS Integers, FiniteSets, FiniteSetsExt

CONSTANTS
    Sources,        \* the sources, numbered by source_id
    Tier            \* their tiers, 1 (best) to 6

ASSUME VerifierAssumption ==
    /\ IsFiniteSet(Sources) /\ Sources \subseteq Nat /\ Sources # {}
    /\ Tier \in [Sources -> 1..6]

T2Macro == 4        \* T2_OR_BETTER_MAX_TIER
WidePercent == 5    \* WIDE_RELATIVE_TOLERANCE
NoIso == -1         \* a settle whose source left as_of_iso empty

------------------------------------------------------------------------------
(* VerifierPolicy and the presets *)

Resolved(id, kind, quorum, band) ==
    [id |-> id, kind |-> kind, quorum |-> quorum, band |-> band, t2 |-> TRUE]

SettleExact == Resolved("settle_exact_v1", "fail_closed", 2, "TIGHT")
OhlcMajorityA1 == Resolved("ohlc_majority_v1", "majority_vote", 3, "NORMAL")
OhlcMajorityC == Resolved("ohlc_majority_c_v1", "majority_vote", 3, "NORMAL")

PhaseA1 == [umbrella |-> Resolved("phase_a1_default_v1", "fail_closed", 3, "NORMAL"),
            perField |-> [settle |-> SettleExact, ohlc |-> OhlcMajorityA1]]
PhaseB1 == [umbrella |-> Resolved("phase_b1_shadow_v1", "fail_closed", 3, "NORMAL"),
            perField |-> PhaseA1.perField]
PhaseC == [umbrella |-> Resolved("phase_c_live_v1", "majority_vote", 3, "NORMAL"),
           perField |-> [settle |-> SettleExact, ohlc |-> OhlcMajorityC]]

(* resolve_policy raises for every other name. *)
PolicyNamed == [PHASE_A1 |-> PhaseA1, PHASE_B1 |-> PhaseB1, PHASE_C |-> PhaseC]

ResolveForField(policy, field) ==
    IF field \in DOMAIN policy.perField THEN policy.perField[field] ELSE policy.umbrella

\* Mutant: the filter passes every source.
TierFilterOff(p) == Sources

TierFilter(p) == {s \in Sources : p.t2 => Tier[s] <= T2Macro}

------------------------------------------------------------------------------
(* Agreement *)

Distance(a, b) == IF a < b THEN b - a ELSE a - b

(* sorted(values)[len // 2] *)
UpperMedian(values) ==
    LET n == Cardinality(DOMAIN values)
        Below(v) == Cardinality({s \in DOMAIN values : values[s] < v})
        UpTo(v) == Cardinality({s \in DOMAIN values : values[s] <= v})
    IN CHOOSE v \in {values[s] : s \in DOMAIN values} :
          Below(v) <= n \div 2 /\ n \div 2 < UpTo(v)

(* A median of zero leaves no relative distance: then all must be zero. *)
WithinBand(values) ==
    LET m == UpperMedian(values)
    IN \A s \in DOMAIN values :
          100 * Distance(values[s], m) <= WidePercent * Distance(m, 0)

Exact(values) == \A s, t \in DOMAIN values : values[s] = values[t]

Agree(p, values) == IF p.band = "WIDE" THEN WithinBand(values) ELSE Exact(values)

Consensus(p, values) ==
    IF p.band = "WIDE" THEN UpperMedian(values) ELSE values[Min(DOMAIN values)]

(* Mutant: only the closes are compared. *)
BarsAgreeClose(p, bars) == Agree(p, [s \in DOMAIN bars |-> bars[s].close])

(* Bars: under WIDE only the closes are compared. *)
BarsAgree(p, bars) ==
    IF p.band = "WIDE"
    THEN WithinBand([s \in DOMAIN bars |-> bars[s].close])
    ELSE \A s, t \in DOMAIN bars : bars[s].close = bars[t].close
                                   /\ bars[s].rest = bars[t].rest

------------------------------------------------------------------------------
(* Records of a verdict *)

(* _source_provenance_hash: the record's own source_id, not its carrier's. *)
Provenance(r) == <<r.source, r.iso, r.sha>>

(* _compute_verifier_run_hash: the provenance is sorted, hence a bag. *)
RunHash(p, answers, id) ==
    [policy |-> p,
     provenance |-> LET hashes == {Provenance(answers[s]) : s \in DOMAIN answers}
                    IN [h \in hashes |-> Cardinality({s \in DOMAIN answers :
                                                         Provenance(answers[s]) = h})],
     id |-> id]

StateRank == [live |-> 0, preliminary |-> 1, final |-> 2]
BestState(states) == CHOOSE x \in states : \A y \in states : StateRank[y] <= StateRank[x]
BestTier(sources) == Min({Tier[s] : s \in sources})

\* Mutant: one answer short of the quorum is enough.
IncompleteByOne(p, answers) == Cardinality(DOMAIN answers) + 1 < p.quorum

Incomplete(p, answers) == Cardinality(DOMAIN answers) < p.quorum

(* verify_settle once the sources have been asked. *)
SettleVerdict(p, contract, answers) ==
    LET prices == [s \in DOMAIN answers |-> answers[s].price]
        first == answers[Min(DOMAIN answers)]
    IN CASE Incomplete(p, answers) -> [kind |-> "incomplete"]
         [] ~Incomplete(p, answers) /\ ~Agree(p, prices) -> [kind |-> "disagreement"]
         [] OTHER ->
              IF \E s \in DOMAIN answers : answers[s].iso = NoIso
              THEN [kind |-> "raised"]
              ELSE [kind |-> "verified", contract |-> contract,
                    date |-> first.date, price |-> Consensus(p, prices),
                    state |-> BestState({answers[s].state : s \in DOMAIN answers}),
                    agreed |-> Cardinality(DOMAIN answers),
                    tier |-> BestTier(DOMAIN answers),
                    hash |-> RunHash(p, answers, <<contract, first.date, "settle">>)]

(* verify_bar once the sources have been asked; prev is the chain's head. *)
BarVerdict(p, contract, ts, resolution, answers, prev) ==
    CASE Incomplete(p, answers) -> [kind |-> "incomplete"]
      [] ~Incomplete(p, answers) /\ ~BarsAgree(p, answers) -> [kind |-> "disagreement"]
      [] OTHER ->
           [kind |-> "verified", contract |-> contract, ts |-> ts, resolution |-> resolution,
            close |-> answers[Min(DOMAIN answers)].close,
            rest |-> answers[Min(DOMAIN answers)].rest,
            agreed |-> Cardinality(DOMAIN answers), tier |-> BestTier(DOMAIN answers),
            hash |-> RunHash(p, answers, <<contract, ts, resolution>>), prev |-> prev]

==============================================================================
