------------------------------ MODULE MCSettle ------------------------------
(* An instance of SettlePipeline for TLC: a replay of the lowest tier, a day of *)
(* two ticks, one archive file per two days.                                    *)
EXTENDS SettlePipeline

CONSTANTS c1

MCTier == (Cme :> 2) @@ (Vendor :> 3) @@ (Echo :> 6)
==============================================================================
