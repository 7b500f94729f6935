------------------------------- MODULE MCRisk -------------------------------
(* Instances of RiskManager for TLC: no edge, a Kelly size of zero, and sizes *)
(* up to 8 bound by each of the caps.                                         *)
EXTENDS RiskManager

MCKellys == {-100, 0, 40, 400, 2000}
=============================================================================
