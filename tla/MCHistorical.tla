---------------------------- MODULE MCHistorical ----------------------------
(* An instance of BarVerification for TLC: a day of three seconds, a Thursday *)
(* and a Friday session, one lying source that is asked first.                *)
EXTENDS BarVerification

CONSTANTS k1, k2

MCTier == [s \in {1, 2, 3, 4} |-> IF s = 2 THEN 3 ELSE 2]
MCWindows == {<<0, 4>>, <<2, 10>>, <<0, 12>>, <<4, 5>>}
MCAsOfs == {24 * 3 + 20, 24 * 5 + 6, 24 * 6 + 6}
=============================================================================
