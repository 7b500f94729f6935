-------------------------------- MODULE MCBrr --------------------------------
(* An instance of BrrReconstructor for TLC: an hour of two partitions, three  *)
(* venues, a day of four bars in summer or in winter time.                    *)
EXTENDS BrrReconstructor
==============================================================================
