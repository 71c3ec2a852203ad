----------------------------- MODULE MCImx219 -----------------------------
(***************************************************************************)
(* Instances of Imx219 for TLC: a small and a large mode whose frame       *)
(* lengths, blanking ranges and exposure ranges overlap only in part, so   *)
(* that changing the mode or the blanking has to move the exposure.        *)
(***************************************************************************)
EXTENDS Imx219

CONSTANTS small, large

MCWidth == [m \in Modes |-> IF m = small THEN 4 ELSE 8]
MCHeight == [m \in Modes |-> IF m = small THEN 4 ELSE 6]
MCVtsDef == [m \in Modes |-> IF m = small THEN 9 ELSE 11]
===========================================================================
