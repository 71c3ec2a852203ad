----------------------------- MODULE MCOv5648 -----------------------------
(* Instances of Ov5648 for TLC. *)
EXTENDS Ov5648, TLC

CONSTANTS f1, f2, f3, c1, c2, v1, v2

===========================================================================
