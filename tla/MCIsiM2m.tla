------------------------------ MODULE MCIsiM2m ------------------------------
(* An instance of IsiM2m for TLC. *)
EXTENDS IsiM2m

\* A target may be as large as the source or smaller; 3 is refused as upscaling.
MCSizes == [out |-> {2}, cap |-> {1, 2, 3}]
=============================================================================
