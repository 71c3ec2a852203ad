---------------------------- MODULE MCIsiCapture ----------------------------
(* Instances of IsiCapture for TLC. *)
EXTENDS IsiCapture, TLC

\* The buffers are interchangeable.
BufferSymmetry == Permutations(Buffers)
=============================================================================
