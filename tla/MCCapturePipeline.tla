------------------------- MODULE MCCapturePipeline -------------------------
(* An instance of CapturePipeline for TLC. *)
EXTENDS CapturePipeline, TLC

CONSTANTS c1, v1, v2

MCFormats == [code : {"raw8", "raw10"}, size : {2, 4}]
MCDefaultFormat == [code |-> "raw8", size |-> 4]
MCRequests == {[code |-> "raw10", size |-> 2], [code |-> "yuyv", size |-> 3]}
=============================================================================
