----------------------------- MODULE BufferFifo -----------------------------
(***************************************************************************)
(* What a capture queue promises its application: buffers come back in the *)
(* order in which they were queued, each once, and a buffer the            *)
(* application has not queued is never filled.  Stopping the stream hands  *)
(* everything back at once.                                                *)
(***************************************************************************)
EXTENDS Naturals, Sequences, DriverLists

CONSTANT Buffers

VARIABLES
    line,   \* queued buffers, oldest first
    ready   \* how many at the front of the line are filled

Init == line = <<>> /\ ready = 0

Queue(b) ==
    /\ b \notin Range(line)
    /\ line' = Append(line, b)
    /\ UNCHANGED ready

Fill ==
    /\ ready < Len(line)
    /\ ready' = ready + 1
    /\ UNCHANGED line

Dequeue ==
    /\ ready > 0
    /\ line' = Tail(line)
    /\ ready' = ready - 1

Cancel == line' = <<>> /\ ready' = 0

Next == (\E b \in Buffers : Queue(b)) \/ Fill \/ Dequeue \/ Cancel

Spec == Init /\ [][Next]_<<line, ready>>
=============================================================================
