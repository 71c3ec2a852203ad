----------------------------- MODULE DriverLists -----------------------------
(* What the properties say about the buffer lists of the two ISI drivers. *)
EXTENDS Naturals, Sequences

\* The buffers on a list.
Range(s) == {s[i] : i \in DOMAIN s}

\* No buffer is on the list twice.
NoRepeat(s) == \A i, j \in DOMAIN s : s[i] = s[j] => i = j
=============================================================================
