------------------------------ MODULE MCFanOut ------------------------------
(* An instance of FanOut for TLC. *)
EXTENDS FanOut

\* A queue: 3 waits for 1 and 2, 4 for 3, and 5 for nothing.
QueueDeps == <<{}, {}, {1, 2}, {3}, {}>>
QueueAttempts == <<2, 1, 2, 1, 1>>
=============================================================================
