------------------------------- MODULE MCSim -------------------------------
(* Instances of Sim for TLC. *)
EXTENDS Sim

Request(ttl, idleTimeout, hibernates, budget, onComplete) ==
  [ttl |-> ttl, idleTimeout |-> idleTimeout, hibernates |-> hibernates,
   budget |-> budget, onComplete |-> onComplete]

\* Every rule at once; a cost limit with an idle timeout; a TTL alone.
Mixed == {Request(3, 2, TRUE, 3, "exit"), Request(0, 1, FALSE, 2, "stop"), Request(4, 0, FALSE, 0, "none")}

IdleOnly == {Request(0, 2, FALSE, 0, "none")}
TtlOnly == {Request(3, 0, FALSE, 0, "none")}

None == {}
One == {1}
OneOrTwo == {1, 2}
=============================================================================
