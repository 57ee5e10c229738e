------------------------------- MODULE JobDag -------------------------------
(***************************************************************************)
(* What a sweep, a queue or a job array promises its user, with nothing of *)
(* how the engine does it: jobs run in dependency order, a bounded number  *)
(* at a time; a lost job takes its dependents with it at once; the failure *)
(* policy and the viability threshold end the set at once.                 *)
(***************************************************************************)
EXTENDS Integers, FiniteSets

CONSTANTS
  Jobs,
  DependsOn,      \* the jobs each job waits for
  Capacity,       \* jobs active at once
  Threshold,      \* jobs that must not be lost for the set to be worth running
  StopOnFailure

VARIABLE status

Of(s, what) == {j \in Jobs : s[j] \in what}

Lost(s) == Of(s, {"failed", "skipped"})

\* No job of the set may start any more.
Over(s) ==
  \/ StopOnFailure /\ Of(s, {"failed"}) # {}
  \/ Cardinality(Jobs) - Cardinality(Lost(s)) < Threshold

Doomed(s, j) == Over(s) \/ DependsOn[j] \cap Lost(s) # {}

Init == status = [j \in Jobs |-> "waiting"]

\* A job waits, is active once or, retried, several times, and ends.
Moves ==
  { <<"waiting", "active">>, <<"waiting", "skipped">>, <<"active", "waiting">>,
    <<"active", "done">>, <<"active", "failed">> }

Step ==
  /\ status' \in [Jobs -> {"waiting", "active", "done", "failed", "skipped"}]
  /\ \A j \in Jobs : status'[j] = status[j] \/ <<status[j], status'[j]>> \in Moves
  /\ Cardinality(Of(status', {"active"})) <= Capacity
  /\ \A j \in Jobs :
       /\ status[j] = "waiting" /\ status'[j] = "active" =>
            DependsOn[j] \subseteq Of(status', {"done"}) /\ ~ Doomed(status', j)
       /\ status'[j] = "waiting" => ~ Doomed(status', j)
       /\ status[j] = "waiting" /\ status'[j] = "skipped" => Doomed(status', j)

Spec == Init /\ [][Step]_status
=============================================================================
