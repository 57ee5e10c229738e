----------------------------- MODULE Lifecycle -----------------------------
(***************************************************************************)
(* The lifecycle rules of core/lifecycle.ts, as operators.  An instance is *)
(* a record of what its tags say and what was observed of it; times are    *)
(* in abstract units, 0 meaning "not set" as in the tags.  The cost limit  *)
(* is kept as budget, the compute time it buys at the instance's price     *)
(* (0 when the limit or the price is not set), so spent >= costLimit is    *)
(* compute >= budget.                                                      *)
(***************************************************************************)
EXTENDS Integers

CONSTANT WarnWindow   \* five minutes

ASSUME WindowAssumption == WarnWindow \in Nat

Later(a, b) == IF a < b THEN b ELSE a

\* The absolute deadline, else launch + ttl, else 0 for none.
TtlDeadline(i) ==
  IF i.deadline > 0 THEN i.deadline
  ELSE IF i.ttl > 0 /\ i.launch > 0 THEN i.launch + i.ttl
  ELSE 0

\* Variants: the floor is left out; the deadline is counted from now; the
\* duration is added to the ttl tag instead of being measured from the launch.
Extended_NoFloor(i, by, now) ==
  LET deadline == TtlDeadline(i) + by IN
  [i EXCEPT !.deadline = deadline,
            !.ttl = IF i.launch > 0 /\ deadline > i.launch THEN deadline - i.launch ELSE @]
Extended_FromNow(i, by, now) ==
  [i EXCEPT !.deadline = now + by,
            !.ttl = IF i.launch > 0 /\ now + by > i.launch THEN now + by - i.launch ELSE @]
Extended_AddToTtl(i, by, now) ==
  [i EXCEPT !.deadline = Later(TtlDeadline(i) + by, now + by), !.ttl = @ + by]

\* What extend makes of the two TTL tags: later than the old deadline by the
\* duration asked for, and at least that far from now.  The ttl tag is left
\* alone when there is no launch time to measure it from.
Extended(i, by, now) ==
  LET deadline == Later(TtlDeadline(i) + by, now + by) IN
  [i EXCEPT !.deadline = deadline,
            !.ttl = IF i.launch > 0 /\ deadline > i.launch THEN deadline - i.launch ELSE @]

-----------------------------------------------------------------------------
(* evaluate: each rule's condition, and the first rule to fire.            *)

CompletionFires(i, signal) == i.onComplete # "none" /\ signal

TtlFires(i, now) == TtlDeadline(i) > 0 /\ TtlDeadline(i) <= now

CostFires(i) == i.budget > 0 /\ i.compute >= i.budget

IdleFires(i, now, idle) ==
  /\ i.idleTimeout > 0
  /\ idle
  /\ now - i.lastActivity >= i.idleTimeout

CompletionAction(i) == IF i.onComplete = "exit" THEN "terminate" ELSE i.onComplete

IdleAction(i) == IF i.hibernates THEN "hibernate" ELSE "stop"

NoDecision == [rule |-> "none", action |-> "none"]

\* Variant: idle is looked at before the backstops.
Decision_IdleFirst(i, now, signal, idle) ==
  IF i.state # "running" THEN NoDecision
  ELSE IF CompletionFires(i, signal) THEN [rule |-> "completion", action |-> CompletionAction(i)]
  ELSE IF IdleFires(i, now, idle) THEN [rule |-> "idle", action |-> IdleAction(i)]
  ELSE IF TtlFires(i, now) THEN [rule |-> "ttl", action |-> "terminate"]
  ELSE IF CostFires(i) THEN [rule |-> "cost-limit", action |-> "terminate"]
  ELSE NoDecision

\* The first rule to fire, in this order, and only on a running instance.
Decision(i, now, signal, idle) ==
  IF i.state # "running" THEN NoDecision
  ELSE IF CompletionFires(i, signal) THEN [rule |-> "completion", action |-> CompletionAction(i)]
  ELSE IF TtlFires(i, now) THEN [rule |-> "ttl", action |-> "terminate"]
  ELSE IF CostFires(i) THEN [rule |-> "cost-limit", action |-> "terminate"]
  ELSE IF IdleFires(i, now, idle) THEN [rule |-> "idle", action |-> IdleAction(i)]
  ELSE NoDecision

\* The rules evaluate warns about.  A rule that fires ends the evaluation, so
\* it hides its own warning and those of the rules after it.
Warnings(i, now, signal, idle) ==
  LET past == CompletionFires(i, signal) \/ TtlFires(i, now) IN
  {rule \in {"ttl", "cost-limit", "idle"} :
    /\ i.state = "running"
    /\ ~ past
    /\ \/ /\ rule = "ttl"
          /\ TtlDeadline(i) > 0
          /\ TtlDeadline(i) - now <= WarnWindow
       \/ /\ rule = "cost-limit"
          /\ i.budget > 0
          /\ ~ CostFires(i)
          /\ 10 * i.compute >= 9 * i.budget
       \/ /\ rule = "idle"
          /\ ~ CostFires(i)
          /\ i.idleTimeout > 0
          /\ idle
          /\ ~ IdleFires(i, now, idle)
          /\ i.idleTimeout - (now - i.lastActivity) <= WarnWindow}

\* The state an applied action leads to; "exit" terminates.
StateAfter(action, state) ==
  CASE action \in {"terminate", "exit"} -> "terminated"
    [] action = "stop" -> "stopped"
    [] action = "hibernate" -> "hibernated"
    [] OTHER -> state
=============================================================================
