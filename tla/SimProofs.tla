----------------------------- MODULE SimProofs -----------------------------
(***************************************************************************)
(* Theorems about Sim and what its cards show, for every set               *)
(* of launch requests, every clock and every order of the operations.      *)
(***************************************************************************)
EXTENDS Sim, SequenceTheorems, TLAPS

Instance ==
  [name : Names, state : InstanceStates, launch : Nat, lastActivity : Nat, ttl : Nat,
   deadline : Nat, idleTimeout : Nat, hibernates : BOOLEAN, budget : Nat, compute : Nat,
   onComplete : {"none", "terminate", "stop", "hibernate", "exit"}]

History ==
  [ran : Nat, allowed : Nat, extends : Nat, kills : Nat, woke : Nat,
   close : BOOLEAN, told : BOOLEAN, heard : BOOLEAN]

-----------------------------------------------------------------------------
(* Arithmetic and sequences.                                               *)

LEMMA OneMore == \A a, b \in Nat : a * (b + 1) = a * b + a /\ a * b \in Nat
  OBVIOUS

\* A quotient, and that less than one divisor is left.
LEMMA Quotient ==
  ASSUME NEW a \in Nat, NEW b \in Nat \ {0}
  PROVE  a \div b \in Nat /\ b * (a \div b) + b > a
  OBVIOUS

\* Reading the compute time back from its tag loses half a second at most.
LEMMA RoundedLoses ==
  ASSUME NEW c \in Nat
  PROVE  Rounded(c) \in Nat /\ 2 * Rounded(c) >= 2 * c - Second
<1> DEFINE a == 2 * c + Second
           q == a \div (2 * Second)
<1>1. Second \in Nat \ {0}
  BY TimesAssumption
<1>2. a \in Nat /\ 2 * Second \in Nat \ {0}
  BY <1>1
<1>3. q \in Nat /\ (2 * Second) * q + 2 * Second > a
  <2> HIDE DEF a
  <2>1. QED
    BY <1>2, Quotient
<1>4. (2 * Second) * q = 2 * (q * Second) /\ q * Second \in Nat
  BY <1>1, <1>3
<1>5. Rounded(c) = q * Second
  BY DEF Rounded
<1> HIDE DEF q
<1>6. QED
  BY <1>1, <1>3, <1>4, <1>5

\* A function on 1 .. n is a sequence.
LEMMA FunctionIsSeq ==
  ASSUME NEW S, NEW n \in Nat, NEW f \in [1 .. n -> S]
  PROVE  f \in Seq(S) /\ Len(f) = n
  OBVIOUS

-----------------------------------------------------------------------------
(* The inductive invariant.  What it says of one instance f with history h *)
(* at time c: its tags agree; its TTL bounds the time it ran; its compute  *)
(* time falls behind the time it ran by half a second an extension at      *)
(* most, and its budget bounds it.                                         *)

TagsOK(f) ==
  \/ f.ttl = 0 /\ f.deadline = 0
  \/ f.ttl > 0 /\ f.deadline = f.launch + f.ttl

TtlOK(f, h, c) ==
  f.deadline > 0 => h.ran + Later(f.deadline - c, 0) <= h.allowed + MaxStep * h.kills

ComputeOK(f, h) == 2 * h.ran <= 2 * f.compute + Second * h.extends

BudgetOK(f, h) ==
  f.budget > 0 => 2 * h.ran <= 2 * (f.budget + MaxStep * h.kills) + Second * h.extends

InstanceOK(f, h, c) ==
  /\ f \in Instance /\ h \in History
  /\ f.launch \in 1 .. c /\ f.lastActivity \in 1 .. c
  /\ TagsOK(f)
  /\ TtlOK(f, h, c)
  /\ ComputeOK(f, h)
  /\ BudgetOK(f, h)

IInv ==
  /\ clock \in 1 .. Horizon
  /\ fleet \in Seq(Instance) /\ hist \in Seq(History)
  /\ Len(hist) = Len(fleet) /\ Len(fleet) <= MaxInstances
  /\ warned \subseteq Instances \X {"ttl", "cost-limit", "idle"}
  /\ \A i \in Instances : InstanceOK(fleet[i], hist[i], clock)

-----------------------------------------------------------------------------
(* What each operation makes of one instance.                              *)

\* With tags that agree the deadline tag is the deadline.
LEMMA DeadlineIsTag ==
  ASSUME NEW f \in Instance, TagsOK(f)
  PROVE  TtlDeadline(f) = f.deadline
BY DEF Instance, TagsOK, TtlDeadline

\* A change of state changes nothing else.
LEMMA StateKept ==
  ASSUME NEW f, NEW h, NEW c \in Nat, InstanceOK(f, h, c), NEW s \in InstanceStates
  PROVE  InstanceOK([f EXCEPT !.state = s], h, c)
BY DEF InstanceOK, Instance, TagsOK, TtlOK, ComputeOK, BudgetOK

\* An instance that is started again.
LEMMA StartKept ==
  ASSUME NEW f, NEW h, NEW c \in Nat, InstanceOK(f, h, c)
  PROVE  InstanceOK([f EXCEPT !.state = "running", !.lastActivity = Later(@, f.launch)],
                    [h EXCEPT !.woke = c], c)
BY DEF InstanceOK, Instance, History, TagsOK, TtlOK, ComputeOK, BudgetOK, Later, InstanceStates

\* An extension moves the deadline by what it allows, or less far than that
\* beyond what was left; the tags agree again, and compute is rounded.
LEMMA ExtendKept ==
  ASSUME NEW f, NEW h, NEW c \in Nat, InstanceOK(f, h, c), NEW by \in Extensions,
         TtlDeadline(f) # 0
  PROVE  InstanceOK([Extended(f, by, c) EXCEPT !.compute = Rounded(@)],
                    [h EXCEPT !.allowed = @ + by, !.extends = @ + 1,
                              !.close = FALSE, !.told = FALSE,
                              !.heard = @ \/ h.told], c)
<1> DEFINE g == [Extended(f, by, c) EXCEPT !.compute = Rounded(@)]
           k == [h EXCEPT !.allowed = @ + by, !.extends = @ + 1,
                          !.close = FALSE, !.told = FALSE, !.heard = @ \/ h.told]
           deadline == Later(f.deadline + by, c + by)
<1>1. /\ f \in Instance /\ h \in History /\ by \in Nat \ {0} /\ Second \in Nat \ {0} /\ MaxStep \in Nat
      /\ f.launch \in 1 .. c /\ f.lastActivity \in 1 .. c
      /\ TagsOK(f) /\ TtlOK(f, h, c) /\ ComputeOK(f, h) /\ BudgetOK(f, h)
  BY TimesAssumption DEF InstanceOK
<1>2. TtlDeadline(f) = f.deadline /\ f.deadline > 0
  BY <1>1, DeadlineIsTag DEF Instance
<1>3. deadline \in Nat /\ deadline > f.launch /\ deadline >= f.deadline + by
  BY <1>1, <1>2 DEF Later, Instance
<1>4. Rounded(f.compute) \in Nat /\ 2 * Rounded(f.compute) >= 2 * f.compute - Second
  BY <1>1, RoundedLoses DEF Instance
<1>5. g = [f EXCEPT !.deadline = deadline, !.ttl = deadline - f.launch, !.compute = Rounded(f.compute)]
  <2>1. f.launch > 0 /\ deadline - f.launch \in Nat
    BY <1>1, <1>3 DEF Instance
  <2>2. deadline = Later(TtlDeadline(f) + by, c + by)
    BY <1>2
  <2> HIDE DEF deadline
  <2>3. Extended(f, by, c) = [f EXCEPT !.deadline = deadline, !.ttl = deadline - f.launch]
    BY <1>1, <1>3, <2>1, <2>2 DEF Extended, Instance
  <2>4. Extended(f, by, c).compute = f.compute
    BY <1>1, <2>3 DEF Instance
  <2>5. QED
    BY <1>1, <2>3, <2>4 DEF Instance
<1> HIDE DEF g
<1>6. g \in Instance
  <2>1. deadline - f.launch \in Nat
    BY <1>1, <1>3 DEF Instance
  <2> HIDE DEF deadline
  <2>2. QED
    BY <1>1, <1>3, <1>4, <1>5, <2>1 DEF Instance
<1>7. k \in History /\ k.ran = h.ran /\ k.kills = h.kills /\ k.allowed = h.allowed + by
      /\ k.extends = h.extends + 1
  <2>1. h.allowed + by \in Nat /\ h.extends + 1 \in Nat
    BY <1>1 DEF History
  <2>2. QED
    BY <1>1, <2>1 DEF History
<1>8. TagsOK(g) /\ g.launch \in 1 .. c /\ g.lastActivity \in 1 .. c
  BY <1>1, <1>3, <1>5 DEF TagsOK, Instance
<1> HIDE DEF k
<1>9. TtlOK(g, k, c)
  <2>1. g.deadline = deadline
    BY <1>1, <1>5 DEF Instance
  <2>2. Later(deadline - c, 0) <= Later(f.deadline - c, 0) + by
    BY <1>1 DEF Later, Instance
  <2>3. h.ran + Later(f.deadline - c, 0) <= h.allowed + MaxStep * h.kills
    BY <1>1, <1>2 DEF TtlOK
  <2>4. MaxStep * h.kills \in Nat
    BY <1>1, OneMore DEF History
  <2>5. Later(f.deadline - c, 0) \in Int /\ Later(deadline - c, 0) \in Int
    BY <1>1, <1>3 DEF Later, Instance
  <2> HIDE DEF deadline
  <2>6. QED
    BY <1>1, <1>7, <2>1, <2>2, <2>3, <2>4, <2>5 DEF TtlOK, History
<1>10. Second * (h.extends + 1) = Second * h.extends + Second /\ Second * h.extends \in Nat
  BY <1>1, OneMore DEF History
<1>11. g.compute = Rounded(f.compute) /\ g.budget = f.budget
  BY <1>1, <1>5 DEF Instance
<1>12. ComputeOK(g, k)
  BY <1>1, <1>4, <1>7, <1>10, <1>11 DEF ComputeOK, History, Instance
<1>13. MaxStep * h.kills \in Nat
  BY <1>1, OneMore DEF History
<1>14. BudgetOK(g, k)
  BY <1>1, <1>7, <1>10, <1>11, <1>13 DEF BudgetOK, History, Instance
<1>15. QED
  BY <1>6, <1>7, <1>8, <1>9, <1>12, <1>14 DEF InstanceOK, g, k

\* An instance that is not running passes through a tick as it is.
LEMMA RestingKept ==
  ASSUME NEW f, NEW h, NEW c \in Nat, InstanceOK(f, h, c), NEW d \in Nat,
         f.state # "running"
  PROVE  /\ AfterTick(f, d, c + d) = f
         /\ Judged(f, d, c + d) = NoDecision
         /\ InstanceOK(f, h, c + d)
<1>1. Judged(f, d, c + d) = NoDecision
  BY DEF Judged, Decision, Accrued
<1>2. AfterTick(f, d, c + d) = f
  BY <1>1 DEF AfterTick, Accrued, NoDecision, StateAfter, InstanceOK, Instance
<1>3. InstanceOK(f, h, c + d)
  <2>1. f \in Instance /\ h \in History /\ TtlOK(f, h, c) /\ MaxStep \in Nat
    BY TimesAssumption DEF InstanceOK
  <2>2. Later(f.deadline - (c + d), 0) <= Later(f.deadline - c, 0)
    BY <2>1 DEF Later, Instance
  <2>3. MaxStep * h.kills \in Nat
    BY <2>1, OneMore DEF History
  <2>4. Later(f.deadline - (c + d), 0) \in Int /\ Later(f.deadline - c, 0) \in Int
    BY <2>1 DEF Later, Instance
  <2>5. TtlOK(f, h, c + d)
    BY <2>1, <2>2, <2>3, <2>4 DEF TtlOK, History
  <2>6. QED
    BY <2>5 DEF InstanceOK
<1>4. QED
  BY <1>1, <1>2, <1>3

\* A tick ends a running instance exactly when its deadline has come or its
\* budget is spent, and keeps what bounds it: the step that overshoots a bound
\* is one that ends it.
LEMMA RunningKept ==
  ASSUME NEW f, NEW h, NEW c \in Nat, InstanceOK(f, h, c), NEW d \in Steps,
         f.state = "running", NEW close \in BOOLEAN, NEW told \in BOOLEAN
  PROVE  LET g == AfterTick(f, d, c + d)
             act == Judged(f, d, c + d).action
             due == f.deadline \in 1 .. (c + d) \/ f.budget \in 1 .. (f.compute + d)
         IN /\ g.compute = f.compute + d
            /\ act = "terminate" <=> due
            /\ g.state = "terminated" <=> due
            /\ InstanceOK(g, [h EXCEPT !.ran = @ + d,
                                       !.kills = IF act = "terminate" THEN @ + 1 ELSE @,
                                       !.close = close, !.told = told], c + d)
<1> DEFINE g == AfterTick(f, d, c + d)
           act == Judged(f, d, c + d).action
           kills == IF act = "terminate" THEN h.kills + 1 ELSE h.kills
           k == [h EXCEPT !.ran = @ + d,
                          !.kills = IF act = "terminate" THEN @ + 1 ELSE @,
                          !.close = close, !.told = told]
           due == f.deadline \in 1 .. (c + d) \/ f.budget \in 1 .. (f.compute + d)
           a == Accrued(f, d)
           mk == MaxStep * h.kills
<1>1. /\ f \in Instance /\ h \in History /\ Second \in Nat \ {0} /\ MaxStep \in Nat
      /\ d \in Nat /\ d <= MaxStep
      /\ f.launch \in 1 .. c /\ f.lastActivity \in 1 .. c
      /\ TagsOK(f) /\ TtlOK(f, h, c) /\ ComputeOK(f, h) /\ BudgetOK(f, h)
  BY TimesAssumption DEF InstanceOK
<1>2. f.compute + d \in Nat
  BY <1>1 DEF Instance
<1>3. /\ a = [f EXCEPT !.compute = f.compute + d]
      /\ a \in Instance /\ a.compute = f.compute + d /\ a.state = "running"
      /\ TtlDeadline(a) = f.deadline /\ a.budget = f.budget
  <2>1. a = [f EXCEPT !.compute = f.compute + d]
    BY <1>1 DEF Accrued, Instance
  <2>2. a \in Instance /\ TagsOK(a)
    BY <1>1, <1>2, <2>1 DEF Instance, TagsOK
  <2>3. QED
    BY <1>1, <1>2, <2>1, <2>2, DeadlineIsTag DEF Instance
<1>4. TtlFires(a, c + d) <=> f.deadline \in 1 .. (c + d)
  BY <1>1, <1>3 DEF TtlFires, Instance
<1>5. CostFires(a) <=> f.budget \in 1 .. (f.compute + d)
  BY <1>1, <1>3 DEF CostFires, Instance
<1>6. /\ act = "terminate" <=> due
      /\ act \in {"terminate", "stop", "hibernate", "none"}
  <2> HIDE DEF a
  <2>1. Judged(f, d, c + d) = Decision(a, c + d, FALSE, TRUE)
    BY DEF Judged, a
  <2>2. ~ CompletionFires(a, FALSE) /\ IdleAction(a) \in {"stop", "hibernate"}
    BY DEF CompletionFires, IdleAction
  <2>3. CASE TtlFires(a, c + d)
    BY <1>3, <1>4, <2>1, <2>2, <2>3 DEF Decision
  <2>4. CASE ~ TtlFires(a, c + d) /\ CostFires(a)
    BY <1>3, <1>5, <2>1, <2>2, <2>4 DEF Decision
  <2>5. CASE ~ TtlFires(a, c + d) /\ ~ CostFires(a)
    <3>1. ~ due
      BY <1>4, <1>5, <2>5
    <3>2. act \in {"stop", "hibernate", "none"}
      <4>1. \/ act = NoDecision.action
            \/ act = [rule |-> "idle", action |-> IdleAction(a)].action
        <5>1. \/ Decision(a, c + d, FALSE, TRUE) = NoDecision
              \/ Decision(a, c + d, FALSE, TRUE) = [rule |-> "idle", action |-> IdleAction(a)]
          BY <2>2, <2>5 DEF Decision
        <5>2. QED
          BY <5>1, <2>1
      <4>2. QED
        BY <4>1, <2>2 DEF NoDecision
    <3>3. QED
      BY <3>1, <3>2
  <2>6. QED
    BY <2>3, <2>4, <2>5
<1>7. /\ g = [a EXCEPT !.state = StateAfter(act, "running")]
      /\ StateAfter(act, "running") \in InstanceStates
      /\ StateAfter(act, "running") = "terminated" <=> due
  <2>1. g = [a EXCEPT !.state = StateAfter(act, "running")]
    BY <1>3 DEF AfterTick
  <2> HIDE DEF act, due, g
  <2>2. QED
    BY <1>6, <2>1 DEF StateAfter, InstanceStates
<1> HIDE DEF act, due, g
<1>8. /\ g \in Instance /\ g.compute = f.compute + d /\ g.budget = f.budget
      /\ g.deadline = f.deadline /\ g.ttl = f.ttl /\ g.launch = f.launch
      /\ g.lastActivity = f.lastActivity /\ g.state = StateAfter(act, "running")
  <2> HIDE DEF a
  <2>1. a.deadline = f.deadline /\ a.ttl = f.ttl /\ a.launch = f.launch
        /\ a.lastActivity = f.lastActivity
    BY <1>1, <1>3 DEF Instance
  <2>2. QED
    BY <1>3, <1>7, <2>1 DEF Instance
<1>9. /\ kills \in Nat /\ mk \in Nat
      /\ MaxStep * kills = IF due THEN mk + MaxStep ELSE mk
  BY <1>1, <1>6, OneMore DEF History
<1>10. k \in History /\ k.ran = h.ran + d /\ k.kills = kills
       /\ k.allowed = h.allowed /\ k.extends = h.extends
  <2>1. h.ran + d \in Nat
    BY <1>1 DEF History
  <2>2. QED
    BY <1>1, <1>9, <2>1 DEF History
<1> HIDE DEF k, kills, a
<1>11. TtlOK(g, k, c + d)
  <2>1. SUFFICES ASSUME f.deadline > 0
                 PROVE  k.ran + Later(f.deadline - (c + d), 0) <= k.allowed + MaxStep * k.kills
    BY <1>8 DEF TtlOK
  <2>2. h.ran + Later(f.deadline - c, 0) <= h.allowed + mk
    BY <1>1, <2>1 DEF TtlOK
  <2> HIDE DEF mk
  <2>3. f.deadline \in Nat /\ h.ran \in Nat /\ h.allowed \in Nat
    BY <1>1 DEF Instance, History
  <2>4. CASE due
    BY <1>1, <1>9, <1>10, <2>2, <2>3, <2>4 DEF Later
  <2>5. CASE ~ due
    <3>1. f.deadline > c + d
      BY <1>1, <2>1, <2>3, <2>5 DEF due
    <3>2. QED
      BY <1>1, <1>9, <1>10, <2>2, <2>3, <2>5, <3>1 DEF Later
  <2>6. QED
    BY <2>4, <2>5
<1>12. Second * h.extends \in Nat
  BY <1>1, OneMore DEF History
<1>13. ComputeOK(g, k)
  BY <1>1, <1>8, <1>10, <1>12 DEF ComputeOK, Instance, History
<1>14. BudgetOK(g, k)
  <2>1. SUFFICES ASSUME f.budget > 0
                 PROVE  2 * k.ran <= 2 * (f.budget + MaxStep * k.kills) + Second * k.extends
    BY <1>8 DEF BudgetOK
  <2>2. /\ 2 * h.ran <= 2 * (f.budget + mk) + Second * h.extends
        /\ 2 * h.ran <= 2 * f.compute + Second * h.extends
    BY <1>1, <2>1 DEF BudgetOK, ComputeOK
  <2> HIDE DEF mk
  <2>3. f.budget \in Nat /\ f.compute \in Nat /\ h.ran \in Nat
    BY <1>1 DEF Instance, History
  <2>4. CASE due
    BY <1>1, <1>9, <1>10, <1>12, <2>2, <2>3, <2>4
  <2>5. CASE ~ due
    <3>1. f.compute + d < f.budget
      BY <1>1, <1>2, <2>1, <2>3, <2>5 DEF due
    <3>2. QED
      BY <1>1, <1>9, <1>10, <1>12, <2>2, <2>3, <2>5, <3>1
  <2>6. QED
    BY <2>4, <2>5
<1>15. TagsOK(g) /\ g.launch \in 1 .. (c + d) /\ g.lastActivity \in 1 .. (c + d)
  BY <1>1, <1>8 DEF TagsOK, Instance
<1>16. InstanceOK(g, k, c + d)
  BY <1>8, <1>10, <1>11, <1>13, <1>14, <1>15 DEF InstanceOK
<1>17. QED
  BY <1>6, <1>7, <1>8, <1>16 DEF g, act, due, k

-----------------------------------------------------------------------------
(* The steps.                                                              *)

\* A step that keeps the number of instances keeps the invariant when it keeps
\* it for each of them.
LEMMA SameFleetSize ==
  ASSUME IInv, clock' \in 1 .. Horizon,
         fleet' = [i \in Instances |-> fleet'[i]],
         hist' = [i \in Instances |-> hist'[i]],
         \A i \in Instances : InstanceOK(fleet'[i], hist'[i], clock'),
         warned' \subseteq Instances \X {"ttl", "cost-limit", "idle"}
  PROVE  IInv'
<1>1. Len(fleet) \in Nat
  BY DEF IInv
<1>2. /\ fleet' \in [1 .. Len(fleet) -> Instance]
      /\ hist' \in [1 .. Len(fleet) -> History]
  BY DEF InstanceOK, Instances
<1>3. /\ fleet' \in Seq(Instance) /\ Len(fleet') = Len(fleet)
      /\ hist' \in Seq(History) /\ Len(hist') = Len(fleet)
  BY <1>1, <1>2, FunctionIsSeq
<1>4. Instances' = Instances
  BY <1>3 DEF Instances
<1>5. QED
  BY <1>3, <1>4 DEF IInv

\* So does one that changes one instance, at a standing clock.
LEMMA OneChanges ==
  ASSUME IInv, NEW t \in Instances, NEW f, NEW h, InstanceOK(f, h, clock),
         fleet' = [fleet EXCEPT ![t] = f], hist' = [hist EXCEPT ![t] = h],
         UNCHANGED <<clock, warned>>
  PROVE  IInv'
<1>1. DOMAIN fleet = Instances /\ DOMAIN hist = Instances
  BY LenProperties DEF IInv, Instances
<1>2. /\ fleet' = [i \in Instances |-> fleet'[i]]
      /\ hist' = [i \in Instances |-> hist'[i]]
  BY <1>1
<1>3. \A i \in Instances : InstanceOK(fleet'[i], hist'[i], clock)
  BY <1>1 DEF IInv
<1>4. QED
  BY <1>2, <1>3, SameFleetSize DEF IInv

\* A change of state by an operation is such a step.
LEMMA SetStateKeeps ==
  ASSUME IInv, NEW t \in Instances, NEW s \in InstanceStates, SetState(t, s), UNCHANGED hist
  PROVE  IInv'
<1> DEFINE f == [fleet[t] EXCEPT !.state = s]
<1>1. clock \in Nat /\ InstanceOK(fleet[t], hist[t], clock)
  BY DEF IInv
<1>2. InstanceOK(f, hist[t], clock)
  BY <1>1, StateKept
<1>3. fleet' = [fleet EXCEPT ![t] = f] /\ UNCHANGED <<clock, warned>>
  BY DEF SetState
<1>4. hist' = [hist EXCEPT ![t] = hist[t]]
  BY LenProperties DEF IInv, Instances
<1> HIDE DEF f
<1>5. QED
  BY <1>2, <1>3, <1>4, OneChanges

\* A launch adds an instance that keeps its bounds, or revives one of its name.
LEMMA LaunchKeeps ==
  ASSUME IInv, NEW r \in Requests, NEW name \in Names, Launch(r, name)
  PROVE  IInv'
<1> DEFINE f == [name |-> name, state |-> "running", launch |-> clock, lastActivity |-> clock,
                 ttl |-> r.ttl, deadline |-> IF r.ttl > 0 THEN clock + r.ttl ELSE 0,
                 idleTimeout |-> r.idleTimeout, hibernates |-> r.hibernates,
                 budget |-> r.budget, compute |-> 0, onComplete |-> r.onComplete]
           h == NewHistory(r.ttl)
<1>1. /\ r.ttl \in Nat /\ r.idleTimeout \in Nat /\ r.budget \in Nat
      /\ r.hibernates \in BOOLEAN
      /\ r.onComplete \in {"none", "terminate", "stop", "hibernate", "exit"}
      /\ clock \in Nat \ {0} /\ MaxStep \in Nat /\ Second \in Nat
  BY RequestsAssumption, TimesAssumption DEF IInv
<1>2. f \in Instance /\ h \in History
  BY <1>1 DEF Instance, History, NewHistory, InstanceStates
<1>3. InstanceOK(f, h, clock)
  <2>1. MaxStep * 0 = 0 /\ Second * 0 = 0
    BY <1>1
  <2>2. h.ran = 0 /\ h.allowed = r.ttl /\ h.kills = 0 /\ h.extends = 0
    BY DEF NewHistory
  <2> HIDE DEF h
  <2>3. TagsOK(f) /\ TtlOK(f, h, clock) /\ ComputeOK(f, h) /\ BudgetOK(f, h)
    BY <1>1, <2>1, <2>2 DEF TagsOK, TtlOK, ComputeOK, BudgetOK, Later
  <2>4. QED
    BY <1>1, <1>2, <2>3 DEF InstanceOK
<1>4. /\ fleet' = Append(fleet, f) /\ hist' = Append(hist, h)
      /\ Len(fleet) < MaxInstances /\ UNCHANGED <<clock, warned>>
  BY DEF Launch
<1> HIDE DEF f, h
<1>5. /\ fleet' \in Seq(Instance) /\ hist' \in Seq(History)
      /\ Len(fleet') = Len(fleet) + 1 /\ Len(hist') = Len(fleet) + 1
      /\ Len(fleet) \in Nat /\ MaxInstances \in Nat
  BY <1>2, <1>4, AppendProperties, TimesAssumption DEF IInv
<1>6. ASSUME NEW i \in Instances'
      PROVE  InstanceOK(fleet'[i], hist'[i], clock)
  <2>1. CASE i = Len(fleet) + 1
    BY <1>2, <1>3, <1>4, <2>1, AppendProperties DEF IInv
  <2>2. CASE i # Len(fleet) + 1
    <3>1. i \in Instances
      BY <1>5, <2>2 DEF Instances
    <3>2. fleet'[i] = fleet[i] /\ hist'[i] = hist[i]
      BY <1>2, <1>4, <3>1, AppendProperties DEF IInv, Instances
    <3>3. QED
      BY <3>1, <3>2 DEF IInv
  <2>3. QED
    BY <2>1, <2>2
<1>7. Instances \subseteq Instances'
  BY <1>5 DEF Instances
<1>8. warned' \subseteq Instances' \X {"ttl", "cost-limit", "idle"}
  BY <1>4, <1>7 DEF IInv
<1>9. Len(fleet') <= MaxInstances /\ Len(hist') = Len(fleet')
  BY <1>4, <1>5
<1>10. clock' \in 1 .. Horizon /\ \A i \in Instances' : InstanceOK(fleet'[i], hist'[i], clock')
  BY <1>4, <1>6 DEF IInv
<1>11. QED
  BY <1>5, <1>8, <1>9, <1>10 DEF IInv

\* A tick ages every instance and ends those that are due.
LEMMA TickKeeps ==
  ASSUME IInv, NEW d \in Steps, Tick(d)
  PROVE  IInv'
<1> DEFINE now == clock + d
<1>1. /\ clock \in Nat \ {0} /\ d \in Nat /\ Horizon \in Nat
      /\ now \in 1 .. Horizon /\ clock' = now
  <2>1. clock' = now /\ now <= Horizon
    BY DEF Tick
  <2>2. QED
    BY <2>1, TimesAssumption DEF IInv
<1>2. warned' \subseteq Instances \X {"ttl", "cost-limit", "idle"}
  <2>1. \A i : News(i, now) \subseteq {"ttl", "cost-limit", "idle"}
    BY DEF News, Warnings
  <2>2. warned' = warned \cup
          UNION {{i} \X News(<<i, Accrued(fleet[i], d)>>, now) : i \in Instances}
    BY DEF Tick
  <2>3. warned \subseteq Instances \X {"ttl", "cost-limit", "idle"}
    BY DEF IInv
  <2> DEFINE given(i) == {i} \X News(<<i, Accrued(fleet[i], d)>>, now)
  <2>4. \A i \in Instances : given(i) \subseteq Instances \X {"ttl", "cost-limit", "idle"}
    BY <2>1
  <2> HIDE DEF given
  <2>5. UNION {given(i) : i \in Instances} \subseteq Instances \X {"ttl", "cost-limit", "idle"}
    BY <2>4
  <2>6. QED
    BY <2>2, <2>3, <2>5 DEF given
<1>3. /\ fleet' = [i \in Instances |-> fleet'[i]]
      /\ hist' = [i \in Instances |-> hist'[i]]
  BY DEF Tick
<1>4. ASSUME NEW i \in Instances
      PROVE  InstanceOK(fleet'[i], hist'[i], now)
  <2> DEFINE close == hist[i].close \/ "ttl" \in Warnings(Accrued(fleet[i], d), now, FALSE, TRUE)
             told == hist[i].told \/ "ttl" \in News(<<i, Accrued(fleet[i], d)>>, now)
  <2>1. /\ InstanceOK(fleet[i], hist[i], clock)
        /\ hist[i] \in History
    BY DEF IInv, InstanceOK
  <2>2. close \in BOOLEAN /\ told \in BOOLEAN
    OBVIOUS
  <2>3. /\ fleet'[i] = AfterTick(fleet[i], d, now)
        /\ hist'[i] = [hist[i] EXCEPT
             !.ran = IF fleet[i].state = "running" THEN @ + d ELSE @,
             !.kills = IF Judged(fleet[i], d, now).action = "terminate" THEN @ + 1 ELSE @,
             !.close = close, !.told = told]
    BY DEF Tick
  <2> HIDE DEF close, told
  <2>4. CASE fleet[i].state = "running"
    <3>1. hist'[i] = [hist[i] EXCEPT
             !.ran = @ + d,
             !.kills = IF Judged(fleet[i], d, now).action = "terminate" THEN @ + 1 ELSE @,
             !.close = close, !.told = told]
      BY <2>3, <2>4
    <3>2. clock \in Nat
      BY <1>1
    <3>3. InstanceOK(AfterTick(fleet[i], d, clock + d),
                     [hist[i] EXCEPT
                        !.ran = @ + d,
                        !.kills = IF Judged(fleet[i], d, clock + d).action = "terminate"
                                  THEN @ + 1 ELSE @,
                        !.close = close, !.told = told],
                     clock + d)
      BY <2>1, <2>2, <2>4, <3>2, RunningKept, Zenon
    <3>4. QED
      BY <2>3, <3>1, <3>3
  <2>5. CASE fleet[i].state # "running"
    <3>1. /\ fleet'[i] = fleet[i]
          /\ Judged(fleet[i], d, now) = NoDecision
          /\ InstanceOK(fleet[i], hist[i], now)
      BY <1>1, <2>1, <2>3, <2>5, RestingKept
    <3>2. /\ hist'[i] \in History
          /\ hist'[i].ran = hist[i].ran /\ hist'[i].allowed = hist[i].allowed
          /\ hist'[i].kills = hist[i].kills /\ hist'[i].extends = hist[i].extends
      <4>1. Judged(fleet[i], d, now).action # "terminate"
        BY <3>1 DEF NoDecision
      <4>2. hist'[i] = [hist[i] EXCEPT !.ran = @, !.kills = @, !.close = close, !.told = told]
        BY <2>3, <2>5, <4>1
      <4>3. QED
        BY <2>1, <2>2, <4>2 DEF History
    <3>3. QED
      BY <3>1, <3>2 DEF InstanceOK, TtlOK, ComputeOK, BudgetOK
  <2>6. QED
    BY <2>4, <2>5
<1> HIDE DEF now
<1>5. QED
  BY <1>1, <1>2, <1>3, <1>4, SameFleetSize

\* An operation reaches one instance and leaves the others.
LEMMA OperationKeeps ==
  ASSUME IInv, NEW i \in Instances,
         \/ Stop(i) \/ Hibernate(i) \/ Terminate(i) \/ Start(i) \/ SignalComplete(i)
         \/ \E by \in Extensions : Extend(i, by)
  PROVE  IInv'
<1>1. clock \in Nat /\ \A t \in Instances : InstanceOK(fleet[t], hist[t], clock)
  BY DEF IInv
<1>2. CASE Stop(i)
  BY <1>2, SetStateKeeps DEF Stop, InstanceStates
<1>3. CASE Hibernate(i)
  BY <1>3, SetStateKeeps DEF Hibernate, InstanceStates
<1>4. CASE Terminate(i)
  BY <1>4, SetStateKeeps DEF Terminate, InstanceStates
<1>5. CASE Start(i)
  <2>1. PICK t \in Instances :
          /\ fleet' = [fleet EXCEPT ![t].state = "running",
                                    ![t].lastActivity = Later(@, fleet[t].launch)]
          /\ hist' = [hist EXCEPT ![t].woke = clock]
          /\ UNCHANGED <<clock, warned>>
    BY <1>5 DEF Start
  <2> DEFINE f == [fleet[t] EXCEPT !.state = "running", !.lastActivity = Later(@, fleet[t].launch)]
             h == [hist[t] EXCEPT !.woke = clock]
  <2>2. InstanceOK(f, h, clock)
    BY <1>1, StartKept
  <2>3. fleet' = [fleet EXCEPT ![t] = f] /\ hist' = [hist EXCEPT ![t] = h]
    BY <2>1, LenProperties DEF IInv, Instances
  <2> HIDE DEF f, h
  <2>4. QED
    BY <2>1, <2>2, <2>3, OneChanges
<1>6. CASE SignalComplete(i)
  <2>1. PICK t \in Instances :
          /\ fleet[t].onComplete # "none"
          /\ SetState(t, StateAfter(fleet[t].onComplete, fleet[t].state))
          /\ UNCHANGED hist
    BY <1>6 DEF SignalComplete
  <2>2. StateAfter(fleet[t].onComplete, fleet[t].state) \in InstanceStates
    BY <1>1, <2>1 DEF StateAfter, InstanceOK, Instance, InstanceStates
  <2>3. QED
    BY <2>1, <2>2, SetStateKeeps
<1>7. CASE \E by \in Extensions : Extend(i, by)
  <2>1. PICK by \in Extensions : Extend(i, by)
    BY <1>7
  <2>2. PICK t \in Instances :
          /\ TtlDeadline(fleet[t]) # 0
          /\ fleet' = [fleet EXCEPT ![t] =
                         [Extended(fleet[t], by, clock) EXCEPT !.compute = Rounded(@)]]
          /\ hist' = [hist EXCEPT ![t].allowed = @ + by, ![t].extends = @ + 1,
                                  ![t].close = FALSE, ![t].told = FALSE,
                                  ![t].heard = @ \/ hist[t].told]
          /\ UNCHANGED <<clock, warned>>
    BY <2>1 DEF Extend
  <2> DEFINE f == [Extended(fleet[t], by, clock) EXCEPT !.compute = Rounded(@)]
             h == [hist[t] EXCEPT !.allowed = @ + by, !.extends = @ + 1,
                                  !.close = FALSE, !.told = FALSE,
                                  !.heard = @ \/ hist[t].told]
  <2>3. InstanceOK(f, h, clock)
    BY <1>1, <2>2, ExtendKept
  <2>4. fleet' = [fleet EXCEPT ![t] = f] /\ hist' = [hist EXCEPT ![t] = h]
    BY <2>2, LenProperties DEF IInv, Instances
  <2> HIDE DEF f, h
  <2>5. QED
    BY <2>2, <2>3, <2>4, OneChanges
<1>8. QED
  BY <1>2, <1>3, <1>4, <1>5, <1>6, <1>7

\* The banner terminates orphans and changes nothing else.
LEMMA ReapKeeps ==
  ASSUME IInv, ReapOrphans
  PROVE  IInv'
<1>1. /\ fleet' = [i \in Instances |->
                     IF i \in Orphans THEN [fleet[i] EXCEPT !.state = "terminated"] ELSE fleet[i]]
      /\ UNCHANGED <<clock, warned, hist>>
  BY DEF ReapOrphans
<1>2. clock \in Nat /\ "terminated" \in InstanceStates
  BY DEF IInv, InstanceStates
<1>3. \A i \in Instances : InstanceOK(fleet'[i], hist[i], clock)
  <2>1. TAKE i \in Instances
  <2>2. InstanceOK(fleet[i], hist[i], clock)
    BY DEF IInv
  <2>3. InstanceOK([fleet[i] EXCEPT !.state = "terminated"], hist[i], clock)
    BY <1>2, <2>2, StateKept
  <2>4. QED
    BY <1>1, <2>2, <2>3
<1>4. /\ fleet' = [i \in Instances |-> fleet'[i]]
      /\ hist' = [i \in Instances |-> hist'[i]]
  BY <1>1, LenProperties DEF IInv, Instances
<1>5. QED
  BY <1>1, <1>3, <1>4, SameFleetSize DEF IInv

\* Every step keeps every instance.
LEMMA StepKeeps ==
  ASSUME IInv, [Next]_vars
  PROVE  IInv'
<1>1. CASE UNCHANGED vars
  BY <1>1 DEF vars, IInv, Instances
<1>2. CASE \E r \in Requests, name \in Names : Launch(r, name)
  BY <1>2, LaunchKeeps
<1>3. CASE \E i \in Instances :
             \/ Stop(i) \/ Hibernate(i) \/ Terminate(i) \/ Start(i)
             \/ \E by \in Extensions : Extend(i, by)
             \/ SignalComplete(i)
  BY <1>3, OperationKeeps
<1>4. CASE ReapOrphans
  BY <1>4, ReapKeeps
<1>5. CASE \E d \in Steps : Tick(d)
  BY <1>5, TickKeeps
<1>6. QED
  BY <1>1, <1>2, <1>3, <1>4, <1>5 DEF Next

\* There are no instances at the start.
LEMMA InitHolds == Init => IInv
<1>1. << >> \in Seq(Instance) /\ << >> \in Seq(History) /\ Len(<< >>) = 0
  BY EmptySeq
<1>2. Horizon \in Nat \ {0} /\ MaxInstances \in Nat
  BY TimesAssumption
<1>3. QED
  BY <1>1, <1>2 DEF Init, IInv, Instances

\* The invariant holds in every state.
LEMMA Invariance == Spec => []IInv
  BY InitHolds, StepKeeps, PTL DEF Spec

-----------------------------------------------------------------------------
(* What follows from the invariant.                                        *)

LEMMA DeadlineTag == IInv => \A i \in Instances : TtlDeadline(fleet[i]) = fleet[i].deadline
  BY DeadlineIsTag DEF IInv, InstanceOK

\* Every variable keeps its type, whatever is launched and in whatever order
\* the operations come.
THEOREM TypeCorrect == Spec => []SimTypeOK
<1>1. IInv => SimTypeOK
  BY DEF IInv, SimTypeOK, InstanceOK, Instance
<1>2. QED
  BY <1>1, Invariance, PTL

\* The TTL bounds the time an instance really runs: stops, starts, extensions
\* and revivals of the mock buy no life, for any TTLs, durations and steps.
THEOREM TtlAlwaysBounds == Spec => []TtlBoundsRunning
<1>1. IInv => TtlBoundsRunning
  BY DeadlineTag DEF IInv, InstanceOK, TtlOK, TtlBoundsRunning, Remaining
<1>2. QED
  BY <1>1, Invariance, PTL

\* The cost limit bounds it too, up to the rounding of the tag that holds the
\* compute time.
THEOREM BudgetAlwaysBounds == Spec => []BudgetBoundsRunning
<1>1. IInv => BudgetBoundsRunning
  BY DEF IInv, InstanceOK, BudgetOK, BudgetBoundsRunning
<1>2. QED
  BY <1>1, Invariance, PTL

\* The ttl tag and the deadline tag always agree.
THEOREM TagsAlwaysAgree == Spec => []TtlTagsAgree
<1>1. IInv => TtlTagsAgree
  BY DEF IInv, InstanceOK, TagsOK, TtlTagsAgree, Instance
<1>2. QED
  BY <1>1, Invariance, PTL

\* The tags of every instance stay consistent, through every operation on it.
THEOREM TagsAlwaysConsistent == Spec => []TagsAreConsistent
<1>1. QED
  BY TypeCorrect, TagsAlwaysAgree, PTL DEF TagsAreConsistent

\* A tick ends what is due or out of budget, and nothing else.
LEMMA TickDestroysDue ==
  ASSUME IInv, NEW d \in Steps, Tick(d), NEW i \in Instances, fleet[i].state = "running"
  PROVE  fleet'[i].state = "terminated" <=>
           \/ TtlDeadline(fleet[i]) \in 1 .. clock'
           \/ fleet[i].budget \in 1 .. fleet'[i].compute
<1>1. InstanceOK(fleet[i], hist[i], clock) /\ clock \in Nat
  BY DEF IInv
<1>2. clock' = clock + d /\ fleet'[i] = AfterTick(fleet[i], d, clock + d)
  BY DEF Tick
<1>3. LET g == AfterTick(fleet[i], d, clock + d)
      IN /\ g.compute = fleet[i].compute + d
         /\ g.state = "terminated" <=>
              \/ fleet[i].deadline \in 1 .. (clock + d)
              \/ fleet[i].budget \in 1 .. (fleet[i].compute + d)
  BY <1>1, RunningKept, Zenon
<1>4. QED
  BY <1>2, <1>3, DeadlineTag

\* A tick destroys a running instance when a backstop is due, and only then.
THEOREM BackstopsAlone == Spec => OnlyBackstopsDestroy
<1> DEFINE Destroys ==
      clock' # clock =>
        \A i \in Instances :
          fleet[i].state = "running" =>
            LET due == \/ TtlDeadline(fleet[i]) \in 1 .. clock'
                       \/ fleet[i].budget \in 1 .. fleet'[i].compute
            IN fleet'[i].state = "terminated" <=> due
<1>1. ASSUME IInv, Next
      PROVE  Destroys
  <2>1. CASE \E d \in Steps : Tick(d)
    BY <1>1, <2>1, TickDestroysDue
  <2>2. CASE ~ \E d \in Steps : Tick(d)
    <3>1. ASSUME NEW i \in Instances, NEW by \in Extensions, Extend(i, by)
          PROVE  clock' = clock
      BY <3>1 DEF Extend
    <3>2. clock' = clock
      BY <1>1, <2>2, <3>1 DEF Next, Launch, Stop, Hibernate, Terminate, Start, SignalComplete,
         ReapOrphans, SetState
    <3>3. QED
      BY <3>2
  <2>3. QED
    BY <2>1, <2>2
<1>2. IInv /\ [Next]_vars => [Destroys]_vars
  BY <1>1
<1> HIDE DEF Destroys
<1>3. Spec => [][Destroys]_vars
  BY <1>2, Invariance, PTL DEF Spec
<1>4. QED
  BY <1>3 DEF OnlyBackstopsDestroy, Destroys

\* Only an extension counts as one.
LEMMA OnlyExtendCounts ==
  ASSUME IInv, Next, NEW i \in Instances, hist'[i].extends # hist[i].extends
  PROVE  \E by \in Extensions :
           /\ TtlDeadline(fleet[i]) # 0
           /\ fleet'[i] = [Extended(fleet[i], by, clock) EXCEPT !.compute = Rounded(@)]
           /\ hist'[i].allowed = hist[i].allowed + by
<1>1. /\ DOMAIN fleet = Instances /\ DOMAIN hist = Instances
      /\ \A t \in Instances : hist[t] \in History
  BY LenProperties DEF IInv, Instances, InstanceOK
<1>2. ASSUME NEW j \in Instances, NEW by \in Extensions, Extend(j, by)
      PROVE  /\ TtlDeadline(fleet[i]) # 0
             /\ fleet'[i] = [Extended(fleet[i], by, clock) EXCEPT !.compute = Rounded(@)]
             /\ hist'[i].allowed = hist[i].allowed + by
  <2>1. PICK t \in Instances :
          /\ TtlDeadline(fleet[t]) # 0
          /\ fleet' = [fleet EXCEPT ![t] =
                         [Extended(fleet[t], by, clock) EXCEPT !.compute = Rounded(@)]]
          /\ hist' = [hist EXCEPT ![t].allowed = @ + by, ![t].extends = @ + 1,
                                  ![t].close = FALSE, ![t].told = FALSE,
                                  ![t].heard = @ \/ hist[t].told]
    BY <1>2 DEF Extend
  <2>2. t = i
    BY <1>1, <2>1
  <2>3. QED
    BY <1>1, <2>1, <2>2 DEF History
<1>3. ASSUME NEW r \in Requests, NEW name \in Names, Launch(r, name)
      PROVE  FALSE
  <2>1. /\ hist' = Append(hist, NewHistory(r.ttl)) /\ i \in 1 .. Len(hist)
    BY <1>3 DEF Launch, IInv, Instances
  <2>2. hist'[i] = hist[i]
    BY <2>1 DEF IInv
  <2>3. QED
    BY <2>2
<1>4. ASSUME NEW j \in Instances, Start(j)
      PROVE  FALSE
  BY <1>1, <1>4 DEF Start, History
<1>5. ASSUME NEW d \in Steps, Tick(d)
      PROVE  FALSE
  BY <1>1, <1>5 DEF Tick, History
<1>6. ASSUME NEW j \in Instances, Stop(j) \/ Hibernate(j) \/ Terminate(j) \/ SignalComplete(j)
      PROVE  FALSE
  BY <1>6 DEF Stop, Hibernate, Terminate, SignalComplete
<1>7. ~ ReapOrphans
  BY DEF ReapOrphans
<1>8. QED
  BY <1>2, <1>3, <1>4, <1>5, <1>6, <1>7 DEF Next

\* Every extension, however late it comes, moves the deadline by its duration
\* and leaves the instance that long from now.
THEOREM ExtensionsReachFuture == Spec => ExtensionReachesFuture
<1> DEFINE Reaching ==
      \A i \in Instances :
        hist'[i].extends # hist[i].extends =>
          LET by == hist'[i].allowed - hist[i].allowed IN
          /\ TtlDeadline(fleet'[i]) >= TtlDeadline(fleet[i]) + by
          /\ TtlDeadline(fleet'[i]) >= clock + by
<1>1. ASSUME IInv, Next
      PROVE  Reaching
  <2>1. SUFFICES ASSUME NEW i \in Instances, hist'[i].extends # hist[i].extends
                 PROVE  LET by == hist'[i].allowed - hist[i].allowed IN
                        /\ TtlDeadline(fleet'[i]) >= TtlDeadline(fleet[i]) + by
                        /\ TtlDeadline(fleet'[i]) >= clock + by
    OBVIOUS
  <2>2. PICK by \in Extensions :
          /\ TtlDeadline(fleet[i]) # 0
          /\ fleet'[i] = [Extended(fleet[i], by, clock) EXCEPT !.compute = Rounded(@)]
          /\ hist'[i].allowed = hist[i].allowed + by
    BY <1>1, <2>1, OnlyExtendCounts
  <2>3. InstanceOK(fleet[i], hist[i], clock) /\ clock \in Nat /\ by \in Nat \ {0}
    BY <1>1, TimesAssumption DEF IInv
  <2>4. hist'[i].allowed - hist[i].allowed = by
    BY <2>2, <2>3 DEF InstanceOK, History
  <2>5. TtlDeadline(fleet[i]) \in Nat
    BY <2>3 DEF InstanceOK, Instance, TtlDeadline
  <2> DEFINE deadline == Later(TtlDeadline(fleet[i]) + by, clock + by)
  <2>6. deadline \in Nat \ {0} /\ deadline >= TtlDeadline(fleet[i]) + by /\ deadline >= clock + by
    BY <2>3, <2>5 DEF Later
  <2>7. fleet'[i].deadline = deadline
    BY <2>2, <2>3 DEF Extended, InstanceOK, Instance
  <2> HIDE DEF deadline
  <2>8. TtlDeadline(fleet'[i]) = deadline
    BY <2>6, <2>7 DEF TtlDeadline
  <2>9. QED
    BY <2>4, <2>6, <2>8
<1>2. IInv /\ [Next]_vars => [Reaching]_vars
  BY <1>1
<1> HIDE DEF Reaching
<1>3. Spec => [][Reaching]_vars
  BY <1>2, Invariance, PTL DEF Spec
<1>4. QED
  BY <1>3 DEF ExtensionReachesFuture, Reaching

-----------------------------------------------------------------------------
(* What the user was told.  A warning of a deadline is remembered in       *)
(* warned for ever: it was told since the last extension or before it, and *)
(* never both.                                                             *)

Told(i, w, h) ==
  /\ <<i, "ttl">> \in w <=> h.told \/ h.heard
  /\ ~ (h.told /\ h.heard)
  /\ h.close => h.told \/ h.heard

WarnInv == \A i \in Instances : Told(i, warned, hist[i])

\* The instances are the domains of the two sequences.
LEMMA Domains ==
  ASSUME IInv
  PROVE  DOMAIN fleet = Instances /\ DOMAIN hist = Instances
BY LenProperties DEF IInv, Instances

\* The fleet after a step is a sequence again.
LEMMA DomainsNext ==
  ASSUME IInv'
  PROVE  DOMAIN fleet' = Instances' /\ DOMAIN hist' = Instances'
BY LenProperties DEF IInv, Instances

\* A tick keeps it: it warns of every deadline that has come near.
LEMMA TickTells ==
  ASSUME IInv, IInv', WarnInv, NEW d \in Steps, Tick(d)
  PROVE  WarnInv'
<1> DEFINE now == clock + d
           news(i) == News(<<i, Accrued(fleet[i], d)>>, now)
<1>1. Instances' = Instances
  <2>1. DOMAIN hist' = Instances
    BY DEF Tick
  <2>2. QED
    BY <2>1, DomainsNext
<1>2. ASSUME NEW i \in Instances
      PROVE  Told(i, warned', hist'[i])
  <2>1. Told(i, warned, hist[i]) /\ hist[i] \in History
    BY <1>2 DEF WarnInv, IInv, InstanceOK
  <2>2. /\ hist'[i].heard = hist[i].heard
        /\ hist'[i].close = (hist[i].close \/ "ttl" \in Warnings(Accrued(fleet[i], d), now, FALSE, TRUE))
        /\ hist'[i].told = (hist[i].told \/ "ttl" \in news(i))
    BY <1>2, <2>1 DEF Tick, History
  <2>3. <<i, "ttl">> \in warned' <=> <<i, "ttl">> \in warned \/ "ttl" \in news(i)
    <3>1. warned' = warned \cup UNION {{j} \X news(j) : j \in Instances}
      BY DEF Tick
    <3> HIDE DEF news
    <3>2. QED
      BY <1>2, <3>1
  <2>4. "ttl" \in Warnings(Accrued(fleet[i], d), now, FALSE, TRUE) =>
          "ttl" \in news(i) \/ <<i, "ttl">> \in warned
    BY DEF News
  <2> HIDE DEF news
  <2>5. CASE "ttl" \in news(i)
    <3>1. hist'[i].told /\ <<i, "ttl">> \notin warned /\ <<i, "ttl">> \in warned'
      BY <2>2, <2>3, <2>5 DEF news, News
    <3>2. ~ hist'[i].heard
      BY <2>1, <2>2, <3>1 DEF Told
    <3>3. QED
      BY <3>1, <3>2 DEF Told
  <2>6. CASE "ttl" \notin news(i)
    <3>1. /\ <<i, "ttl">> \in warned' <=> <<i, "ttl">> \in warned
          /\ hist'[i].told <=> hist[i].told
          /\ hist'[i].close => hist[i].close \/ <<i, "ttl">> \in warned
      BY <2>2, <2>3, <2>4, <2>6
    <3>2. QED
      BY <2>1, <2>2, <3>1, Zenon DEF Told
  <2>7. QED
    BY <2>5, <2>6
<1>3. QED
  BY <1>1, <1>2 DEF WarnInv

\* A launch keeps what the warnings have told of every instance.
LEMMA LaunchTells ==
  ASSUME IInv, WarnInv, NEW r \in Requests, NEW name \in Names, Launch(r, name)
  PROVE  WarnInv'
<1> DEFINE n == Len(fleet) + 1
<1>1. Len(fleet') = n /\ Len(hist) = Len(fleet) /\ Len(fleet) \in Nat
  BY LenProperties DEF Launch, IInv
<1>2. hist'[n] = NewHistory(r.ttl) /\ \A i \in Instances : hist'[i] = hist[i]
  BY <1>1, AppendProperties DEF Launch, IInv, Instances
<1>3. warned' = warned /\ \A i \in 1 .. n : i \in Instances \/ (i = n /\ <<i, "ttl">> \notin warned)
  BY <1>1 DEF Launch, IInv, Instances
<1>4. Told(n, {}, hist'[n])
  BY <1>2 DEF NewHistory, Told
<1> HIDE DEF n
<1>5. QED
  BY <1>1, <1>2, <1>3, <1>4 DEF WarnInv, Instances, Told

\* What changes of a history is the start; or it is extended, and what was told
\* was told before.
LEMMA OperationTells ==
  ASSUME IInv, IInv', WarnInv, NEW j \in Instances,
         \/ Stop(j) \/ Hibernate(j) \/ Terminate(j) \/ Start(j) \/ SignalComplete(j)
         \/ (\E by \in Extensions : Extend(j, by)) \/ ReapOrphans
  PROVE  WarnInv'
<1>1. Instances' = Instances /\ warned' = warned
  <2>1. DOMAIN hist' = DOMAIN hist /\ warned' = warned
    BY DEF Stop, Hibernate, Terminate, Start, SignalComplete, Extend, ReapOrphans, SetState
  <2>2. QED
    BY <2>1, Domains, DomainsNext
<1>2. \A i \in Instances : hist[i] \in History /\ Told(i, warned, hist[i])
  BY DEF IInv, InstanceOK, WarnInv
<1>3. ASSUME NEW i \in Instances
      PROVE  \/ hist'[i] = hist[i]
             \/ hist'[i] = [hist[i] EXCEPT !.woke = clock]
             \/ /\ hist'[i].close = FALSE /\ hist'[i].told = FALSE
                /\ hist'[i].heard = (hist[i].heard \/ hist[i].told)
  <2>1. DOMAIN hist = Instances
    BY LenProperties DEF IInv, Instances
  <2>2. CASE UNCHANGED hist
    BY <2>2
  <2>3. CASE Start(j)
    BY <2>1, <2>3 DEF Start
  <2>4. CASE \E by \in Extensions : Extend(j, by)
    <3>1. PICK by \in Extensions, t \in Instances :
            hist' = [hist EXCEPT ![t].allowed = @ + by, ![t].extends = @ + 1,
                                 ![t].close = FALSE, ![t].told = FALSE,
                                 ![t].heard = @ \/ hist[t].told]
      BY <2>4 DEF Extend
    <3>2. CASE t = i
      BY <1>2, <2>1, <3>1, <3>2 DEF History
    <3>3. CASE t # i
      BY <2>1, <3>1, <3>3
    <3>4. QED
      BY <3>2, <3>3
  <2>5. QED
    BY <2>2, <2>3, <2>4 DEF Stop, Hibernate, Terminate, SignalComplete, ReapOrphans
<1>4. ASSUME NEW i \in Instances
      PROVE  Told(i, warned, hist'[i])
  <2>1. hist[i] \in History /\ Told(i, warned, hist[i])
    BY <1>2, <1>4
  <2>2. CASE hist'[i] = hist[i]
    BY <2>1, <2>2
  <2>3. CASE hist'[i] = [hist[i] EXCEPT !.woke = clock]
    <3>1. /\ hist'[i].close = hist[i].close /\ hist'[i].told = hist[i].told
          /\ hist'[i].heard = hist[i].heard
      BY <2>1, <2>3 DEF History
    <3>2. QED
      BY <2>1, <3>1, Zenon DEF Told
  <2>4. CASE /\ hist'[i].close = FALSE /\ hist'[i].told = FALSE
             /\ hist'[i].heard = (hist[i].heard \/ hist[i].told)
    <3>1. ~ hist'[i].close /\ ~ hist'[i].told /\ (hist'[i].heard <=> hist[i].told \/ hist[i].heard)
      BY <2>4
    <3>2. QED
      BY <2>1, <3>1, Zenon DEF Told
  <2>5. QED
    BY <1>3, <1>4, <2>2, <2>3, <2>4
<1>5. QED
  BY <1>1, <1>4 DEF WarnInv

\* Whose deadline was close when a tick looked was warned of it exactly if he
\* had not been warned of one before, whatever he was warned of besides.
THEOREM AlwaysWarnedOnce == Spec => []WarnedOnce
<1>1. Init => WarnInv
  BY DEF Init, WarnInv, Instances
<1>2. IInv /\ WarnInv /\ [Next]_vars => WarnInv'
  <2>1. ASSUME IInv, WarnInv, Next
        PROVE  WarnInv'
    <3>0. IInv'
      BY <2>1, StepKeeps
    <3>1. CASE \E r \in Requests, name \in Names : Launch(r, name)
      BY <2>1, <3>1, LaunchTells
    <3>2. CASE \E d \in Steps : Tick(d)
      BY <2>1, <3>0, <3>2, TickTells
    <3>3. CASE ReapOrphans
      <4>1. PICK j \in Instances : TRUE
        BY <3>3 DEF ReapOrphans, Orphans
      <4>2. QED
        BY <2>1, <3>0, <3>3, <4>1, OperationTells
    <3>4. QED
      BY <2>1, <3>0, <3>1, <3>2, <3>3, OperationTells DEF Next
  <2>2. WarnInv /\ UNCHANGED vars => WarnInv'
    BY DEF WarnInv, Instances, vars
  <2>3. QED
    BY <2>1, <2>2
<1>3. WarnInv => WarnedOnce
  BY Zenon DEF WarnInv, Told, WarnedOnce
<1>4. QED
  BY <1>1, <1>2, <1>3, Invariance, PTL DEF Spec

-----------------------------------------------------------------------------
(* What the cards show.                                                    *)

LEMMA MetersFit == IInv => MeterFits
<1> SUFFICES ASSUME IInv, NEW i \in Carded
             PROVE  TtlMeter(i).part <= TtlMeter(i).whole
  BY DEF MeterFits
<1>1. InstanceOK(fleet[i], hist[i], clock) /\ clock \in Nat
  BY DEF IInv, Carded
<1>2. fleet[i].ttl \in Nat /\ fleet[i].deadline \in Nat /\ fleet[i].launch \in 1 .. clock
      /\ TagsOK(fleet[i])
  BY <1>1 DEF InstanceOK, Instance
<1>3. CASE fleet[i].deadline = 0 \/ fleet[i].ttl = 0
  BY <1>3 DEF TtlMeter, NoMeter
<1>4. CASE ~ (fleet[i].deadline = 0 \/ fleet[i].ttl = 0)
  <2>1. fleet[i].deadline - clock <= fleet[i].ttl
    BY <1>1, <1>2, <1>4 DEF TagsOK
  <2>2. TtlMeter(i).part = fleet[i].deadline - clock /\ TtlMeter(i).whole = fleet[i].ttl
    BY <1>4 DEF TtlMeter
  <2>3. QED
    BY <2>1, <2>2
<1>5. QED
  BY <1>3, <1>4

\* What the banner counts has an empty meter.
LEMMA OrphansAreEmpty == IInv => OrphanIsEmpty
<1> SUFFICES ASSUME IInv, NEW i \in Orphans
             PROVE  i \in Carded /\ TtlMeter(i).part < 0 /\ "terminate" \in Buttons(i)
  BY DEF OrphanIsEmpty
<1>1. /\ i \in Instances /\ fleet[i].state \in {"running", "pending"}
      /\ TtlDeadline(fleet[i]) > 0 /\ clock > TtlDeadline(fleet[i]) + Grace
  BY DEF Orphans
<1>2. InstanceOK(fleet[i], hist[i], clock) /\ clock \in Nat /\ Grace \in Nat
  BY <1>1, TimesAssumption DEF IInv
<1>3. /\ fleet[i].ttl \in Nat /\ fleet[i].deadline \in Nat /\ TagsOK(fleet[i])
      /\ TtlDeadline(fleet[i]) = fleet[i].deadline
  BY <1>1, <1>2, DeadlineTag DEF InstanceOK, Instance
<1>4. fleet[i].deadline # 0 /\ fleet[i].ttl # 0 /\ fleet[i].deadline - clock < 0
  BY <1>1, <1>2, <1>3 DEF TagsOK
<1>5. TtlMeter(i).part = fleet[i].deadline - clock
  BY <1>4 DEF TtlMeter
<1>6. QED
  BY <1>1, <1>4, <1>5 DEF Carded, Buttons

\* One warning in the life of an instance, meters that fit, and a banner over
\* empty ones, whatever was launched, stopped, started and extended before.
THEOREM TtlAlwaysNoticed == Spec => []TtlNotices
<1>1. QED
  BY MetersFit, OrphansAreEmpty, AlwaysWarnedOnce, Invariance, PTL DEF TtlNotices
=============================================================================
