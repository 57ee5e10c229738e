---------------------------- MODULE MonitorProofs ----------------------------
(***************************************************************************)
(* Theorems about the monitor on EC2, for any instances, any number of     *)
(* ticks under way at once and any durations: whatever the order and the   *)
(* failure of the calls, only an extension that came in between makes the  *)
(* client terminate what is not due, and extensions that follow one        *)
(* another all count.                                                      *)
(***************************************************************************)
EXTENDS MCMonitors, WellFoundedInduction, TLAPS

USE MonitorConstants

-----------------------------------------------------------------------------
(***************************************************************************)
(* The invariant.  Of what a list says of an instance, all that a deadline *)
(* depends on stays as it was launched, but for the tags that an extension *)
(* writes; and those still stand in the list unless the instance is in     *)
(* moved.  What is decided on a list was due when it was decided.          *)
(***************************************************************************)
Kept(f, i) ==
    /\ f.launch = Launched[i].launch /\ f.budget = Launched[i].budget
    /\ f.compute = Launched[i].compute
    /\ f.deadline = 0 => f.ttl = Launched[i].ttl

FleetOK(f) == f \in [Ids -> Instance] /\ \A i \in Ids : Kept(f[i], i)

\* List snap has the deadlines of fleet f, but for those in moved.
Current(snap, moved, f) == \A i \in Ids \ moved : snap[i].deadline = f[i].deadline

Actions == {"terminate", "stop", "hibernate"}

\* Action a was due of instance f, or is still.
Decided(a, f, c) == a \in Actions /\ (a = "terminate" => TtlFires(f, c) \/ CostFires(f))

TickOK(t, f, c) ==
    /\ t \in [stage : Stages, snap : [Ids -> Instance], at : 0 .. N,
              action : Actions \cup {"none"}, moved : SUBSET Ids]
    /\ FleetOK(t.snap)
    /\ t.stage \notin {"idle", "listing"} => Current(t.snap, t.moved, f)
    /\ t.stage = "acting" => t.at \in Ids /\ Decided(t.action, t.snap[t.at], c)

ReapOK(r, f, c) ==
    /\ r \in [stage : {"idle", "reaping", "refreshing"}, todo : SUBSET Ids,
              snap : [Ids -> Instance], moved : SUBSET Ids]
    /\ FleetOK(r.snap)
    /\ r.stage = "reaping" <=> r.todo # {}
    /\ r.stage # "idle" => Current(r.snap, r.moved, f)
    /\ \A i \in r.todo : TtlFires(r.snap[i], c)

ExtendOK(x) ==
    /\ x \in [stage : {"idle", "tagging", "refreshing"}, at : 0 .. N, by : Nat, base : Nat,
              tags : Instance]
    /\ x.stage # "idle" => x.at \in Ids /\ x.tags.deadline > 0

MonitorInv ==
    /\ clock \in Nat /\ FleetOK(fleet) /\ FleetOK(listed)
    /\ DOMAIN tick = Slots /\ \A k \in Slots : TickOK(tick[k], fleet, clock)
    /\ DOMAIN ext = Extenders /\ \A e \in Extenders : ExtendOK(ext[e])
    /\ ReapOK(reap, fleet, clock)
    /\ granted \in [Ids -> Nat]

-----------------------------------------------------------------------------
\* A set of numbers has a least one.
LEMMA LeastNumber ==
  ASSUME NEW S, S \subseteq Nat, S # {}
  PROVE  \E x \in S : \A y \in S : x <= y
<1> DEFINE R == {p \in Nat \X Nat : p[1] < p[2]}
<1>1. IsWellFoundedOn(R, Nat)
  BY NatLessThanWellFounded, Zenon DEF OpToRel
<1>2. PICK x \in S : \A y \in S : ~ (<<y, x>> \in R)
  <2> HIDE DEF R
  <2>1. QED
    BY <1>1, WFMin
<1>3. ASSUME NEW y \in S PROVE x <= y
  <2>1. y \in Nat /\ x \in Nat /\ <<y, x>> \notin R
    BY <1>2
  <2>2. ~ (y < x)
    BY <2>1
  <2>3. QED
    BY <2>1, <2>2
<1>4. QED
  BY <1>3

\* Two records of an instance with the same deadline tag have the same deadline.
LEMMA SameDeadline ==
  ASSUME NEW i \in Ids, NEW f \in Instance, NEW g \in Instance, Kept(f, i), Kept(g, i),
         f.deadline = g.deadline
  PROVE  TtlDeadline(f) = TtlDeadline(g) /\ CostFires(f) = CostFires(g)
BY DEF Kept, TtlDeadline, CostFires, Instance

\* A deadline is a number, and one that is past stays so.
LEMMA DeadlineIsNumber ==
  ASSUME NEW f \in Instance, NEW c \in Nat, NEW d \in Nat, c <= d
  PROVE  /\ TtlDeadline(f) \in Nat
         /\ TtlFires(f, c) => TtlFires(f, d)
BY DEF TtlDeadline, TtlFires, Instance

\* Time and the states of instances leave what is under way as it was.
LEMMA TickRests ==
  ASSUME NEW t, NEW f, NEW g, NEW c \in Nat, NEW d \in Nat, TickOK(t, f, c), c <= d,
         \A i \in Ids : g[i].deadline = f[i].deadline
  PROVE  TickOK(t, g, d)
<1>1. t.stage = "acting" => t.snap[t.at] \in Instance
  BY DEF TickOK
<1>2. QED
  BY <1>1, DeadlineIsNumber DEF TickOK, Current, Decided

\* The same of the banner's reaping.
LEMMA ReapRests ==
  ASSUME NEW r, NEW f, NEW g, NEW c \in Nat, NEW d \in Nat, ReapOK(r, f, c), c <= d,
         \A i \in Ids : g[i].deadline = f[i].deadline
  PROVE  ReapOK(r, g, d)
<1>1. \A i \in r.todo : r.snap[i] \in Instance
  BY DEF ReapOK
<1>2. QED
  BY <1>1, DeadlineIsNumber DEF ReapOK, Current

\* What the rules decide is due.
LEMMA DecisionIsDue ==
  ASSUME NEW f \in Instance, NEW c \in Nat, Decision(f, c, FALSE, TRUE) # NoDecision
  PROVE  Decided(Decision(f, c, FALSE, TRUE).action, f, c)
BY DEF Decision, Decided, Actions, NoDecision, CompletionFires, IdleAction, Instance

\* The loop goes on with an instance that something is due of, or to the list.
LEMMA LoopGoesOn ==
  ASSUME NEW k \in Slots, NEW t, NEW f, NEW n \in Nat \ {0}, clock \in Nat, TickOK(t, f, clock),
         DOMAIN tick = Slots, t.stage \in {"answer", "acting"}, LoopFrom(k, t, n)
  PROVE  /\ TickOK(tick'[k], f, clock) /\ DOMAIN tick' = Slots
         /\ \A j \in Slots \ {k} : tick'[j] = tick[j]
<1> DEFINE decision(i) == Decision(t.snap[i], clock, FALSE, TRUE)
           due == {i \in n .. N : decision(i) # NoDecision}
           first == CHOOSE i \in due : \A j \in due : i <= j
           next == IF due = {} THEN [t EXCEPT !.stage = "relisting"]
                   ELSE [t EXCEPT !.stage = "acting", !.at = first, !.action = decision(first).action]
<1>1. tick' = [tick EXCEPT ![k] = next]
  BY DEF LoopFrom, Goes
<1>2. tick'[k] = next /\ DOMAIN tick' = Slots /\ \A j \in Slots \ {k} : tick'[j] = tick[j]
  BY <1>1
<1>3. CASE due = {}
  <2>1. next = [t EXCEPT !.stage = "relisting"]
    BY <1>3
  <2>2. TickOK([t EXCEPT !.stage = "relisting"], f, clock)
    BY DEF TickOK, Stages
  <2>3. QED
    BY <1>2, <2>1, <2>2
<1>4. CASE due # {}
  <2>1. due \subseteq Nat /\ due \subseteq Ids
    <3> HIDE DEF decision
    <3>1. \A i \in n .. N : i \in Nat /\ i \in 1 .. N
      OBVIOUS
    <3>2. QED
      BY <3>1 DEF Ids
  <2>2. \E i \in due : \A j \in due : i <= j
    BY <1>4, <2>1, LeastNumber
  <2>3. first \in due
    BY <2>2
  <2>4. first \in Ids /\ decision(first) # NoDecision /\ t.snap[first] \in Instance
    BY <2>1, <2>3 DEF TickOK
  <2>5. Decided(decision(first).action, t.snap[first], clock)
    BY <2>4, DecisionIsDue
  <2>6. next = [t EXCEPT !.stage = "acting", !.at = first, !.action = decision(first).action]
    BY <1>4
  <2> DEFINE a == decision(first).action
             i == first
  <2>7. Decided(a, t.snap[i], clock) /\ i \in Ids /\ next = [t EXCEPT !.stage = "acting", !.at = i, !.action = a]
    BY <2>4, <2>5, <2>6
  <2> HIDE DEF a, i, next
  <2>8. TickOK(next, f, clock)
    <3>1. a \in Actions /\ i \in 0 .. N
      BY <2>7 DEF Decided, Ids
    <3>2. /\ next.stage = "acting" /\ next.at = i /\ next.action = a
          /\ next.snap = t.snap /\ next.moved = t.moved
          /\ next \in [stage : Stages, snap : [Ids -> Instance], at : 0 .. N,
                       action : Actions \cup {"none"}, moved : SUBSET Ids]
      BY <2>7, <3>1 DEF TickOK, Stages
    <3>3. QED
      BY <2>7, <3>2 DEF TickOK
  <2>9. QED
    BY <1>2, <2>8
<1>5. QED
  BY <1>3, <1>4

\* A call that EC2 performs changes a state and nothing else.
LEMMA PerformKeeps ==
  ASSUME FleetOK(fleet), NEW i \in Ids, NEW a, Perform(i, a)
  PROVE  /\ FleetOK(fleet') /\ \A j \in Ids : fleet'[j].deadline = fleet[j].deadline
         /\ \A j \in Ids : TtlDeadline(fleet'[j]) = TtlDeadline(fleet[j])
<1>1. Ec2State(i, a) \in {"running", "stopped", "terminated"}
  BY DEF Ec2State
<1>2. fleet' = [fleet EXCEPT ![i].state = Ec2State(i, a)]
  BY DEF Perform
<1>3. fleet' \in [Ids -> Instance]
  BY <1>1, <1>2 DEF FleetOK, Instance
<1>4. ASSUME NEW j \in Ids
      PROVE  /\ Kept(fleet'[j], j) /\ fleet'[j].deadline = fleet[j].deadline
             /\ fleet'[j].ttl = fleet[j].ttl /\ fleet'[j].launch = fleet[j].launch
  BY <1>2 DEF FleetOK, Kept, Instance
<1>5. QED
  BY <1>3, <1>4 DEF FleetOK, TtlDeadline

-----------------------------------------------------------------------------
(* Every step keeps the invariant.                                         *)

\* At the start every list is the one of the launch.
LEMMA MonitorStarts == Init => MonitorInv
<1> SUFFICES ASSUME Init PROVE MonitorInv
  OBVIOUS
<1> USE DEF Init
<1>1. FleetOK(Launched) /\ Launched[1] \in Instance /\ 1 \in Ids
  BY DEF FleetOK, Kept, Ids
<1>2. TickOK(Idle, fleet, clock)
  BY <1>1 DEF TickOK, Idle, Stages
<1>3. ExtendOK(NoExtend)
  BY <1>1 DEF ExtendOK, NoExtend
<1>4. ReapOK(NoReap, fleet, clock)
  BY <1>1 DEF ReapOK, NoReap
<1>5. QED
  BY <1>1, <1>2, <1>3, <1>4 DEF MonitorInv

\* Nothing under way is disturbed by time, nor by what leaves the deadlines.
LEMMA UnderWayRests ==
  ASSUME MonitorInv, clock' \in Nat, clock <= clock',
         \A i \in Ids : fleet'[i].deadline = fleet[i].deadline
  PROVE  /\ \A k \in Slots : TickOK(tick[k], fleet', clock')
         /\ ReapOK(reap, fleet', clock')
BY TickRests, ReapRests DEF MonitorInv

\* One tick goes on.
LEMMA TickGoesOn ==
  ASSUME MonitorInv, NEW k \in Slots, NEW t, TickOK(t, fleet, clock), tick'[k] = t,
         DOMAIN tick' = Slots, \A j \in Slots \ {k} : tick'[j] = tick[j],
         UNCHANGED <<clock, ext, reap, granted>>, FleetOK(fleet'), FleetOK(listed'),
         \A i \in Ids : fleet'[i].deadline = fleet[i].deadline
  PROVE  MonitorInv'
<1>1. clock' \in Nat /\ clock <= clock'
  BY DEF MonitorInv
<1>2. /\ \A j \in Slots : TickOK(tick[j], fleet', clock')
      /\ ReapOK(reap, fleet', clock')
  BY <1>1, UnderWayRests
<1>3. TickOK(t, fleet', clock')
  BY <1>1, TickRests DEF MonitorInv
<1>4. \A j \in Slots : TickOK(tick'[j], fleet', clock')
  BY <1>2, <1>3
<1>5. QED
  BY <1>1, <1>2, <1>4 DEF MonitorInv

\* Goes names the next record of a tick.
LEMMA GoesTo ==
  ASSUME MonitorInv, NEW k \in Slots, NEW t, Goes(k, t)
  PROVE  tick'[k] = t /\ DOMAIN tick' = Slots /\ \A j \in Slots \ {k} : tick'[j] = tick[j]
BY DEF Goes, MonitorInv

\* A tick at rest, and one whose stage alone moves on.
LEMMA TickStages ==
  ASSUME MonitorInv, NEW k \in Slots
  PROVE  /\ TickOK(Idle, fleet, clock)
         /\ TickOK([Idle EXCEPT !.stage = "listing"], fleet, clock)
         /\ tick[k].stage = "reanswer" => TickOK([tick[k] EXCEPT !.stage = "pumping"], fleet, clock)
         /\ \A st \in {"answer", "reanswer"} :
              TickOK([tick[k] EXCEPT !.snap = fleet, !.moved = {}, !.stage = st], fleet, clock)
<1>1. FleetOK(Launched) /\ FleetOK(fleet) /\ TickOK(tick[k], fleet, clock)
  BY DEF MonitorInv, FleetOK, Kept
<1>2. TickOK(Idle, fleet, clock) /\ TickOK([Idle EXCEPT !.stage = "listing"], fleet, clock)
  BY <1>1 DEF TickOK, Idle, Stages, FleetOK
<1>3. tick[k].stage = "reanswer" => TickOK([tick[k] EXCEPT !.stage = "pumping"], fleet, clock)
  BY <1>1 DEF TickOK, Stages
<1>4. ASSUME NEW st \in {"answer", "reanswer"}
      PROVE  TickOK([tick[k] EXCEPT !.snap = fleet, !.moved = {}, !.stage = st], fleet, clock)
  <2>1. fleet \in [Ids -> Instance]
    BY <1>1 DEF FleetOK
  <2>2. QED
    BY <1>1, <2>1 DEF TickOK, Stages, Current
<1>5. QED
  BY <1>2, <1>3, <1>4

\* Every step of the monitor.
LEMMA MonitorKeeps ==
  ASSUME MonitorInv, NEW k \in Slots,
         \/ TimerFires(k) \/ ListServed(k) \/ ListFailed(k) \/ ListAnswered(k)
         \/ ActionServed(k) \/ ActionFailed(k) \/ ListAnsweredAgain(k) \/ PumpFanOuts(k)
  PROVE  MonitorInv'
<1>0. /\ clock \in Nat /\ FleetOK(fleet) /\ FleetOK(listed) /\ DOMAIN tick = Slots
      /\ TickOK(tick[k], fleet, clock) /\ FleetOK(tick[k].snap)
  BY DEF MonitorInv, TickOK
<1>1. CASE TimerFires(k)
  BY <1>0, <1>1, GoesTo, TickGoesOn, TickStages DEF TimerFires
<1>2. CASE ListServed(k)
  <2>1. PICK st \in {"answer", "reanswer"} :
          Goes(k, [tick[k] EXCEPT !.snap = fleet, !.moved = {}, !.stage = st])
    <3>1. tick[k].stage = "listing"
            => Goes(k, [tick[k] EXCEPT !.snap = fleet, !.moved = {}, !.stage = "answer"])
      BY <1>0, <1>2 DEF ListServed, TickOK
    <3>2. tick[k].stage # "listing"
            => Goes(k, [tick[k] EXCEPT !.snap = fleet, !.moved = {}, !.stage = "reanswer"])
      BY <1>0, <1>2 DEF ListServed, TickOK
    <3>3. QED
      BY <3>1, <3>2
  <2>2. TickOK([tick[k] EXCEPT !.snap = fleet, !.moved = {}, !.stage = st], fleet, clock)
    BY TickStages
  <2>3. QED
    BY <1>0, <1>2, <2>1, <2>2, GoesTo, TickGoesOn DEF ListServed
<1>3. CASE ListFailed(k)
  BY <1>0, <1>3, GoesTo, TickGoesOn, TickStages DEF ListFailed
<1>4. CASE ListAnswered(k)
  <2>1. /\ TickOK(tick'[k], fleet, clock) /\ DOMAIN tick' = Slots
        /\ \A j \in Slots \ {k} : tick'[j] = tick[j]
    BY <1>0, <1>4, LoopGoesOn DEF ListAnswered
  <2>2. FleetOK(listed') /\ FleetOK(fleet') /\ UNCHANGED <<clock, ext, reap, fleet, granted>>
    BY <1>0, <1>4 DEF ListAnswered
  <2>3. QED
    BY <2>1, <2>2, TickGoesOn
<1>5. CASE ActionServed(k)
  <2>1. tick[k].at \in Ids /\ tick[k].at + 1 \in Nat \ {0} /\ tick[k].stage = "acting"
    BY <1>0, <1>5 DEF ActionServed, TickOK, Ids
  <2>2. FleetOK(fleet') /\ \A j \in Ids : fleet'[j].deadline = fleet[j].deadline
    BY <1>0, <1>5, <2>1, PerformKeeps DEF ActionServed
  <2>3. /\ TickOK(tick'[k], fleet, clock) /\ DOMAIN tick' = Slots
        /\ \A j \in Slots \ {k} : tick'[j] = tick[j]
    BY <1>0, <1>5, <2>1, LoopGoesOn DEF ActionServed
  <2>4. QED
    BY <1>0, <1>5, <2>2, <2>3, TickGoesOn DEF ActionServed
<1>6. CASE ActionFailed(k)
  <2>1. tick[k].at \in Ids
    BY <1>0, <1>6 DEF ActionFailed, TickOK
  <2>2. FleetOK(fleet') /\ \A j \in Ids : fleet'[j].deadline = fleet[j].deadline
    BY <1>0, <1>6, <2>1, PerformKeeps DEF ActionFailed
  <2>3. QED
    BY <1>0, <1>6, <2>2, GoesTo, TickGoesOn, TickStages DEF ActionFailed
<1>7. CASE ListAnsweredAgain(k)
  BY <1>0, <1>7, GoesTo, TickGoesOn, TickStages DEF ListAnsweredAgain
<1>8. CASE PumpFanOuts(k)
  BY <1>0, <1>8, GoesTo, TickGoesOn, TickStages DEF PumpFanOuts
<1>9. QED
  BY <1>1, <1>2, <1>3, <1>4, <1>5, <1>6, <1>7, <1>8

\* An extension that fits the horizon is of an instance, further on than it was.
LEMMA ExtendedFits ==
  ASSUME NEW f \in Instance, NEW by \in Nat, NEW now \in Nat,
         TtlDeadline(f) # 0, TtlDeadline(Extended(f, by, now)) <= Horizon
  PROVE  /\ Extended(f, by, now) \in Instance /\ Extended(f, by, now).deadline > 0
         /\ Extended(f, by, now).deadline >= TtlDeadline(f) + by
<1> DEFINE d == Later(TtlDeadline(f) + by, now + by)
           t == IF f.launch > 0 /\ d > f.launch THEN d - f.launch ELSE f.ttl
<1>1. TtlDeadline(f) \in Nat
  BY DeadlineIsNumber
<1>2. d \in Nat /\ d > 0 /\ d >= TtlDeadline(f) + by
  BY <1>1 DEF Later
<1>3. t \in Nat
  BY <1>2 DEF Instance
<1>4. Extended(f, by, now) = [f EXCEPT !.deadline = d, !.ttl = t]
  BY DEF Extended
<1> HIDE DEF d, t
<1>5. Extended(f, by, now).deadline = d
  BY <1>4 DEF Instance
<1>6. d \in 0 .. Horizon
  BY <1>2, <1>5 DEF TtlDeadline
<1>7. QED
  BY <1>2, <1>3, <1>4, <1>5, <1>6 DEF Instance

\* The tags that are written are those of the instance, with the new deadline,
\* and nothing that is under way is taken by surprise: the instance is in moved.
LEMMA TaggedKeeps ==
  ASSUME MonitorInv, NEW e \in Extenders, ExtendTagged(e) \/ ExtendLost(e)
  PROVE  MonitorInv'
<1> DEFINE i == ext[e].at
           g == ext[e].tags
<1>0. TagsWritten(e)
  BY DEF ExtendTagged, ExtendLost
<1>1. i \in Ids /\ g \in Instance /\ g.deadline > 0 /\ ExtendOK(ext[e]) /\ ext[e].stage = "tagging"
  BY <1>0 DEF MonitorInv, ExtendOK, TagsWritten
<1>2. fleet' = [fleet EXCEPT ![i].deadline = g.deadline, ![i].ttl = g.ttl]
  BY <1>0 DEF TagsWritten
<1> HIDE DEF i, g
<1>3. FleetOK(fleet') /\ \A j \in Ids \ {i} : fleet'[j] = fleet[j]
  <2>1. fleet \in [Ids -> Instance]
    BY DEF MonitorInv, FleetOK
  <2>2. fleet' \in [Ids -> Instance]
    <3>1. [fleet[i] EXCEPT !.deadline = g.deadline, !.ttl = g.ttl] \in Instance
      BY <1>1, <2>1 DEF Instance
    <3>2. fleet' = [fleet EXCEPT ![i] = [fleet[i] EXCEPT !.deadline = g.deadline, !.ttl = g.ttl]]
      BY <1>1, <1>2, <2>1
    <3>3. QED
      BY <1>1, <2>1, <3>1, <3>2
  <2>3. \A j \in Ids \ {i} : fleet'[j] = fleet[j]
    BY <1>2, <2>1
  <2>4. fleet'[i] = [fleet[i] EXCEPT !.deadline = g.deadline, !.ttl = g.ttl]
    BY <1>1, <1>2, <2>1
  <2>5. Kept(fleet'[i], i)
    BY <1>1, <2>1, <2>4 DEF MonitorInv, FleetOK, Kept, Instance
  <2>6. QED
    BY <2>2, <2>3, <2>5 DEF MonitorInv, FleetOK
<1>4. ASSUME NEW k \in Slots PROVE TickOK(tick'[k], fleet', clock')
  <2>1. tick'[k] = [tick[k] EXCEPT !.moved = @ \cup {i}] /\ TickOK(tick[k], fleet, clock) /\ clock' = clock
    BY <1>0 DEF TagsWritten, MonitorInv, i
  <2>2. /\ tick'[k].moved = tick[k].moved \cup {i} /\ tick'[k].snap = tick[k].snap
        /\ tick'[k].stage = tick[k].stage /\ tick'[k].at = tick[k].at /\ tick'[k].action = tick[k].action
        /\ tick'[k] \in [stage : Stages, snap : [Ids -> Instance], at : 0 .. N,
                         action : Actions \cup {"none"}, moved : SUBSET Ids]
    BY <1>1, <2>1 DEF TickOK
  <2>3. Current(tick[k].snap, tick[k].moved, fleet)
          => Current(tick'[k].snap, tick'[k].moved, fleet')
    BY <1>3, <2>2 DEF Current
  <2>4. QED
    BY <2>1, <2>2, <2>3 DEF TickOK
<1>5. ReapOK(reap', fleet', clock')
  <2>1. reap' = [reap EXCEPT !.moved = @ \cup {i}] /\ ReapOK(reap, fleet, clock) /\ clock' = clock
    BY <1>0 DEF TagsWritten, MonitorInv, i
  <2>2. /\ reap'.moved = reap.moved \cup {i} /\ reap'.snap = reap.snap
        /\ reap'.stage = reap.stage /\ reap'.todo = reap.todo
        /\ reap' \in [stage : {"idle", "reaping", "refreshing"}, todo : SUBSET Ids,
                      snap : [Ids -> Instance], moved : SUBSET Ids]
    BY <1>1, <2>1 DEF ReapOK
  <2>3. Current(reap.snap, reap.moved, fleet) => Current(reap'.snap, reap'.moved, fleet')
    BY <1>3, <2>2 DEF Current
  <2>4. QED
    BY <2>1, <2>2, <2>3 DEF ReapOK
<1>6. DOMAIN ext' = Extenders /\ \A x \in Extenders : ExtendOK(ext'[x])
  <2>1. PICK x \in {[ext[e] EXCEPT !.stage = "refreshing"], NoExtend} : ext' = [ext EXCEPT ![e] = x]
    BY DEF ExtendTagged, ExtendLost
  <2>2. ExtendOK([ext[e] EXCEPT !.stage = "refreshing"])
    BY <1>1 DEF ExtendOK
  <2>3. ExtendOK(NoExtend)
    BY DEF ExtendOK, NoExtend, Ids
  <2>4. QED
    BY <2>1, <2>2, <2>3 DEF MonitorInv
<1>7. UNCHANGED <<clock, listed>> /\ DOMAIN tick' = Slots /\ granted' \in [Ids -> Nat]
  <2>1. ext[e].base + ext[e].by \in Nat
    BY <1>1 DEF ExtendOK
  <2>2. granted \in [Ids -> Nat] /\ granted' = [granted EXCEPT ![i] = ext[e].base + ext[e].by]
    BY <1>0 DEF TagsWritten, MonitorInv, i
  <2>3. QED
    BY <1>0, <2>1, <2>2 DEF TagsWritten
<1>8. QED
  BY <1>3, <1>4, <1>5, <1>6, <1>7 DEF MonitorInv

\* The other steps of an extend.
LEMMA ExtendKeeps ==
  ASSUME MonitorInv, NEW e \in Extenders, ExtendResolved(e) \/ ExtendEnds(e) \/ ExtendFails(e)
  PROVE  MonitorInv'
<1>1. PICK x : ExtendOK(x) /\ ext' = [ext EXCEPT ![e] = x]
  <2>1. CASE ExtendResolved(e)
    <3>1. PICK i \in Ids, by \in Extensions :
            /\ TtlDeadline(fleet[i]) # 0
            /\ TtlDeadline(Extended(fleet[i], by, clock)) <= Horizon
            /\ ext' = [ext EXCEPT ![e] = [stage |-> "tagging", at |-> i, by |-> by, base |-> granted[i],
                                          tags |-> Extended(fleet[i], by, clock)]]
      BY <2>1 DEF ExtendResolved
    <3>2. /\ Extended(fleet[i], by, clock) \in Instance /\ Extended(fleet[i], by, clock).deadline > 0
      BY <3>1, ExtendedFits DEF MonitorInv, FleetOK
    <3>3. ExtendOK([stage |-> "tagging", at |-> i, by |-> by, base |-> granted[i],
                    tags |-> Extended(fleet[i], by, clock)])
      BY <3>2 DEF ExtendOK, Ids, MonitorInv
    <3>4. QED
      BY <3>1, <3>3
  <2>2. CASE ExtendEnds(e) \/ ExtendFails(e)
    <3>1. ExtendOK(NoExtend)
      BY DEF ExtendOK, NoExtend, Ids
    <3>2. QED
      BY <2>2, <3>1 DEF ExtendEnds, ExtendFails
  <2>3. QED
    BY <2>1, <2>2
<1>2. UNCHANGED <<clock, fleet, tick, reap, granted>> /\ listed' \in {fleet, listed}
  BY DEF ExtendResolved, ExtendEnds, ExtendFails
<1>3. FleetOK(listed') /\ FleetOK(fleet') /\ clock' \in Nat
  BY <1>2 DEF MonitorInv
<1>4. DOMAIN ext' = Extenders /\ \A d \in Extenders : ExtendOK(ext'[d])
  BY <1>1 DEF MonitorInv
<1>5. QED
  BY <1>2, <1>3, <1>4 DEF MonitorInv

\* The instance that the banner ends next is one of those it was asked for.
LEMMA MostOverdueIsOne ==
  ASSUME ReapOK(reap, fleet, clock), reap.stage = "reaping"
  PROVE  MostOverdue \in reap.todo
<1> DEFINE deadlines == {TtlDeadline(reap.snap[i]) : i \in reap.todo}
<1>1. \A i \in reap.todo : TtlDeadline(reap.snap[i]) \in Nat
  <2>1. \A i \in reap.todo : reap.snap[i] \in Instance
    BY DEF ReapOK
  <2>2. QED
    BY <2>1 DEF TtlDeadline, Instance
<1>2. PICK d \in deadlines : \A x \in deadlines : d <= x
  <2>1. deadlines \subseteq Nat /\ deadlines # {}
    BY <1>1 DEF ReapOK
  <2> HIDE DEF deadlines
  <2>2. QED
    BY <2>1, LeastNumber
<1>3. \E i \in reap.todo : \A j \in reap.todo : TtlDeadline(reap.snap[i]) <= TtlDeadline(reap.snap[j])
  BY <1>2
<1>4. QED
  BY <1>3 DEF MostOverdue

\* Every step of the banner.
LEMMA ReapKeeps ==
  ASSUME MonitorInv, AskToReap \/ ReapServed \/ ReapFailed \/ ReapEnds
  PROVE  MonitorInv'
<1>0. clock \in Nat /\ FleetOK(fleet) /\ FleetOK(listed) /\ ReapOK(reap, fleet, clock)
  BY DEF MonitorInv
<1>1. UNCHANGED <<clock, tick, ext, granted>>
  BY DEF AskToReap, ReapServed, ReapFailed, ReapEnds
<1>2. /\ FleetOK(fleet') /\ \A j \in Ids : fleet'[j].deadline = fleet[j].deadline
  <2>1. CASE UNCHANGED fleet
    BY <1>0, <2>1
  <2>2. CASE reap.stage = "reaping" /\ Perform(MostOverdue, "terminate")
    <3>1. MostOverdue \in Ids
      BY <1>0, <2>2, MostOverdueIsOne DEF ReapOK
    <3>2. QED
      BY <1>0, <2>2, <3>1, PerformKeeps
  <2>3. QED
    BY <2>1, <2>2 DEF AskToReap, ReapServed, ReapFailed, ReapEnds
<1>3. FleetOK(listed')
  BY <1>0, <1>2 DEF AskToReap, ReapServed, ReapFailed, ReapEnds
<1>4. /\ \A k \in Slots : TickOK(tick[k], fleet', clock')
      /\ ReapOK(reap, fleet', clock')
  BY <1>0, <1>1, <1>2, UnderWayRests
<1>5. ReapOK(reap', fleet', clock')
  <2>1. CASE AskToReap
    <3>1. /\ reap' = [stage |-> "reaping", todo |-> OrphansOf(listed), snap |-> listed,
                      moved |-> {i \in Ids : fleet[i].deadline # listed[i].deadline}]
          /\ OrphansOf(listed) # {} /\ UNCHANGED <<fleet, clock>>
      BY <2>1 DEF AskToReap
    <3>2. \A i \in OrphansOf(listed) : TtlFires(listed[i], clock)
      <4>1. \A i \in Ids : TtlDeadline(listed[i]) \in Nat
        BY <1>0, DeadlineIsNumber DEF FleetOK
      <4>2. QED
        BY <1>0, <4>1 DEF OrphansOf, TtlFires
    <3>3. QED
      BY <1>0, <3>1, <3>2 DEF ReapOK, FleetOK, OrphansOf, Current
  <2>2. CASE ReapServed
    <3>1. reap' = [reap EXCEPT !.todo = @ \ {MostOverdue},
                               !.stage = IF reap.todo = {MostOverdue} THEN "refreshing" ELSE @]
      BY <2>2 DEF ReapServed
    <3>2. /\ reap'.todo = reap.todo \ {MostOverdue} /\ reap'.snap = reap.snap /\ reap'.moved = reap.moved
          /\ reap'.stage = IF reap.todo = {MostOverdue} THEN "refreshing" ELSE "reaping"
          /\ reap' \in [stage : {"idle", "reaping", "refreshing"}, todo : SUBSET Ids,
                        snap : [Ids -> Instance], moved : SUBSET Ids]
          /\ reap.stage = "reaping"
      BY <1>0, <2>2, <3>1 DEF ReapOK, ReapServed
    <3>3. MostOverdue \in reap.todo
      BY <1>0, <3>2, MostOverdueIsOne
    <3>4. QED
      BY <1>4, <3>2, <3>3 DEF ReapOK
  <2>3. CASE ReapFailed \/ ReapEnds
    <3>1. reap' = NoReap
      BY <2>3 DEF ReapFailed, ReapEnds
    <3>2. QED
      BY <3>1 DEF ReapOK, NoReap, FleetOK, Kept
  <2>4. QED
    BY <2>1, <2>2, <2>3
<1>6. QED
  BY <1>0, <1>1, <1>2, <1>3, <1>4, <1>5 DEF MonitorInv

\* What happens elsewhere, and time.
LEMMA WorldKeeps ==
  ASSUME MonitorInv,
         TimePasses \/ \E i \in Ids, action \in {"stop", "start", "terminate"} : Elsewhere(i, action)
  PROVE  MonitorInv'
<1>1. UNCHANGED <<listed, tick, ext, reap, granted>> /\ clock' \in Nat /\ clock <= clock'
  BY DEF TimePasses, Elsewhere, MonitorInv
<1>2. /\ FleetOK(fleet') /\ \A j \in Ids : fleet'[j].deadline = fleet[j].deadline
  <2>1. CASE TimePasses
    BY <2>1 DEF TimePasses, MonitorInv
  <2>2. CASE \E i \in Ids, action \in {"stop", "start", "terminate"} : Elsewhere(i, action)
    BY <2>2, PerformKeeps DEF Elsewhere, MonitorInv
  <2>3. QED
    BY <2>1, <2>2
<1>3. QED
  BY <1>1, <1>2, UnderWayRests DEF MonitorInv

\* Every step.
LEMMA EveryStepKeeps == ASSUME MonitorInv, [Next]_vars PROVE MonitorInv'
<1>1. CASE UNCHANGED vars
  BY <1>1 DEF vars, MonitorInv
<1>2. CASE Next
  BY <1>2, MonitorKeeps, TaggedKeeps, ExtendKeeps, ReapKeeps, WorldKeeps DEF Next
<1>3. QED
  BY <1>1, <1>2

-----------------------------------------------------------------------------
(* Terminations.                                                           *)

\* An instance of which the list still has the deadline is as due as it is there.
LEMMA StillDue ==
  ASSUME FleetOK(fleet), NEW snap, FleetOK(snap), NEW moved, Current(snap, moved, fleet),
         NEW i \in Ids, i \notin moved
  PROVE  /\ TtlFires(snap[i], clock) => Overdue(i)
         /\ CostFires(snap[i]) => CostFires(fleet[i])
<1>1. snap[i] \in Instance /\ fleet[i] \in Instance /\ snap[i].deadline = fleet[i].deadline
      /\ Kept(snap[i], i) /\ Kept(fleet[i], i)
  BY DEF FleetOK, Current
<1>2. TtlDeadline(snap[i]) = TtlDeadline(fleet[i]) /\ CostFires(snap[i]) = CostFires(fleet[i])
  BY <1>1, SameDeadline
<1>3. QED
  BY <1>2 DEF Overdue, TtlFires

\* A call ends no instance but the one it is for.
LEMMA CallEnds ==
  ASSUME FleetOK(fleet), NEW i \in Ids, NEW j \in Ids, NEW a, Ends(i), Perform(j, a) \/ UNCHANGED fleet
  PROVE  i = j /\ Ec2State(j, a) = "terminated"
<1>1. Perform(j, a)
  BY DEF Ends
<1>2. /\ i # j => fleet'[i] = fleet[i]
      /\ fleet'[j].state = Ec2State(j, a)
  BY <1>1 DEF Perform, FleetOK, Instance
<1>3. QED
  BY <1>2 DEF Ends

\* What a tick ends was decided on its list.
LEMMA TickEndsDue ==
  ASSUME MonitorInv, Next, NEW i \in Ids, Ends(i), NEW k \in Slots, ByTick(k, i)
  PROVE  Due(i) \/ i \in tick[k].moved
<1>1. tick[k].stage = "acting" /\ tick[k].at = i /\ tick'[k] # tick[k]
  BY DEF ByTick
<1>2. /\ FleetOK(fleet) /\ FleetOK(tick[k].snap) /\ Current(tick[k].snap, tick[k].moved, fleet)
      /\ Decided(tick[k].action, tick[k].snap[i], clock)
  BY <1>1 DEF MonitorInv, TickOK
<1>3. ActionServed(k) \/ ActionFailed(k)
  <2>1. ASSUME NEW j \in Slots,
               \/ TimerFires(j) \/ ListServed(j) \/ ListFailed(j) \/ ListAnswered(j)
               \/ ActionServed(j) \/ ActionFailed(j) \/ ListAnsweredAgain(j) \/ PumpFanOuts(j)
        PROVE  ActionServed(k) \/ ActionFailed(k)
    <3>1. \A t : Goes(j, t) => j = k
      BY <1>1 DEF Goes, MonitorInv
    <3>2. j = k
      BY <2>1, <3>1 DEF TimerFires, ListServed, ListFailed, ListAnswered, ActionServed, ActionFailed,
                        ListAnsweredAgain, PumpFanOuts, LoopFrom
    <3>3. QED
      BY <1>1, <2>1, <3>2 DEF TimerFires, ListServed, ListFailed, ListAnswered, ListAnsweredAgain, PumpFanOuts
  <2>2. ASSUME NEW e \in Extenders,
               ExtendResolved(e) \/ ExtendTagged(e) \/ ExtendLost(e) \/ ExtendEnds(e) \/ ExtendFails(e)
        PROVE  FALSE
    <3>1. ~ TagsWritten(e)
      <4>1. \A g : fleet' = [fleet EXCEPT ![ext[e].at].deadline = g.deadline, ![ext[e].at].ttl = g.ttl]
                     => fleet'[i].state = fleet[i].state
        BY <1>2 DEF FleetOK, Instance
      <4>2. QED
        BY <4>1 DEF TagsWritten, Ends
    <3>2. QED
      BY <1>1, <2>2, <3>1 DEF ExtendResolved, ExtendTagged, ExtendLost, ExtendEnds, ExtendFails
  <2>3. ~ (AskToReap \/ ReapServed \/ ReapFailed \/ ReapEnds)
    BY <1>1 DEF AskToReap, ReapServed, ReapFailed, ReapEnds
  <2>4. ~ (\E j \in Ids, action \in {"stop", "start", "terminate"} : Elsewhere(j, action)) /\ ~ TimePasses
    BY <1>1 DEF Elsewhere, TimePasses
  <2>5. QED
    BY <2>1, <2>2, <2>3, <2>4 DEF Next
<1>4. Perform(i, tick[k].action) \/ UNCHANGED fleet
  BY <1>1, <1>3 DEF ActionServed, ActionFailed
<1>5. tick[k].action = "terminate"
  BY <1>2, <1>4, CallEnds DEF Ec2State, Decided, Actions
<1>6. QED
  BY <1>2, <1>5, StillDue DEF Decided, Due

\* What the banner ends was overdue in the list it was shown from.
LEMMA ReapEndsDue ==
  ASSUME MonitorInv, Next, NEW i \in Ids, Ends(i), ByReap(i)
  PROVE  Overdue(i) \/ i \in reap.moved
<1>1. reap.stage = "reaping" /\ reap' # reap
  BY DEF ByReap
<1>2. /\ FleetOK(fleet) /\ ReapOK(reap, fleet, clock) /\ FleetOK(reap.snap)
      /\ Current(reap.snap, reap.moved, fleet)
  BY <1>1 DEF MonitorInv, ReapOK
<1>3. ReapServed \/ ReapFailed
  <2>1. ASSUME NEW k \in Slots,
               \/ TimerFires(k) \/ ListServed(k) \/ ListFailed(k) \/ ListAnswered(k)
               \/ ActionServed(k) \/ ActionFailed(k) \/ ListAnsweredAgain(k) \/ PumpFanOuts(k)
        PROVE  FALSE
    BY <1>1, <2>1 DEF TimerFires, ListServed, ListFailed, ListAnswered, ActionServed, ActionFailed,
                      ListAnsweredAgain, PumpFanOuts
  <2>2. ASSUME NEW e \in Extenders,
               ExtendResolved(e) \/ ExtendTagged(e) \/ ExtendLost(e) \/ ExtendEnds(e) \/ ExtendFails(e)
        PROVE  FALSE
    <3>1. ~ TagsWritten(e)
      <4>1. \A g : fleet' = [fleet EXCEPT ![ext[e].at].deadline = g.deadline, ![ext[e].at].ttl = g.ttl]
                     => fleet'[i].state = fleet[i].state
        BY <1>2 DEF FleetOK, Instance
      <4>2. QED
        BY <4>1 DEF TagsWritten, Ends
    <3>2. QED
      BY <1>1, <2>2, <3>1 DEF ExtendResolved, ExtendTagged, ExtendLost, ExtendEnds, ExtendFails
  <2>3. ~ (\E j \in Ids, action \in {"stop", "start", "terminate"} : Elsewhere(j, action)) /\ ~ TimePasses
    BY <1>1 DEF Elsewhere, TimePasses
  <2>4. ~ AskToReap /\ ~ ReapEnds
    BY <1>1 DEF AskToReap, ReapEnds
  <2>5. QED
    BY <2>1, <2>2, <2>3, <2>4 DEF Next
<1>4. MostOverdue \in reap.todo /\ MostOverdue \in Ids
  BY <1>1, <1>2, MostOverdueIsOne DEF ReapOK
<1>5. i = MostOverdue
  BY <1>2, <1>3, <1>4, CallEnds DEF ReapServed, ReapFailed
<1>6. TtlFires(reap.snap[i], clock)
  BY <1>2, <1>4, <1>5 DEF ReapOK
<1>7. QED
  BY <1>2, <1>6, StillDue

\* Both.
LEMMA EndsAreDue == ASSUME MonitorInv, [Next]_vars PROVE DueOrMoved
<1>1. CASE UNCHANGED vars
  BY <1>1 DEF vars, DueOrMoved, Ends
<1>2. CASE Next
  BY <1>2, TickEndsDue, ReapEndsDue DEF DueOrMoved
<1>3. QED
  BY <1>1, <1>2

-----------------------------------------------------------------------------
(* Extensions.                                                             *)

\* What an extension is about to write is further on than the launch by its
\* duration and by all that it found granted.
GrantInv ==
    /\ NoExtensionLost
    /\ \A e \in Extenders : ext[e].stage = "tagging" =>
         ext[e].tags.deadline >= TtlDeadline(Launched[ext[e].at]) + ext[e].base + ext[e].by

\* Nothing but an extension changes a deadline.
LEMMA OthersLeaveDeadlines ==
  ASSUME MonitorInv, [Next]_vars, \A e \in Extenders : ~ (ExtendTagged(e) \/ ExtendLost(e))
  PROVE  \A i \in Ids : TtlDeadline(fleet'[i]) = TtlDeadline(fleet[i])
<1>1. FleetOK(fleet)
  BY DEF MonitorInv
<1>2. ASSUME NEW k \in Slots, ActionServed(k) \/ ActionFailed(k)
      PROVE  \A i \in Ids : TtlDeadline(fleet'[i]) = TtlDeadline(fleet[i])
  <2>1. tick[k].at \in Ids
    BY <1>2 DEF ActionServed, ActionFailed, MonitorInv, TickOK
  <2>2. QED
    BY <1>1, <1>2, <2>1, PerformKeeps DEF ActionServed, ActionFailed
<1>3. CASE ReapServed \/ ReapFailed
  <2>1. MostOverdue \in Ids
    BY <1>3, MostOverdueIsOne DEF ReapServed, ReapFailed, MonitorInv, ReapOK
  <2>2. QED
    BY <1>1, <1>3, <2>1, PerformKeeps DEF ReapServed, ReapFailed
<1>4. ASSUME NEW i \in Ids, NEW action, Elsewhere(i, action)
      PROVE  \A j \in Ids : TtlDeadline(fleet'[j]) = TtlDeadline(fleet[j])
  BY <1>1, <1>4, PerformKeeps DEF Elsewhere
<1>5. ASSUME UNCHANGED fleet
      PROVE  \A j \in Ids : TtlDeadline(fleet'[j]) = TtlDeadline(fleet[j])
  BY <1>5
<1>6. \/ UNCHANGED fleet \/ ReapServed \/ ReapFailed
      \/ \E k \in Slots : ActionServed(k) \/ ActionFailed(k)
      \/ \E i \in Ids, action \in {"stop", "start", "terminate"} : Elsewhere(i, action)
  BY DEF Next, vars, TimerFires, ListServed, ListFailed, ListAnswered, ListAnsweredAgain, PumpFanOuts,
         ExtendResolved, ExtendEnds, ExtendFails, AskToReap, ReapEnds, TimePasses
<1>7. QED
  BY <1>2, <1>3, <1>4, <1>5, <1>6

\* An extension that is written, performed as it was computed.
LEMMA WrittenGrants ==
  ASSUME MonitorInv, GrantInv, NEW e \in Extenders, ExtendTagged(e) \/ ExtendLost(e)
  PROVE  GrantInv'
<1> DEFINE i == ext[e].at
           g == ext[e].tags
           sum == ext[e].base + ext[e].by
<1>0. TagsWritten(e)
  BY DEF ExtendTagged, ExtendLost
<1>1. /\ i \in Ids /\ g \in Instance /\ g.deadline > 0 /\ sum \in Nat
      /\ g.deadline >= TtlDeadline(Launched[i]) + sum
  <2>1. ExtendOK(ext[e]) /\ ext[e].stage = "tagging"
    BY <1>0 DEF MonitorInv, TagsWritten
  <2>2. TtlDeadline(Launched[i]) \in Nat
    BY <2>1, DeadlineIsNumber DEF ExtendOK
  <2>3. QED
    BY <2>1, <2>2 DEF ExtendOK, GrantInv
<1>2. /\ fleet' = [fleet EXCEPT ![i].deadline = g.deadline, ![i].ttl = g.ttl]
      /\ granted' = [granted EXCEPT ![i] = sum]
  BY <1>0 DEF TagsWritten
<1>3. fleet \in [Ids -> Instance] /\ granted \in [Ids -> Nat] /\ NoExtensionLost
  BY DEF MonitorInv, FleetOK, GrantInv
<1>4. ASSUME NEW d \in Extenders, ext'[d].stage = "tagging" PROVE ext'[d] = ext[d]
  <2>1. d # e
    BY <1>4 DEF ExtendTagged, ExtendLost, NoExtend, MonitorInv, ExtendOK
  <2>2. DOMAIN ext = Extenders
    BY DEF MonitorInv
  <2>3. QED
    BY <2>1, <2>2 DEF ExtendTagged, ExtendLost
<1> HIDE DEF i, g, sum
<1>5. /\ fleet'[i] = [fleet[i] EXCEPT !.deadline = g.deadline, !.ttl = g.ttl]
      /\ granted'[i] = sum
      /\ \A j \in Ids \ {i} : fleet'[j] = fleet[j] /\ granted'[j] = granted[j]
  BY <1>1, <1>2, <1>3
<1>6. TtlDeadline(fleet'[i]) = g.deadline
  BY <1>1, <1>3, <1>5 DEF TtlDeadline, Instance
<1>7. NoExtensionLost'
  BY <1>1, <1>3, <1>5, <1>6 DEF NoExtensionLost
<1>8. QED
  BY <1>4, <1>7 DEF GrantInv

\* An extension that was begun on what stands.
LEMMA ResolvedGrants ==
  ASSUME MonitorInv, GrantInv, NEW e \in Extenders, ExtendResolved(e), NEW d \in Extenders,
         ext'[d].stage = "tagging"
  PROVE  ext'[d].tags.deadline >= TtlDeadline(Launched[ext'[d].at]) + ext'[d].base + ext'[d].by
<1>1. PICK i \in Ids, by \in Extensions :
        /\ TtlDeadline(fleet[i]) # 0
        /\ TtlDeadline(Extended(fleet[i], by, clock)) <= Horizon
        /\ ext' = [ext EXCEPT ![e] = [stage |-> "tagging", at |-> i, by |-> by, base |-> granted[i],
                                      tags |-> Extended(fleet[i], by, clock)]]
  BY DEF ExtendResolved
<1>2. CASE d # e
  BY <1>1, <1>2 DEF GrantInv
<1>3. CASE d = e
  <2> DEFINE g == Extended(fleet[i], by, clock)
  <2>1. g \in Instance /\ g.deadline >= TtlDeadline(fleet[i]) + by /\ fleet[i] \in Instance
    BY <1>1, ExtendedFits DEF MonitorInv, FleetOK
  <2>2. TtlDeadline(fleet[i]) >= TtlDeadline(Launched[i]) + granted[i] /\ granted[i] \in Nat
    BY DEF GrantInv, NoExtensionLost, MonitorInv
  <2>3. TtlDeadline(fleet[i]) \in Nat /\ TtlDeadline(Launched[i]) \in Nat /\ by \in Nat
    BY <2>1, MonitorConstants DEF TtlDeadline, Instance
  <2>4. ext'[d] = [stage |-> "tagging", at |-> i, by |-> by, base |-> granted[i], tags |-> g]
    BY <1>1, <1>3 DEF MonitorInv
  <2> HIDE DEF g
  <2>5. g.deadline \in Nat
    BY <2>1 DEF Instance
  <2>6. g.deadline >= TtlDeadline(Launched[i]) + granted[i] + by
    BY <2>1, <2>2, <2>3, <2>5
  <2>7. QED
    BY <2>4, <2>6
<1>4. QED
  BY <1>2, <1>3

\* Every step keeps what was granted.
LEMMA GrantKeeps ==
  ASSUME MonitorInv, GrantInv, [Next]_vars
  PROVE  GrantInv'
<1>1. CASE \E e \in Extenders : ExtendTagged(e) \/ ExtendLost(e)
  BY <1>1, WrittenGrants
<1>2. CASE \A e \in Extenders : ~ (ExtendTagged(e) \/ ExtendLost(e))
  <2>0. \/ UNCHANGED <<ext, granted>> \/ \E e \in Extenders : ExtendResolved(e) /\ UNCHANGED granted
        \/ \E e \in Extenders : (ExtendEnds(e) \/ ExtendFails(e)) /\ UNCHANGED granted
    BY <1>2 DEF Next, vars, TimerFires, ListServed, ListFailed, ListAnswered, ActionServed, ActionFailed,
                ListAnsweredAgain, PumpFanOuts, ExtendResolved, ExtendEnds, ExtendFails, AskToReap,
                ReapServed, ReapFailed, ReapEnds, Elsewhere, TimePasses
  <2>1. \A i \in Ids : TtlDeadline(fleet'[i]) = TtlDeadline(fleet[i])
    BY <1>2, OthersLeaveDeadlines
  <2>2. NoExtensionLost'
    BY <2>0, <2>1 DEF GrantInv, NoExtensionLost
  <2>3. ASSUME NEW d \in Extenders, ext'[d].stage = "tagging"
        PROVE  ext'[d].tags.deadline >= TtlDeadline(Launched[ext'[d].at]) + ext'[d].base + ext'[d].by
    <3>1. CASE ext' = ext
      BY <2>3, <3>1 DEF GrantInv
    <3>2. CASE \E e \in Extenders : ExtendResolved(e)
      BY <2>3, <3>2, ResolvedGrants
    <3>3. CASE \E e \in Extenders : ExtendEnds(e) \/ ExtendFails(e)
      <4>1. PICK e \in Extenders : ext' = [ext EXCEPT ![e] = NoExtend]
        BY <3>3 DEF ExtendEnds, ExtendFails
      <4>2. d # e /\ ext'[d] = ext[d]
        BY <2>3, <4>1 DEF MonitorInv, NoExtend
      <4>3. QED
        BY <2>3, <4>2 DEF GrantInv
    <3>4. QED
      BY <2>0, <3>1, <3>2, <3>3
  <2>4. QED
    BY <2>2, <2>3 DEF GrantInv
<1>3. QED
  BY <1>1, <1>2

-----------------------------------------------------------------------------
(* The theorems, of the specification of the runs: in the scenario races   *)
(* the constants are what they may be, in the other one they are its own.  *)

RacesInv == Shared => MonitorInv /\ GrantInv

\* At the start nothing was granted.
LEMMA GrantStarts == Init => GrantInv
<1> SUFFICES ASSUME Init PROVE GrantInv
  OBVIOUS
<1>1. \A i \in Ids : TtlDeadline(Launched[i]) \in Nat
  BY DEF TtlDeadline, Instance
<1>2. QED
  BY <1>1 DEF Init, GrantInv, NoExtensionLost, NoExtend

\* Every step, whatever bounds it.
LEMMA InvariantKept == ASSUME MonitorInv, GrantInv, [Next]_vars PROVE (MonitorInv /\ GrantInv)'
BY EveryStepKeeps, GrantKeeps

\* The invariant says what the property says.
LEMMA InvariantSuffices == MonitorInv /\ GrantInv => MonitorTypeOK /\ NoExtensionLost
BY DEF MonitorTypeOK, MonitorInv, GrantInv, FleetOK, Instance, TickOK, Decided, Actions, ExtendOK, ReapOK

\* The scenario stands, and the two that share the constants keep to the invariant.
LEMMA RacesInvariance == MonitorsSpec => []RacesInv
<1>1. MonitorsInit => RacesInv
  BY MonitorStarts, GrantStarts DEF MonitorsInit, RacesInv, Shared
<1>2. RacesInv /\ [MonitorsNext]_monitorsVars => RacesInv'
  BY InvariantKept DEF RacesInv, MonitorsNext, monitorsVars, Shared
<1>3. QED
  BY <1>1, <1>2, PTL DEF MonitorsSpec

\* Without the bounds of the scenarios.
LEMMA MonitorInvariance == Spec => [](MonitorInv /\ GrantInv)
<1>1. Init => MonitorInv /\ GrantInv
  BY MonitorStarts, GrantStarts
<1>2. MonitorInv /\ GrantInv /\ [Next]_vars => (MonitorInv /\ GrantInv)'
  BY InvariantKept
<1>3. QED
  BY <1>1, <1>2, PTL DEF Spec

(***************************************************************************)
(* Only an extension between the reading of a list and a call decided on   *)
(* it makes the client terminate what is not due, for any instances and    *)
(* any number of overlapping ticks and extensions, with the bounds of the  *)
(* run or without them (client.ts:199-250, 414).                           *)
(***************************************************************************)
THEOREM RacesAlwaysKillOnlyTheDue ==
  /\ Spec => [][DueOrMoved]_vars
  /\ MonitorsSpec => RacesKillOnlyTheDue
<1>1. RacesInv /\ [MonitorsNext]_monitorsVars => [Shared => DueOrMoved]_monitorsVars
  BY EndsAreDue DEF RacesInv, MonitorsNext, monitorsVars, Shared
<1>2. MonitorsSpec => RacesKillOnlyTheDue
  BY <1>1, RacesInvariance, PTL DEF RacesKillOnlyTheDue, MonitorsSpec
<1>3. MonitorInv /\ GrantInv /\ [Next]_vars => [DueOrMoved]_vars
  BY EndsAreDue
<1>4. Spec => [][DueOrMoved]_vars
  BY <1>3, MonitorInvariance, PTL DEF Spec
<1>5. QED
  BY <1>2, <1>4

(***************************************************************************)
(* Extensions that follow one another all count, whatever ticks, banner    *)
(* and user do between their steps, and one that overlaps others takes the *)
(* place of none but those written since it read; for any number of        *)
(* instances, ticks and extensions (client.ts:531-560).                    *)
(***************************************************************************)
THEOREM RacesAlwaysKeepExtensions ==
  /\ Spec => [](MonitorTypeOK /\ NoExtensionLost)
  /\ MonitorsSpec => []RacesKeepExtensions
<1>1. RacesInv => RacesKeepExtensions
  BY InvariantSuffices DEF RacesInv, RacesKeepExtensions
<1>2. MonitorsSpec => []RacesKeepExtensions
  BY <1>1, RacesInvariance, PTL
<1>3. Spec => [](MonitorTypeOK /\ NoExtensionLost)
  BY InvariantSuffices, MonitorInvariance, PTL
<1>4. QED
  BY <1>2, <1>3
=============================================================================
