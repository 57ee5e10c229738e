------------------------------- MODULE FanOut -------------------------------
(***************************************************************************)
(* The fan-out engine of core/fanout.ts: it launches the members of a      *)
(* sweep, a job queue or a job array under a concurrency cap, a launch     *)
(* delay, dependencies, retries, an on-failure policy and a viability      *)
(* threshold.                                                              *)
(*                                                                         *)
(* pump(nowMs) is asynchronous and runs in synchronous segments: from its  *)
(* call to the first client.launch it awaits, and from each launch's       *)
(* settling to the next launch or to the end.  One action is one segment.  *)
(* Between two segments the world moves on; further calls of pump return   *)
(* at once.  Here the environment is arbitrary: any list of instances may  *)
(* be shown to a pump and any launch may succeed or fail.  SpawnFanOut     *)
(* puts the client and the provider around it.                             *)
(*                                                                         *)
(* Time is kept as ages in abstract units, saturating at the delay they    *)
(* are compared with.  While a pump runs, ages are measured at the nowMs   *)
(* it was called with, as in the code, and pumpAge is how much later it    *)
(* really is.                                                              *)
(***************************************************************************)
EXTENDS Integers, FiniteSets

CONSTANTS
  N,              \* members.length
  DependsOn,      \* dependsOn of each member, as a set of member indexes
  MaxAttempts,    \* maxAttempts of each member
  MaxConcurrent,  \* options of the constructor, 0 = launch all at once
  LaunchDelay,
  RetryDelay,
  OnFailure,
  MinViableOption

Members == 1 .. N

ASSUME NAssumption == N \in Nat \ {0}
ASSUME DependsAssumption == DependsOn \in [Members -> SUBSET Members]
ASSUME AttemptsAssumption == MaxAttempts \in [Members -> Nat \ {0}]
ASSUME OptionsAssumption ==
  /\ MaxConcurrent \in Nat /\ LaunchDelay \in Nat /\ RetryDelay \in Nat
  /\ OnFailure \in {"continue", "stop"}
  /\ MinViableOption \in Int

VARIABLES
  st,            \* state of each member
  attempts,      \* launch attempts made so far
  sinceLaunch,   \* now - lastLaunchMs
  sinceAttempt,  \* now - lastAttemptMs of each member
  cursor,        \* the member whose launch the pump awaits, 0 when no pump runs
  active,        \* the pump's local count of live members
  pumpAge,       \* time since the running pump was given nowMs
  sinceBegin     \* history: time since the last launch call was made

vars == <<st, attempts, sinceLaunch, sinceAttempt, cursor, active, pumpAge, sinceBegin>>

NotStarted == {"pending", "blocked"}
Terminal == {"completed", "failed", "skipped"}
States == NotStarted \cup Terminal \cup {"launching", "running"}

Smaller(a, b) == IF a < b THEN a ELSE b
Larger(a, b) == IF a < b THEN b ELSE a

Cap == IF MaxConcurrent > 0 THEN MaxConcurrent ELSE N

\* The threshold is clamped to [1, N], never rejected.
MinViable == Smaller(Larger(MinViableOption, 1), N)

In(s, states) == {m \in Members : s[m] \in states}

\* The id of the instance of a member's latest attempt.
InstanceOf(m) == <<m, attempts[m]>>

-----------------------------------------------------------------------------
(* Viability and gating, as operators of a member-state function s.        *)

\* Variant: only members that are or were up count, not the hopefuls.
ViableCandidates_UpOnly(s) == Cardinality(In(s, {"launching", "running", "completed"}))

ViableCandidates(s) == N - Cardinality(In(s, {"failed", "skipped"}))
NonViable(s) == ViableCandidates(s) < MinViable

\* Variants: the stop policy is ignored; the threshold is off by one;
\* a completed member counts as lost.
StopAll_NoPolicy(s, skips) ==
  N - Cardinality(In(s, {"failed", "skipped"}) \cup skips) < MinViable
StopAll_CompletedLost(s, skips) ==
  \/ OnFailure = "stop" /\ In(s, {"failed"}) # {}
  \/ N - Cardinality(In(s, Terminal) \cup skips) < MinViable

StopAll(s, skips) ==
  \/ OnFailure = "stop" /\ In(s, {"failed"}) # {}
  \/ N - Cardinality(In(s, {"failed", "skipped"}) \cup skips) < MinViable

\* Variant: a lost dependency does not take its dependents with it.
SkipsClosed_NoCascade(s, skips) ==
  \A m \in In(s, NotStarted) \ skips : ~ StopAll(s, skips)

\* One round of applyGating, given the members skipped so far, skips no more.
SkipsClosed(s, skips) ==
  \A m \in In(s, NotStarted) \ skips :
    /\ ~ StopAll(s, skips)
    /\ DependsOn[m] \cap (In(s, {"failed", "skipped"}) \cup skips) = {}

\* What the loop of applyGating skips: the least set no round can enlarge.
Skips(s) ==
  {m \in In(s, NotStarted) :
     \A skips \in SUBSET In(s, NotStarted) : SkipsClosed(s, skips) => m \in skips}

\* Variant: a dependency that is up is taken for one that is done.
Gated_UpIsDone(s) ==
  LET skips == Skips(s) IN
  [m \in Members |->
     IF s[m] \notin NotStarted THEN s[m]
     ELSE IF m \in skips THEN "skipped"
     ELSE IF DependsOn[m] \subseteq In(s, {"completed", "running"}) THEN "pending"
     ELSE "blocked"]

Gated(s) ==
  LET skips == Skips(s) IN
  [m \in Members |->
     IF s[m] \notin NotStarted THEN s[m]
     ELSE IF m \in skips THEN "skipped"
     ELSE IF DependsOn[m] \subseteq In(s, {"completed"}) THEN "pending"
     ELSE "blocked"]

\* running -> completed when the list shows no live instance.
Reconciled(live) ==
  [m \in Members |->
     IF st[m] = "running" /\ InstanceOf(m) \notin live THEN "completed" ELSE st[m]]

-----------------------------------------------------------------------------
(* The launch loop.  It goes on from member `from` with states s, count    *)
(* act and launch age sl; since are the attempt ages.                      *)

\* Variant: one launch too many.
Eligible_OverCap(s, from, act, sl, since) ==
  {m \in from .. N :
     /\ s[m] = "pending"
     /\ act <= Cap
     /\ sl >= LaunchDelay
     /\ since[m] >= RetryDelay}

Eligible(s, from, act, sl, since) ==
  {m \in from .. N :
     /\ s[m] = "pending"
     /\ act < Cap
     /\ sl >= LaunchDelay
     /\ since[m] >= RetryDelay}

First(S) == CHOOSE m \in S : \A k \in S : m <= k

\* The next eligible member is marked launching and client.launch is called.
LaunchNext(s, from, act, sl, since) ==
  LET eligible == Eligible(s, from, act, sl, since)
      m == First(eligible)
  IN /\ eligible # {}
     /\ st' = [s EXCEPT ![m] = "launching"]
     /\ attempts' = [attempts EXCEPT ![m] = @ + 1]
     /\ cursor' = m
     /\ active' = act
     /\ sinceLaunch' = sl
     /\ sinceAttempt' = since
     /\ sinceBegin' = 0

\* Nothing more to launch: the pump ends and ages refer to the present again.
EndPump(s, from, act, sl, since, age) ==
  /\ Eligible(s, from, act, sl, since) = {}
  /\ st' = s
  /\ cursor' = 0
  /\ active' = 0
  /\ pumpAge' = 0
  /\ sinceLaunch' = Smaller(sl + age, LaunchDelay)
  /\ sinceAttempt' = [m \in Members |-> Smaller(since[m] + age, RetryDelay)]
  /\ UNCHANGED <<attempts, sinceBegin>>

Init ==
  /\ st = [m \in Members |-> "pending"]
  /\ attempts = [m \in Members |-> 0]
  /\ sinceLaunch = LaunchDelay
  /\ sinceAttempt = [m \in Members |-> RetryDelay]
  /\ cursor = 0
  /\ active = 0
  /\ pumpAge = 0
  /\ sinceBegin = LaunchDelay

\* pump(now), up to its first await: reconcile, gate, launch.
Pump(live) ==
  LET r == Reconciled(live)
      g == Gated(r)
      act == Cardinality(In(r, {"running"}))
  IN /\ cursor = 0
     /\ \/ /\ LaunchNext(g, 1, act, sinceLaunch, sinceAttempt)
           /\ pumpAge' = 0
        \/ EndPump(g, 1, act, sinceLaunch, sinceAttempt, 0)

\* Variant: the launch is not stamped in lastLaunchMs.
Settle_NoStamp(s, act) ==
  LET since == [sinceAttempt EXCEPT ![cursor] = 0] IN
  \/ /\ LaunchNext(s, cursor + 1, act, sinceLaunch, since)
     /\ UNCHANGED pumpAge
  \/ EndPump(s, cursor + 1, act, sinceLaunch, since, pumpAge)

\* The awaited launch settles, leaving states s and count act, and the loop
\* goes on after the member.  Both outcomes stamp the time of the pump.
Settle(s, act) ==
  LET since == [sinceAttempt EXCEPT ![cursor] = 0] IN
  \/ /\ LaunchNext(s, cursor + 1, act, 0, since)
     /\ UNCHANGED pumpAge
  \/ EndPump(s, cursor + 1, act, 0, since, pumpAge)

LaunchSucceeded ==
  /\ cursor # 0
  /\ Settle([st EXCEPT ![cursor] = "running"], active + 1)

\* Variants: gating is not recomputed after a terminal failure; one attempt too
\* many; a state no reader of the record knows.
LaunchFailed_NoRegate ==
  /\ cursor # 0
  /\ Settle([st EXCEPT ![cursor] =
               IF attempts[cursor] < MaxAttempts[cursor] THEN "pending" ELSE "failed"], active)
LaunchFailed ==
  /\ cursor # 0
  /\ IF attempts[cursor] < MaxAttempts[cursor]
     THEN Settle([st EXCEPT ![cursor] = "pending"], active)
     ELSE Settle(Gated([st EXCEPT ![cursor] = "failed"]), active)

Tick ==
  /\ sinceBegin' = Smaller(sinceBegin + 1, LaunchDelay)
  /\ IF cursor = 0
     THEN /\ sinceLaunch' = Smaller(sinceLaunch + 1, LaunchDelay)
          /\ sinceAttempt' = [m \in Members |-> Smaller(sinceAttempt[m] + 1, RetryDelay)]
          /\ UNCHANGED pumpAge
     ELSE /\ pumpAge' = Smaller(pumpAge + 1, Larger(LaunchDelay, RetryDelay))
          /\ UNCHANGED <<sinceLaunch, sinceAttempt>>
  /\ UNCHANGED <<st, attempts, cursor, active>>

Next ==
  \/ \E live \in SUBSET {InstanceOf(m) : m \in In(st, {"running"})} : Pump(live)
  \/ LaunchSucceeded
  \/ LaunchFailed
  \/ Tick

Spec == Init /\ [][Next]_vars

-----------------------------------------------------------------------------
TypeOK ==
  /\ st \in [Members -> States]
  /\ attempts \in [Members -> Nat]
  /\ sinceLaunch \in 0 .. LaunchDelay
  /\ sinceAttempt \in [Members -> 0 .. RetryDelay]
  /\ cursor \in 0 .. N
  /\ active \in Nat
  /\ pumpAge \in Nat
  /\ sinceBegin \in 0 .. LaunchDelay

\* At most Cap members hold a slot at once, whatever lists the pumps were
\* shown and however the launches settled: a slot is taken when a launch is
\* called, not when it answers.
CapRespected == Cardinality(In(st, {"launching", "running"})) <= Cap

\* A member is launched only after every member it depends on completed, and
\* nothing un-completes them later, through retries and late answers.
DependenciesFirst ==
  \A m \in Members : attempts[m] > 0 => DependsOn[m] \subseteq In(st, {"completed"})

\* No member waits that should have been skipped: a failure's cascade, the
\* "stop" policy and the viability gate take effect in the segment in which
\* the failure is recorded, so no later segment launches into a doomed set.
NothingDoomedWaits ==
  \A m \in In(st, NotStarted) :
    /\ DependsOn[m] \cap In(st, {"failed", "skipped"}) = {}
    /\ ~ (OnFailure = "stop" /\ In(st, {"failed"}) # {})
    /\ ~ NonViable(st)

\* A member is skipped for a reason that still stands: a lost dependency, a
\* failure under "stop", or a set below the threshold.  Nothing is skipped
\* because of a dependency that completed or may yet complete.
SkipsJustified ==
  \A m \in In(st, {"skipped"}) :
    \/ DependsOn[m] \cap In(st, {"failed", "skipped"}) # {}
    \/ OnFailure = "stop" /\ In(st, {"failed"}) # {}
    \/ NonViable(st)

\* The counts agree with the record across awaits: one launch is in flight
\* exactly while a pump runs, the pump's local count of live members is the
\* number recorded as running, no attempt exceeds maxAttempts, and a member
\* fails only with its attempts used up.
CountsAgree ==
  /\ In(st, {"launching"}) = {m \in Members : m = cursor}
  /\ cursor # 0 => active = Cardinality(In(st, {"running"}))
  /\ \A m \in Members :
       /\ attempts[m] <= MaxAttempts[m]
       /\ st[m] = "failed" => attempts[m] = MaxAttempts[m]
       /\ st[m] \in {"launching", "running", "completed"} => attempts[m] > 0

\* What a pump computes across its awaits is what the record says: no slot is
\* given twice or lost, no attempt is counted twice, whichever lists are shown
\* to it and however the launches settle.
EngineConsistent == TypeOK /\ CountsAgree /\ CapRespected

\* Launch calls are at least LaunchDelay apart, failed ones and ones of
\* different pumps included, however long each takes to answer.
LaunchSpacing ==
  [][attempts' # attempts => sinceBegin >= LaunchDelay]_vars

\* Once the threshold is out of reach it stays so: callers terminate the
\* survivors of a non-viable set, so a verdict that could be withdrawn would
\* have killed a viable one.
NonViableLatches == [][NonViable(st) => NonViable(st')]_vars

\* The engine implements the schedule a user is promised.
DagStatus ==
  [m \in Members |->
     CASE st[m] \in NotStarted -> "waiting"
       [] st[m] \in {"launching", "running"} -> "active"
       [] st[m] = "completed" -> "done"
       [] OTHER -> st[m]]

Dag == INSTANCE JobDag WITH
         Jobs <- Members, Capacity <- Cap, Threshold <- MinViable,
         StopOnFailure <- (OnFailure = "stop"), status <- DagStatus

ImplementsDag == Dag!Spec
=============================================================================
