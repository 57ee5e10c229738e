---------------------------- MODULE FanOutProofs ----------------------------
(***************************************************************************)
(* Theorems about the engine of module FanOut, for every number of         *)
(* members, every dependency relation and every choice of the options.     *)
(* Then about the client: its launches, lists and instances make the       *)
(* engine take only its own steps, so that the first theorems hold under   *)
(* them.  And where lists arrive in the order of their calls, every failed *)
(* launch is retired and nothing starts again, the engine accounts for     *)
(* every instance that runs; and so does an array that is wound down       *)
(* beside it.                                                              *)
(***************************************************************************)
EXTENDS MCWorlds, JobArray, FiniteSetTheorems, WellFoundedInduction, TLAPS

StateFunctions == [Members -> States]

Lost(s) == In(s, {"failed", "skipped"})

-----------------------------------------------------------------------------
(* Sets of members, and the first of them.                                 *)

\* The members are finitely many, N of them, and so is every set of them.
LEMMA MembersFinite ==
  /\ IsFiniteSet(Members)
  /\ Cardinality(Members) = N
  /\ \A S \in SUBSET Members : IsFiniteSet(S) /\ Cardinality(S) \in Nat /\ Cardinality(S) <= N
<1>1. IsFiniteSet(Members) /\ Cardinality(Members) = N
  BY NAssumption, FS_Interval DEF Members
<1>2. \A S \in SUBSET Members : IsFiniteSet(S) /\ Cardinality(S) \in Nat /\ Cardinality(S) <= N
  BY <1>1, FS_Subset, FS_CardinalityType
<1>3. QED
  BY <1>1, <1>2

\* A larger set of members has at least as many.
LEMMA CardinalityGrows ==
  ASSUME NEW S \in SUBSET Members, NEW T \in SUBSET S
  PROVE  Cardinality(T) <= Cardinality(S)
BY MembersFinite, FS_Subset

\* The loop's next index exists: a set of members that is not empty has a
\* first one.
LEMMA FirstExists ==
  ASSUME NEW S \in SUBSET Members, S # {}
  PROVE  First(S) \in S /\ \A k \in S : First(S) <= k
<1> DEFINE R == {p \in Nat \X Nat : p[1] < p[2]}
<1>1. IsWellFoundedOn(R, Nat)
  BY NatLessThanWellFounded, Zenon DEF OpToRel
<1>2. S \subseteq Nat
  BY NAssumption DEF Members
<1>3. PICK m \in S : \A k \in S : ~ (<<k, m>> \in R)
  <2> HIDE DEF R
  <2>1. QED
    BY <1>1, <1>2, WFMin
<1>4. ASSUME NEW k \in S
      PROVE  m <= k
  <2>1. k \in Nat /\ m \in Nat /\ <<k, m>> \notin R
    BY <1>2, <1>3
  <2>2. ~ (k < m)
    BY <2>1
  <2>3. QED
    BY <2>1, <2>2
<1>5. QED
  BY <1>4 DEF First

-----------------------------------------------------------------------------
(* Type correctness.                                                       *)

Ages == [Members -> 0 .. RetryDelay]

\* Gating and reconciling yield states of members.
LEMMA GatedType ==
  ASSUME NEW s \in StateFunctions
  PROVE  Gated(s) \in StateFunctions
BY DEF Gated, StateFunctions, States, NotStarted, Terminal

\* Reconciliation changes states to states.
LEMMA ReconciledType ==
  ASSUME TypeOK, NEW live
  PROVE  Reconciled(live) \in StateFunctions
BY DEF Reconciled, StateFunctions, States, NotStarted, Terminal, TypeOK

\* What LaunchNext does, with the member it picks named.
LEMMA LaunchNextPicks ==
  ASSUME TypeOK,
         NEW s \in StateFunctions, NEW from \in Nat \ {0}, NEW act, NEW sl, NEW since,
         LaunchNext(s, from, act, sl, since)
  PROVE  /\ cursor' \in Members
         /\ cursor' >= from
         /\ s[cursor'] = "pending"
         /\ act < Cap
         /\ sl >= LaunchDelay
         /\ st' = [s EXCEPT ![cursor'] = "launching"]
         /\ attempts' = [attempts EXCEPT ![cursor'] = @ + 1]
<1> DEFINE eligible == Eligible(s, from, act, sl, since)
<1>1. eligible \subseteq Members
  BY NAssumption DEF Eligible, Members
<1>2. eligible # {} /\ cursor' = First(eligible)
  BY DEF LaunchNext
<1>3. cursor' \in eligible
  BY <1>1, <1>2, FirstExists
<1>4. QED
  BY <1>1, <1>2, <1>3 DEF LaunchNext, Eligible, Members

\* Either way out of a segment leaves a state of the right type.
LEMMA SegmentType ==
  ASSUME TypeOK,
         NEW s \in StateFunctions, NEW from \in Nat \ {0}, NEW act \in Nat,
         NEW sl \in 0 .. LaunchDelay, NEW since \in Ages, NEW age \in Nat,
         \/ LaunchNext(s, from, act, sl, since) /\ pumpAge' \in Nat
         \/ EndPump(s, from, act, sl, since, age)
  PROVE  TypeOK'
<1>1. CASE LaunchNext(s, from, act, sl, since) /\ pumpAge' \in Nat
  <2>1. /\ cursor' \in Members
        /\ st' = [s EXCEPT ![cursor'] = "launching"]
        /\ attempts' = [attempts EXCEPT ![cursor'] = @ + 1]
    BY <1>1, LaunchNextPicks
  <2>2. st' \in [Members -> States] /\ attempts' \in [Members -> Nat]
    BY <2>1 DEF StateFunctions, States, TypeOK
  <2>3. cursor' \in 0 .. N
    BY <2>1, NAssumption DEF Members
  <2>4. /\ active' \in Nat
        /\ sinceLaunch' \in 0 .. LaunchDelay
        /\ sinceAttempt' \in [Members -> 0 .. RetryDelay]
        /\ sinceBegin' \in 0 .. LaunchDelay
    BY <1>1, OptionsAssumption DEF LaunchNext, Ages
  <2>5. QED
    BY <1>1, <2>2, <2>3, <2>4 DEF TypeOK
<1>2. CASE EndPump(s, from, act, sl, since, age)
  <2>1. sinceLaunch' \in 0 .. LaunchDelay
    BY <1>2, OptionsAssumption DEF EndPump, Smaller
  <2>2. sinceAttempt' \in [Members -> 0 .. RetryDelay]
    BY <1>2, OptionsAssumption DEF EndPump, Smaller, Ages
  <2>3. QED
    BY <1>2, <2>1, <2>2, NAssumption DEF EndPump, TypeOK, StateFunctions
<1>3. QED
  BY <1>1, <1>2

\* Settling keeps every variable in its type.
LEMMA SettleType ==
  ASSUME TypeOK, cursor # 0, NEW s \in StateFunctions, NEW act \in Nat, Settle(s, act)
  PROVE  TypeOK'
<1> DEFINE since == [sinceAttempt EXCEPT ![cursor] = 0]
<1>1. since \in Ages
  <2>1. 0 \in 0 .. RetryDelay /\ sinceAttempt \in Ages
    BY OptionsAssumption DEF TypeOK, Ages
  <2>2. QED
    BY <2>1 DEF Ages
<1>2. cursor + 1 \in Nat \ {0} /\ 0 \in 0 .. LaunchDelay /\ pumpAge \in Nat
  BY NAssumption, OptionsAssumption DEF TypeOK
<1>3. \/ LaunchNext(s, cursor + 1, act, 0, since) /\ pumpAge' \in Nat
      \/ EndPump(s, cursor + 1, act, 0, since, pumpAge)
  BY <1>2 DEF Settle
<1> HIDE DEF since
<1>4. QED
  BY <1>1, <1>2, <1>3, SegmentType

\* The states a settled launch leaves before the loop goes on.
LEMMA SettledStates ==
  ASSUME TypeOK, cursor # 0, NEW x \in States
  PROVE  [st EXCEPT ![cursor] = x] \in StateFunctions
BY DEF TypeOK, StateFunctions

\* A step keeps the types.
LEMMA TypeKeeps == TypeOK /\ [Next]_vars => TypeOK'
<1> SUFFICES ASSUME TypeOK, [Next]_vars
             PROVE  TypeOK'
  OBVIOUS
<1>1. ASSUME NEW live, Pump(live)
      PROVE  TypeOK'
  <2> DEFINE r == Reconciled(live)
             g == Gated(r)
             act == Cardinality(In(r, {"running"}))
  <2>1. g \in StateFunctions
    BY ReconciledType, GatedType
  <2>2. act \in Nat
    BY MembersFinite DEF In
  <2>3. \/ LaunchNext(g, 1, act, sinceLaunch, sinceAttempt) /\ pumpAge' \in Nat
        \/ EndPump(g, 1, act, sinceLaunch, sinceAttempt, 0)
    BY <1>1 DEF Pump
  <2>4. sinceLaunch \in 0 .. LaunchDelay /\ sinceAttempt \in Ages
    BY DEF TypeOK, Ages
  <2> HIDE DEF g, act
  <2>5. QED
    BY <2>1, <2>2, <2>3, <2>4, SegmentType
<1>2. CASE LaunchSucceeded
  <2>1. [st EXCEPT ![cursor] = "running"] \in StateFunctions
    BY <1>2, SettledStates DEF LaunchSucceeded, States
  <2>2. active + 1 \in Nat /\ cursor # 0
    BY <1>2 DEF TypeOK, LaunchSucceeded
  <2>3. QED
    BY <1>2, <2>1, <2>2, SettleType DEF LaunchSucceeded
<1>3. CASE LaunchFailed
  <2>1. /\ [st EXCEPT ![cursor] = "pending"] \in StateFunctions
        /\ Gated([st EXCEPT ![cursor] = "failed"]) \in StateFunctions
    BY <1>3, SettledStates, GatedType DEF LaunchFailed, States, NotStarted, Terminal
  <2>2. active \in Nat /\ cursor # 0
    BY <1>3 DEF TypeOK, LaunchFailed
  <2>3. QED
    BY <1>3, <2>1, <2>2, SettleType DEF LaunchFailed
<1>4. CASE Tick
  BY <1>4, OptionsAssumption DEF Tick, TypeOK, Smaller, Larger
<1>5. CASE UNCHANGED vars
  BY <1>5 DEF vars, TypeOK
<1>6. QED
  BY <1>1, <1>2, <1>3, <1>4, <1>5 DEF Next

\* Every state the engine reaches has the type of its declarations.
THEOREM TypeCorrect == Spec => []TypeOK
<1>1. Init => TypeOK
  BY NAssumption, OptionsAssumption DEF Init, TypeOK, States, NotStarted
<1>2. QED
  BY <1>1, TypeKeeps, PTL DEF Spec

-----------------------------------------------------------------------------
(* Gating: the least fixpoint is itself closed, so what it leaves waiting   *)
(* may run, and what it skips it skips for a reason.                       *)

\* Member m has no reason to be skipped.
Undoomed(s, m) ==
  /\ DependsOn[m] \cap Lost(s) = {}
  /\ ~ (OnFailure = "stop" /\ In(s, {"failed"}) # {})
  /\ ~ NonViable(s)

\* Skipping more members never lifts a stop.
LEMMA StopAllGrows ==
  ASSUME NEW s, NEW B \in SUBSET Members, NEW A \in SUBSET B, StopAll(s, A)
  PROVE  StopAll(s, B)
<1>1. CASE OnFailure = "stop" /\ In(s, {"failed"}) # {}
  BY <1>1 DEF StopAll
<1>2. CASE N - Cardinality(Lost(s) \cup A) < MinViable
  <2>1. /\ Lost(s) \cup B \in SUBSET Members
        /\ Lost(s) \cup A \in SUBSET (Lost(s) \cup B)
    BY DEF Lost, In
  <2>2. Cardinality(Lost(s) \cup A) <= Cardinality(Lost(s) \cup B)
    BY <2>1, CardinalityGrows
  <2>3. Cardinality(Lost(s) \cup A) \in Nat /\ Cardinality(Lost(s) \cup B) \in Nat
    BY <2>1, MembersFinite
  <2>4. MinViable \in Int
    BY NAssumption, OptionsAssumption DEF MinViable, Smaller, Larger
  <2>5. N - Cardinality(Lost(s) \cup B) < MinViable
    BY <1>2, <2>2, <2>3, <2>4, NAssumption
  <2>6. QED
    BY <2>5 DEF StopAll, Lost
<1>3. QED
  BY <1>1, <1>2 DEF StopAll, Lost

\* The intersection of the closed sets is closed: the loop of applyGating has
\* one outcome, whatever order it visits the members in.
LEMMA SkipsAreClosed ==
  ASSUME NEW s
  PROVE  SkipsClosed(s, Skips(s))
<1> SUFFICES ASSUME NEW m \in In(s, NotStarted) \ Skips(s)
             PROVE  /\ ~ StopAll(s, Skips(s))
                    /\ DependsOn[m] \cap (Lost(s) \cup Skips(s)) = {}
  BY DEF SkipsClosed, Lost
<1>1. PICK C \in SUBSET In(s, NotStarted) : SkipsClosed(s, C) /\ m \notin C
  BY DEF Skips
<1>2. Skips(s) \subseteq C
  BY <1>1 DEF Skips
<1>3. /\ ~ StopAll(s, C)
      /\ DependsOn[m] \cap (Lost(s) \cup C) = {}
  BY <1>1 DEF SkipsClosed, Lost
<1>4. C \in SUBSET Members
  BY DEF In
<1>5. QED
  BY <1>2, <1>3, <1>4, StopAllGrows

\* What gating changes: members that had not started, and nothing else.
LEMMA GatedSets ==
  ASSUME NEW s \in StateFunctions
  PROVE  /\ Skips(s) \subseteq In(s, NotStarted)
         /\ \A m \in Members : s[m] \notin NotStarted => Gated(s)[m] = s[m]
         /\ In(Gated(s), NotStarted) = In(s, NotStarted) \ Skips(s)
         /\ In(Gated(s), {"failed"}) = In(s, {"failed"})
         /\ In(Gated(s), {"running"}) = In(s, {"running"})
         /\ In(Gated(s), {"launching"}) = In(s, {"launching"})
         /\ In(Gated(s), {"completed"}) = In(s, {"completed"})
         /\ Lost(Gated(s)) = Lost(s) \cup Skips(s)
<1>1. Skips(s) \subseteq In(s, NotStarted)
  BY DEF Skips
<1>2. \A m \in Members :
        Gated(s)[m] = IF s[m] \notin NotStarted THEN s[m]
                      ELSE IF m \in Skips(s) THEN "skipped"
                      ELSE IF DependsOn[m] \subseteq In(s, {"completed"}) THEN "pending"
                      ELSE "blocked"
  BY DEF Gated
<1>3. QED
  BY <1>1, <1>2 DEF In, Lost, NotStarted

\* The stop test of the last round is the verdict on the gated states.
LEMMA StopAllIsVerdict ==
  ASSUME NEW s \in StateFunctions
  PROVE  StopAll(s, Skips(s)) <=>
           \/ OnFailure = "stop" /\ In(Gated(s), {"failed"}) # {}
           \/ NonViable(Gated(s))
BY GatedSets DEF StopAll, NonViable, ViableCandidates, Lost

\* What gating leaves waiting may run.
LEMMA GatedUndoomed ==
  ASSUME NEW s \in StateFunctions, NEW m \in In(Gated(s), NotStarted)
  PROVE  Undoomed(Gated(s), m)
BY GatedSets, SkipsAreClosed, StopAllIsVerdict DEF SkipsClosed, Undoomed, Lost

\* What gating skips has a reason to be skipped.
LEMMA GatedJustified ==
  ASSUME NEW s \in StateFunctions, NEW m \in Skips(s)
  PROVE  ~ Undoomed(Gated(s), m)
<1> SUFFICES ASSUME Undoomed(Gated(s), m)
             PROVE  FALSE
  OBVIOUS
<1> DEFINE others == Skips(s) \ {m}
<1>1. ~ StopAll(s, Skips(s)) /\ DependsOn[m] \cap (Lost(s) \cup Skips(s)) = {}
  BY GatedSets, StopAllIsVerdict DEF Undoomed
<1>2. ~ StopAll(s, others)
  BY <1>1, GatedSets, StopAllGrows DEF In
<1>3. ASSUME NEW k \in In(s, NotStarted) \ others
      PROVE  DependsOn[k] \cap (Lost(s) \cup others) = {}
  <2>1. CASE k = m
    BY <1>1, <2>1
  <2>2. CASE k # m
    BY <2>2, SkipsAreClosed DEF SkipsClosed, Lost
  <2>3. QED
    BY <2>1, <2>2
<1>4. SkipsClosed(s, others)
  BY <1>2, <1>3 DEF SkipsClosed, Lost
<1>5. others \in SUBSET In(s, NotStarted)
  BY GatedSets
<1>6. m \in others
  BY <1>4, <1>5 DEF Skips
<1>7. QED
  BY <1>6

\* A reason to be skipped never goes away while losses only accumulate.
LEMMA DoomLasts ==
  ASSUME NEW s, NEW t, NEW m,
         Lost(s) \subseteq Lost(t), In(s, {"failed"}) \subseteq In(t, {"failed"}),
         Undoomed(t, m)
  PROVE  Undoomed(s, m)
<1>1. Cardinality(Lost(s)) <= Cardinality(Lost(t))
  BY CardinalityGrows DEF Lost, In
<1>2. Cardinality(Lost(s)) \in Nat /\ Cardinality(Lost(t)) \in Nat /\ MinViable \in Int
  BY MembersFinite, NAssumption, OptionsAssumption DEF Lost, In, MinViable, Smaller, Larger
<1>3. NonViable(s) => NonViable(t)
  BY <1>1, <1>2, NAssumption DEF NonViable, ViableCandidates, Lost
<1>4. QED
  BY <1>3 DEF Undoomed

-----------------------------------------------------------------------------
(* The inductive invariant.                                                *)

\* Attempts of member m agree with a state x of it.
AttemptsFit(x, m) ==
  /\ attempts[m] <= MaxAttempts[m]
  /\ x \in NotStarted => attempts[m] < MaxAttempts[m]
  /\ x = "failed" => attempts[m] = MaxAttempts[m]
  /\ x \in {"launching", "running", "completed"} => attempts[m] > 0

DependenciesDone(s, m) == DependsOn[m] \subseteq In(s, {"completed"})

\* What holds of the states s between two launches of a segment, before the
\* gating that a terminal failure or a new list calls for ...
Settled(s) ==
  /\ s \in StateFunctions
  /\ In(s, {"launching"}) = {}
  /\ Cardinality(In(s, {"running"})) <= Cap
  /\ \A m \in Members : AttemptsFit(s[m], m)
  /\ \A m \in Members : attempts[m] > 0 => DependenciesDone(s, m)
  /\ \A m \in In(s, {"skipped"}) : ~ Undoomed(s, m)

\* ... and after it.
Ready(s) ==
  /\ Settled(s)
  /\ \A m \in In(s, NotStarted) : Undoomed(s, m)
  /\ \A m \in In(s, {"pending"}) : DependenciesDone(s, m)

\* The conjuncts the checked invariants do not say: a launch in flight is not
\* doomed either, so its failure dooms the others in its own segment and its
\* retry is not doomed; and while a pump runs the pending members may start.
IInv ==
  /\ TypeOK
  /\ CountsAgree
  /\ CapRespected
  /\ DependenciesFirst
  /\ SkipsJustified
  /\ \A m \in In(st, NotStarted \cup {"launching"}) : Undoomed(st, m)
  /\ \A m \in In(st, NotStarted) : attempts[m] < MaxAttempts[m]
  /\ cursor # 0 => \A m \in In(st, {"pending"}) : DependenciesDone(st, m)

\* The cap is a positive number, whatever the option.
LEMMA CapType == Cap \in Nat \ {0}
BY NAssumption, OptionsAssumption DEF Cap

\* Gating makes settled states ready.
LEMMA GatedReady ==
  ASSUME NEW s \in StateFunctions, Settled(s)
  PROVE  Ready(Gated(s)) /\ In(Gated(s), {"running"}) = In(s, {"running"})
<1> DEFINE g == Gated(s)
<1>1. g \in StateFunctions
  BY GatedType
<1>2. /\ In(g, {"launching"}) = {}
      /\ Cardinality(In(g, {"running"})) <= Cap
      /\ \A m \in Members : attempts[m] > 0 => DependenciesDone(g, m)
  BY GatedSets DEF Settled, DependenciesDone
<1>3. ASSUME NEW m \in Members
      PROVE  AttemptsFit(g[m], m)
  <2>1. CASE s[m] \notin NotStarted
    BY <2>1, GatedSets DEF Settled
  <2>2. CASE s[m] \in NotStarted
    <3>1. g[m] \in {"pending", "blocked", "skipped"}
      BY <2>2 DEF Gated
    <3>2. attempts[m] <= MaxAttempts[m] /\ attempts[m] < MaxAttempts[m]
      BY <2>2 DEF Settled, AttemptsFit
    <3>3. QED
      BY <3>1, <3>2 DEF AttemptsFit
  <2>3. QED
    BY <2>1, <2>2
<1>4. ASSUME NEW m \in In(g, {"skipped"})
      PROVE  ~ Undoomed(g, m)
  <2>1. CASE m \in Skips(s)
    BY <2>1, GatedJustified
  <2>2. CASE m \notin Skips(s)
    <3>1. m \in In(s, {"skipped"})
      BY <2>2 DEF In, Gated
    <3>2. ~ Undoomed(s, m)
      BY <3>1 DEF Settled
    <3>3. Lost(s) \subseteq Lost(g) /\ In(s, {"failed"}) \subseteq In(g, {"failed"})
      BY GatedSets
    <3> HIDE DEF g
    <3>4. QED
      BY <3>2, <3>3, DoomLasts
  <2>3. QED
    BY <2>1, <2>2
<1>5. \A m \in In(g, NotStarted) : Undoomed(g, m)
  BY GatedUndoomed
<1>6. \A m \in In(g, {"pending"}) : DependenciesDone(g, m)
  <2>1. \A m \in In(g, {"pending"}) : DependenciesDone(s, m)
    BY DEF Gated, In, NotStarted, DependenciesDone
  <2>2. QED
    BY <2>1, GatedSets DEF DependenciesDone
<1>7. QED
  BY <1>1, <1>2, <1>3, <1>4, <1>5, <1>6, GatedSets DEF Ready, Settled

\* A launch from ready states restores the invariant.
LEMMA LaunchRestores ==
  ASSUME TypeOK, TypeOK',
         NEW s, Ready(s), NEW from \in Nat \ {0}, NEW sl, NEW since,
         LaunchNext(s, from, Cardinality(In(s, {"running"})), sl, since)
  PROVE  IInv'
<1> DEFINE act == Cardinality(In(s, {"running"}))
           c == cursor'
<1>1. s \in StateFunctions /\ Settled(s)
  BY DEF Ready, Settled
<1>2. /\ c \in Members
      /\ s[c] = "pending"
      /\ act < Cap
      /\ st' = [s EXCEPT ![c] = "launching"]
      /\ attempts' = [attempts EXCEPT ![c] = @ + 1]
      /\ active' = act
  BY <1>1, LaunchNextPicks DEF LaunchNext
<1> HIDE DEF act, c
<1>3. /\ In(st', {"launching"}) = {c}
      /\ In(st', {"running"}) = In(s, {"running"})
      /\ In(st', {"launching", "running"}) = In(s, {"running"}) \cup {c}
      /\ In(st', {"completed"}) = In(s, {"completed"})
      /\ In(st', {"failed"}) = In(s, {"failed"})
      /\ In(st', {"skipped"}) = In(s, {"skipped"})
      /\ In(st', NotStarted) = In(s, NotStarted) \ {c}
      /\ In(st', {"pending"}) = In(s, {"pending"}) \ {c}
      /\ Lost(st') = Lost(s)
  BY <1>1, <1>2 DEF Ready, Settled, In, Lost, NotStarted, StateFunctions
<1>4. \A m \in Members : Undoomed(s, m) <=> Undoomed(st', m)
  BY <1>3, DoomLasts
<1>5. attempts[c] < MaxAttempts[c] /\ DependenciesDone(s, c) /\ Undoomed(s, c)
  BY <1>1, <1>2 DEF Ready, Settled, AttemptsFit, In, NotStarted
<1>6. \A m \in Members : /\ attempts'[m] = IF m = c THEN attempts[c] + 1 ELSE attempts[m]
                         /\ attempts[m] \in Nat /\ MaxAttempts[m] \in Nat
  BY <1>2, AttemptsAssumption DEF TypeOK
<1>7. CountsAgree'
  <2>1. In(st', {"launching"}) = {m \in Members : m = cursor'}
    BY <1>2, <1>3 DEF c
  <2>2. active' = Cardinality(In(st', {"running"}))
    BY <1>2, <1>3 DEF act
  <2>3. ASSUME NEW m \in Members
        PROVE  /\ attempts'[m] <= MaxAttempts[m]
               /\ st'[m] = "failed" => attempts'[m] = MaxAttempts[m]
               /\ st'[m] \in {"launching", "running", "completed"} => attempts'[m] > 0
    <3>1. CASE m = c
      <4>1. st'[m] = "launching"
        BY <1>1, <1>2, <3>1 DEF StateFunctions
      <4>2. QED
        BY <1>5, <1>6, <3>1, <4>1
    <3>2. CASE m # c
      <4>1. st'[m] = s[m] /\ attempts'[m] = attempts[m]
        BY <1>1, <1>2, <1>6, <3>2 DEF StateFunctions
      <4>2. QED
        BY <1>1, <4>1 DEF Settled, AttemptsFit, In
    <3>3. QED
      BY <3>1, <3>2
  <2>4. QED
    BY <2>1, <2>2, <2>3 DEF CountsAgree
<1>8. CapRespected'
  <2>1. IsFiniteSet(In(s, {"running"})) /\ act \in Nat
    BY MembersFinite DEF In, act
  <2>2. Cardinality(In(s, {"running"}) \cup {c})
          = IF c \in In(s, {"running"}) THEN act ELSE act + 1
    BY <2>1, FS_AddElement DEF act
  <2>3. act < Cap
    BY <1>2
  <2> DEFINE k == Cardinality(In(s, {"running"}) \cup {c})
  <2>4. k = act \/ k = act + 1
    BY <2>2
  <2> HIDE DEF k
  <2>5. k <= Cap
    BY <2>1, <2>3, <2>4, CapType
  <2>6. Cardinality(In(st', {"launching", "running"})) = k
    BY <1>3 DEF k
  <2>7. QED
    BY <2>5, <2>6 DEF CapRespected
<1>9. DependenciesFirst'
  BY <1>1, <1>3, <1>5, <1>6 DEF DependenciesFirst, DependenciesDone, Settled
<1>10. SkipsJustified'
  <2>1. \A m \in In(st', {"skipped"}) : ~ Undoomed(st', m)
    BY <1>1, <1>3, <1>4 DEF Settled, In
  <2>2. QED
    BY <2>1 DEF SkipsJustified, Undoomed, Lost
<1>11. \A m \in In(st', NotStarted \cup {"launching"}) : Undoomed(st', m)
  <2> SUFFICES ASSUME NEW m \in In(st', NotStarted \cup {"launching"})
               PROVE  Undoomed(st', m)
    OBVIOUS
  <2>1. CASE m \in In(st', NotStarted)
    <3>1. m \in In(s, NotStarted) /\ m \in Members
      BY <1>3, <2>1 DEF In
    <3>2. Undoomed(s, m)
      BY <3>1 DEF Ready
    <3>3. QED
      BY <1>4, <3>1, <3>2
  <2>2. CASE m \in In(st', {"launching"})
    BY <1>2, <1>3, <1>4, <1>5, <2>2
  <2>3. QED
    BY <2>1, <2>2 DEF In
<1>12. \A m \in In(st', NotStarted) : attempts'[m] < MaxAttempts[m]
  BY <1>1, <1>3, <1>6 DEF Settled, AttemptsFit, In
<1>13. \A m \in In(st', {"pending"}) : DependenciesDone(st', m)
  BY <1>3 DEF Ready, DependenciesDone
<1>14. QED
  BY <1>7, <1>8, <1>9, <1>10, <1>11, <1>12, <1>13 DEF IInv

\* So does the end of a pump.
LEMMA EndRestores ==
  ASSUME TypeOK',
         NEW s, Ready(s), NEW from, NEW act, NEW sl, NEW since, NEW age,
         EndPump(s, from, act, sl, since, age)
  PROVE  IInv'
<1>1. st' = s /\ cursor' = 0 /\ attempts' = attempts
  BY DEF EndPump
<1>2. In(s, {"launching"}) = {} /\ Settled(s)
  BY DEF Ready, Settled
<1>3. CountsAgree'
  <2>1. In(st', {"launching"}) = {m \in Members : m = cursor'}
    BY <1>1, <1>2, NAssumption DEF Members
  <2>2. QED
    BY <1>1, <1>2, <2>1 DEF CountsAgree, Settled, AttemptsFit
<1>4. CapRespected'
  <2>1. In(s, {"launching", "running"}) = In(s, {"running"})
    BY <1>2 DEF In
  <2>2. QED
    BY <1>1, <1>2, <2>1 DEF CapRespected, Settled
<1>5. DependenciesFirst'
  BY <1>1, <1>2 DEF DependenciesFirst, Settled, DependenciesDone
<1>6. SkipsJustified'
  <2>1. \A m \in In(s, {"skipped"}) : ~ Undoomed(s, m)
    BY <1>2 DEF Settled
  <2>2. QED
    BY <1>1, <2>1 DEF SkipsJustified, Undoomed, Lost
<1>7. \A m \in In(st', NotStarted \cup {"launching"}) : Undoomed(st', m)
  BY <1>1, <1>2 DEF Ready, In
<1>8. \A m \in In(st', NotStarted) : attempts'[m] < MaxAttempts[m]
  BY <1>1, <1>2 DEF Settled, AttemptsFit, In
<1>9. QED
  BY <1>1, <1>3, <1>4, <1>5, <1>6, <1>7, <1>8 DEF IInv

\* The running count a pump starts from, after reconciling.
LEMMA ReconciledSettled ==
  ASSUME IInv, cursor = 0, NEW live
  PROVE  Settled(Reconciled(live))
<1> DEFINE r == Reconciled(live)
<1>1. r \in StateFunctions
  BY ReconciledType DEF IInv
<1>2. /\ In(r, {"launching"}) = {}
      /\ In(r, {"running"}) \subseteq In(st, {"launching", "running"})
      /\ In(st, {"completed"}) \subseteq In(r, {"completed"})
      /\ In(r, {"skipped"}) = In(st, {"skipped"})
      /\ In(r, {"failed"}) = In(st, {"failed"})
      /\ Lost(r) = Lost(st)
  BY NAssumption DEF Reconciled, In, IInv, CountsAgree, Lost, Members
<1>3. Cardinality(In(r, {"running"})) <= Cap
  <2>1. In(st, {"launching", "running"}) \in SUBSET Members
    BY DEF In
  <2>2. /\ Cardinality(In(r, {"running"})) <= Cardinality(In(st, {"launching", "running"}))
        /\ Cardinality(In(r, {"running"})) \in Nat
        /\ Cardinality(In(st, {"launching", "running"})) \in Nat
    BY <1>2, <2>1, CardinalityGrows, MembersFinite
  <2>3. QED
    BY <2>2, CapType DEF IInv, CapRespected
<1>4. \A m \in Members : AttemptsFit(r[m], m)
  BY DEF Reconciled, AttemptsFit, IInv, CountsAgree, In, NotStarted
<1>5. \A m \in Members : attempts[m] > 0 => DependenciesDone(r, m)
  BY <1>2 DEF IInv, DependenciesFirst, DependenciesDone
<1>6. ASSUME NEW m \in In(r, {"skipped"})
      PROVE  ~ Undoomed(r, m)
  <2>1. ~ Undoomed(st, m)
    BY <1>2 DEF IInv, SkipsJustified, Undoomed, Lost
  <2> HIDE DEF r
  <2>2. QED
    BY <1>2, <2>1, DoomLasts
<1>7. QED
  BY <1>1, <1>2, <1>3, <1>4, <1>5, <1>6 DEF Settled

\* The states a settled launch leaves, for each outcome x the code records.
LEMMA OutcomeSettled ==
  ASSUME IInv, cursor # 0,
         NEW x \in {"running", "pending", "failed"},
         x = "pending" => attempts[cursor] < MaxAttempts[cursor],
         x = "failed" => ~ (attempts[cursor] < MaxAttempts[cursor])
  PROVE  /\ Settled([st EXCEPT ![cursor] = x])
         /\ x # "failed" => Ready([st EXCEPT ![cursor] = x])
         /\ Cardinality(In([st EXCEPT ![cursor] = x], {"running"}))
              = IF x = "running" THEN active + 1 ELSE active
<1> DEFINE s == [st EXCEPT ![cursor] = x]
<1>1. /\ cursor \in Members
      /\ st[cursor] = "launching"
      /\ \A m \in Members : st[m] = "launching" => m = cursor
  <2>1. cursor \in Members
    BY NAssumption DEF IInv, TypeOK, Members
  <2>2. In(st, {"launching"}) = {m \in Members : m = cursor}
    BY DEF IInv, CountsAgree
  <2>3. QED
    BY <2>1, <2>2 DEF In
<1>2. s \in StateFunctions /\ s[cursor] = x /\ \A m \in Members : m # cursor => s[m] = st[m]
  BY <1>1, SettledStates DEF IInv, TypeOK, States, NotStarted, Terminal
<1> HIDE DEF s
<1>3. /\ In(s, {"launching"}) = {}
      /\ In(s, {"running"}) = In(st, {"running"}) \cup (IF x = "running" THEN {cursor} ELSE {})
      /\ In(s, {"running"}) \subseteq In(st, {"launching", "running"})
      /\ In(s, {"completed"}) = In(st, {"completed"})
      /\ In(s, {"skipped"}) = In(st, {"skipped"})
      /\ In(st, {"failed"}) \subseteq In(s, {"failed"})
      /\ Lost(st) \subseteq Lost(s)
      /\ x # "failed" => In(st, {"failed"}) = In(s, {"failed"}) /\ Lost(st) = Lost(s)
      /\ In(s, NotStarted) \subseteq In(st, NotStarted \cup {"launching"})
      /\ In(s, {"pending"}) \subseteq In(st, {"pending"}) \cup {cursor}
  BY <1>1, <1>2 DEF In, Lost, NotStarted
<1>4. Cardinality(In(s, {"running"})) = IF x = "running" THEN active + 1 ELSE active
  <2>1. IsFiniteSet(In(st, {"running"})) /\ active = Cardinality(In(st, {"running"}))
    BY MembersFinite DEF In, IInv, CountsAgree
  <2>2. cursor \notin In(st, {"running"})
    BY <1>1 DEF In
  <2>3. QED
    BY <1>3, <2>1, <2>2, FS_AddElement
<1>5. Cardinality(In(s, {"running"})) <= Cap
  <2>1. In(st, {"launching", "running"}) \in SUBSET Members
    BY DEF In
  <2>2. /\ Cardinality(In(s, {"running"})) <= Cardinality(In(st, {"launching", "running"}))
        /\ Cardinality(In(s, {"running"})) \in Nat
        /\ Cardinality(In(st, {"launching", "running"})) \in Nat
    BY <1>3, <2>1, CardinalityGrows, MembersFinite
  <2>3. QED
    BY <2>2, CapType DEF IInv, CapRespected
<1>6. ASSUME NEW m \in Members
      PROVE  AttemptsFit(s[m], m)
  <2>1. CASE m = cursor
    <3>1. /\ attempts[m] <= MaxAttempts[m] /\ attempts[m] > 0
          /\ attempts[m] \in Nat /\ MaxAttempts[m] \in Nat
      BY <1>1, <2>1, AttemptsAssumption DEF IInv, CountsAgree, TypeOK
    <3>2. QED
      BY <1>2, <2>1, <3>1 DEF AttemptsFit, NotStarted
  <2>2. CASE m # cursor
    <3>1. s[m] = st[m]
      BY <1>2, <2>2
    <3>2. QED
      BY <3>1 DEF AttemptsFit, IInv, CountsAgree, In, NotStarted
  <2>3. QED
    BY <2>1, <2>2
<1>7. \A m \in Members : attempts[m] > 0 => DependenciesDone(s, m)
  BY <1>3 DEF IInv, DependenciesFirst, DependenciesDone
<1>8. ASSUME NEW m \in In(s, {"skipped"})
      PROVE  ~ Undoomed(s, m)
  <2>1. ~ Undoomed(st, m)
    BY <1>3 DEF IInv, SkipsJustified, Undoomed, Lost
  <2>2. QED
    BY <1>3, <2>1, DoomLasts
<1>9. Settled(s)
  BY <1>2, <1>3, <1>5, <1>6, <1>7, <1>8 DEF Settled
<1>10. ASSUME x # "failed"
       PROVE  Ready(s)
  <2>1. ASSUME NEW m \in In(s, NotStarted)
        PROVE  Undoomed(s, m)
    <3>1. Undoomed(st, m)
      BY <1>3 DEF IInv
    <3>2. Lost(s) \subseteq Lost(st) /\ In(s, {"failed"}) \subseteq In(st, {"failed"})
      BY <1>3, <1>10
    <3>3. QED
      BY <3>1, <3>2, DoomLasts
  <2>2. ASSUME NEW m \in In(s, {"pending"})
        PROVE  DependenciesDone(s, m)
    <3>1. DependenciesDone(st, cursor)
      BY <1>1 DEF IInv, CountsAgree, DependenciesFirst, DependenciesDone
    <3>2. DependenciesDone(st, m)
      BY <1>3, <3>1 DEF IInv
    <3>3. QED
      BY <1>3, <3>2 DEF DependenciesDone
  <2>3. QED
    BY <1>9, <2>1, <2>2 DEF Ready
<1>11. QED
  BY <1>4, <1>9, <1>10 DEF s

\* The invariant holds at the start.
LEMMA InitEstablishes == Init => IInv
<1> SUFFICES ASSUME Init
             PROVE  IInv
  OBVIOUS
<1>1. TypeOK
  BY NAssumption, OptionsAssumption DEF Init, TypeOK, States, NotStarted
<1>2. \A m \in Members : st[m] = "pending" /\ attempts[m] = 0 /\ MaxAttempts[m] \in Nat \ {0}
  BY AttemptsAssumption DEF Init
<1>3. /\ \A X \in SUBSET {"launching", "running", "completed", "failed", "skipped"} :
           In(st, X) = {}
      /\ Lost(st) = {}
  BY <1>2 DEF In, Lost
<1>4. CountsAgree
  BY <1>2, <1>3, NAssumption DEF CountsAgree, Init, Members
<1>5. CapRespected
  <2>1. In(st, {"launching", "running"}) = {}
    BY <1>3
  <2>2. QED
    BY <2>1, FS_EmptySet, CapType DEF CapRespected
<1>6. DependenciesFirst /\ SkipsJustified
  BY <1>2, <1>3 DEF DependenciesFirst, SkipsJustified
<1>7. ~ NonViable(st)
  <2>1. Cardinality(Lost(st)) = 0
    BY <1>3, FS_EmptySet
  <2>2. MinViable <= N /\ MinViable \in Int
    BY NAssumption, OptionsAssumption DEF MinViable, Smaller, Larger
  <2>3. QED
    BY <2>1, <2>2, NAssumption DEF NonViable, ViableCandidates, Lost
<1>8. \A m \in Members : Undoomed(st, m)
  BY <1>3, <1>7 DEF Undoomed
<1>9. \A m \in Members : attempts[m] < MaxAttempts[m]
  BY <1>2
<1>10. QED
  BY <1>1, <1>4, <1>5, <1>6, <1>8, <1>9 DEF IInv, In, Init

\* After a segment nothing is left to gate: the invariant is restored.
LEMMA SettleRestores ==
  ASSUME IInv, TypeOK', cursor # 0, NEW s, Ready(s), NEW act,
         act = Cardinality(In(s, {"running"})),
         Settle(s, act)
  PROVE  IInv'
<1>1. cursor + 1 \in Nat \ {0}
  BY NAssumption DEF IInv, TypeOK
<1>2. QED
  BY <1>1, LaunchRestores, EndRestores DEF Settle, IInv

\* One step per action.
LEMMA NextPreserves == IInv /\ TypeOK' /\ [Next]_vars => IInv'
<1> SUFFICES ASSUME IInv, TypeOK', [Next]_vars
             PROVE  IInv'
  OBVIOUS
<1>1. ASSUME NEW live, Pump(live)
      PROVE  IInv'
  <2>1. /\ Ready(Gated(Reconciled(live)))
        /\ In(Gated(Reconciled(live)), {"running"}) = In(Reconciled(live), {"running"})
    BY <1>1, ReconciledSettled, GatedReady DEF Pump, Settled
  <2>2. QED
    BY <1>1, <2>1, LaunchRestores, EndRestores DEF Pump, IInv
<1>2. CASE LaunchSucceeded
  <2> DEFINE s == [st EXCEPT ![cursor] = "running"]
  <2>1. Ready(s) /\ active + 1 = Cardinality(In(s, {"running"})) /\ cursor # 0
    BY <1>2, OutcomeSettled DEF LaunchSucceeded
  <2>2. Settle(s, active + 1)
    BY <1>2 DEF LaunchSucceeded
  <2> HIDE DEF s
  <2>3. QED
    BY <2>1, <2>2, SettleRestores
<1>3. CASE LaunchFailed
  <2>1. CASE attempts[cursor] < MaxAttempts[cursor]
    <3> DEFINE s == [st EXCEPT ![cursor] = "pending"]
    <3>1. Ready(s) /\ active = Cardinality(In(s, {"running"})) /\ cursor # 0
      BY <1>3, <2>1, OutcomeSettled DEF LaunchFailed
    <3>2. Settle(s, active)
      BY <1>3, <2>1 DEF LaunchFailed
    <3> HIDE DEF s
    <3>3. QED
      BY <3>1, <3>2, SettleRestores
  <2>2. CASE ~ (attempts[cursor] < MaxAttempts[cursor])
    <3> DEFINE s == [st EXCEPT ![cursor] = "failed"]
    <3>1. Settled(s) /\ active = Cardinality(In(s, {"running"})) /\ cursor # 0
      BY <1>3, <2>2, OutcomeSettled DEF LaunchFailed
    <3>2. Settle(Gated(s), active)
      BY <1>3, <2>2 DEF LaunchFailed
    <3> HIDE DEF s
    <3>3. Ready(Gated(s)) /\ active = Cardinality(In(Gated(s), {"running"}))
      BY <3>1, GatedReady DEF Settled
    <3>4. QED
      BY <3>1, <3>2, <3>3, SettleRestores
  <2>3. QED
    BY <2>1, <2>2
<1>4. CASE Tick
  BY <1>4 DEF Tick, IInv, CountsAgree, CapRespected, DependenciesFirst, SkipsJustified,
              Undoomed, NonViable, ViableCandidates, Lost, In, DependenciesDone
<1>5. CASE UNCHANGED vars
  BY <1>5 DEF vars, IInv, CountsAgree, CapRespected, DependenciesFirst, SkipsJustified,
              Undoomed, NonViable, ViableCandidates, Lost, In, DependenciesDone
<1>6. QED
  BY <1>1, <1>2, <1>3, <1>4, <1>5 DEF Next

\* The invariant holds in every state.
LEMMA Invariance == Spec => []IInv
BY TypeCorrect, InitEstablishes, NextPreserves, PTL DEF Spec

\* The pump's counts agree with the record across every await.
THEOREM CountsAlwaysAgree == Spec => []CountsAgree
BY Invariance, PTL DEF IInv

\* No more than Cap members hold a slot, for every cap and every set.
THEOREM CapAlwaysRespected == Spec => []CapRespected
BY Invariance, PTL DEF IInv

\* The engine's record is consistent across its awaits: well typed, its counts
\* agreeing with each other, and within the cap, for every graph and option.
THEOREM EngineAlwaysConsistent == Spec => []EngineConsistent
<1>1. IInv => EngineConsistent
  BY DEF IInv, EngineConsistent
<1>2. QED
  BY <1>1, Invariance, PTL

\* No member is launched before what it depends on completed.
THEOREM DependenciesAlwaysFirst == Spec => []DependenciesFirst
BY Invariance, PTL DEF IInv

\* What is skipped is skipped for a reason that stands.
THEOREM SkipsAlwaysJustified == Spec => []SkipsJustified
BY Invariance, PTL DEF IInv

\* And what waits has no reason to be skipped.
THEOREM NothingDoomedEverWaits == Spec => []NothingDoomedWaits
<1>1. IInv => NothingDoomedWaits
  BY DEF IInv, NothingDoomedWaits, Undoomed, Lost, In
<1>2. QED
  BY <1>1, Invariance, PTL

-----------------------------------------------------------------------------
(* What one step may do to a member, and the action properties.            *)

MemberMoves ==
  (NotStarted \X (NotStarted \cup {"skipped", "launching"}))
    \cup ({"launching"} \X {"pending", "running", "failed"})
    \cup {<<"running", "completed">>}

\* How a segment goes on from the states s: at most one member, at or after
\* from, becomes launching.
LEMMA SegmentMoves ==
  ASSUME TypeOK,
         NEW s \in StateFunctions, NEW from \in Nat \ {0}, NEW act, NEW sl, NEW since, NEW age,
         \/ LaunchNext(s, from, act, sl, since)
         \/ EndPump(s, from, act, sl, since, age)
  PROVE  \A m \in Members :
           \/ st'[m] = s[m]
           \/ m >= from /\ s[m] = "pending" /\ st'[m] = "launching"
<1>1. CASE LaunchNext(s, from, act, sl, since)
  BY <1>1, LaunchNextPicks DEF StateFunctions
<1>2. CASE EndPump(s, from, act, sl, since, age)
  BY <1>2 DEF EndPump
<1>3. QED
  BY <1>1, <1>2

\* What gating may do to a member.
LEMMA GatedMoves ==
  ASSUME NEW s, NEW m \in Members
  PROVE  \/ Gated(s)[m] = s[m]
         \/ s[m] \in NotStarted /\ Gated(s)[m] \in NotStarted \cup {"skipped"}
BY DEF Gated, NotStarted

\* The same for a segment that follows a settled launch.
LEMMA SettleMoves ==
  ASSUME IInv, cursor # 0, NEW x \in {"running", "pending", "failed"}, NEW act,
         NEW s \in StateFunctions,
         s = [st EXCEPT ![cursor] = x] \/ s = Gated([st EXCEPT ![cursor] = x]),
         x = "pending" => s = [st EXCEPT ![cursor] = x],
         Settle(s, act),
         NEW m \in Members
  PROVE  st'[m] = st[m] \/ <<st[m], st'[m]>> \in MemberMoves
<1> DEFINE t == [st EXCEPT ![cursor] = x]
<1>1. cursor \in Members /\ st[cursor] = "launching"
  <2>1. cursor \in Members
    BY NAssumption DEF IInv, TypeOK, Members
  <2>2. QED
    BY <2>1 DEF IInv, CountsAgree, In
<1>2. t \in StateFunctions /\ t[cursor] = x /\ (m # cursor => t[m] = st[m])
  BY <1>1, SettledStates DEF IInv, TypeOK, States, NotStarted, Terminal
<1> HIDE DEF t
<1>3. \/ s[m] = t[m]
      \/ t[m] \in NotStarted /\ s[m] \in NotStarted \cup {"skipped"} /\ x # "pending"
  BY GatedMoves DEF t
<1>4. \/ st'[m] = s[m]
      \/ m >= cursor + 1 /\ s[m] = "pending" /\ st'[m] = "launching"
  <2>1. cursor + 1 \in Nat \ {0}
    BY NAssumption DEF IInv, TypeOK
  <2>2. QED
    BY <2>1, SegmentMoves DEF Settle, IInv
<1>5. CASE m = cursor
  <2>1. st'[m] = s[m]
    BY <1>1, <1>4, <1>5, NAssumption DEF Members
  <2>2. s[m] = x
    BY <1>2, <1>3, <1>5 DEF NotStarted
  <2>3. QED
    BY <1>1, <1>5, <2>1, <2>2 DEF MemberMoves
<1>6. CASE m # cursor
  BY <1>2, <1>3, <1>4, <1>6 DEF MemberMoves, NotStarted
<1>7. QED
  BY <1>5, <1>6

\* Every step is one of the moves of a schedule.
LEMMA StepMoves ==
  ASSUME IInv, [Next]_vars, NEW m \in Members
  PROVE  st'[m] = st[m] \/ <<st[m], st'[m]>> \in MemberMoves
<1>1. ASSUME NEW live, Pump(live)
      PROVE  st'[m] = st[m] \/ <<st[m], st'[m]>> \in MemberMoves
  <2> DEFINE r == Reconciled(live)
             g == Gated(r)
             act == Cardinality(In(r, {"running"}))
  <2>1. g \in StateFunctions
    BY ReconciledType, GatedType DEF IInv
  <2>2. r[m] = st[m] \/ (st[m] = "running" /\ r[m] = "completed")
    BY DEF Reconciled
  <2>3. g[m] = r[m] \/ (r[m] \in NotStarted /\ g[m] \in NotStarted \cup {"skipped"})
    BY GatedMoves
  <2>4. st'[m] = g[m] \/ (g[m] = "pending" /\ st'[m] = "launching")
    <3>1. \/ LaunchNext(g, 1, act, sinceLaunch, sinceAttempt)
          \/ EndPump(g, 1, act, sinceLaunch, sinceAttempt, 0)
      BY <1>1 DEF Pump
    <3> HIDE DEF g, act
    <3>2. 1 \in Nat \ {0} /\ TypeOK
      BY DEF IInv
    <3>3. CASE LaunchNext(g, 1, act, sinceLaunch, sinceAttempt)
      BY ONLY <2>1, <3>2, <3>3, SegmentMoves, m \in Members
    <3>4. CASE EndPump(g, 1, act, sinceLaunch, sinceAttempt, 0)
      BY ONLY <2>1, <3>2, <3>4, SegmentMoves, m \in Members
    <3>5. QED
      BY <3>1, <3>3, <3>4
  <2> HIDE DEF g, r
  <2>5. QED
    BY <2>2, <2>3, <2>4 DEF MemberMoves, NotStarted
<1>2. CASE LaunchSucceeded
  <2>1. [st EXCEPT ![cursor] = "running"] \in StateFunctions
    BY <1>2, SettledStates DEF LaunchSucceeded, IInv, States
  <2>2. QED
    BY <1>2, <2>1, SettleMoves DEF LaunchSucceeded
<1>3. CASE LaunchFailed
  <2>1. /\ [st EXCEPT ![cursor] = "pending"] \in StateFunctions
        /\ Gated([st EXCEPT ![cursor] = "failed"]) \in StateFunctions
    BY <1>3, SettledStates, GatedType DEF LaunchFailed, IInv, States, NotStarted, Terminal
  <2>2. QED
    BY <1>3, <2>1, SettleMoves DEF LaunchFailed
<1>4. CASE Tick \/ UNCHANGED vars
  BY <1>4 DEF Tick, vars
<1>5. QED
  BY <1>1, <1>2, <1>3, <1>4 DEF Next

\* Losses only accumulate, so that a verdict is never withdrawn.
LEMMA VerdictLatches ==
  ASSUME IInv, [Next]_vars, NonViable(st)
  PROVE  NonViable(st')
<1>1. Lost(st) \subseteq Lost(st')
  BY StepMoves DEF Lost, In, MemberMoves, NotStarted
<1>2. /\ Cardinality(Lost(st)) <= Cardinality(Lost(st'))
      /\ Cardinality(Lost(st)) \in Nat /\ Cardinality(Lost(st')) \in Nat
  BY <1>1, CardinalityGrows, MembersFinite DEF Lost, In
<1>3. MinViable \in Int
  BY NAssumption, OptionsAssumption DEF MinViable, Smaller, Larger
<1>4. QED
  BY <1>2, <1>3, NAssumption DEF NonViable, ViableCandidates, Lost

\* A set that is past its threshold stays so: the verdict callers drain on is
\* never withdrawn.
THEOREM NonViableAlwaysLatches == Spec => NonViableLatches
<1>1. IInv /\ [Next]_vars /\ NonViable(st) => NonViable(st')
  BY VerdictLatches
<1>2. QED
  BY <1>1, Invariance, PTL DEF Spec, NonViableLatches

\* What launch spacing rests on: the throttle's clock never runs ahead of the
\* time since the last launch call, in a pump or between pumps.
SpacingInv ==
  /\ TypeOK
  /\ cursor = 0 => sinceLaunch <= sinceBegin
  /\ cursor # 0 /\ LaunchDelay > 0 => Smaller(pumpAge, LaunchDelay) <= sinceBegin

\* A step keeps the ages in step with the real time of the last launch.
LEMMA SpacingStep ==
  ASSUME SpacingInv, TypeOK', [Next]_vars
  PROVE  SpacingInv' /\ (attempts' # attempts => sinceBegin >= LaunchDelay)
<1> USE OptionsAssumption
<1>1. ASSUME NEW live, Pump(live)
      PROVE  SpacingInv' /\ (attempts' # attempts => sinceBegin >= LaunchDelay)
  <2> DEFINE g == Gated(Reconciled(live))
             act == Cardinality(In(Reconciled(live), {"running"}))
  <2>1. \/ LaunchNext(g, 1, act, sinceLaunch, sinceAttempt) /\ pumpAge' = 0
        \/ EndPump(g, 1, act, sinceLaunch, sinceAttempt, 0)
    BY <1>1 DEF Pump
  <2>2. cursor = 0
    BY <1>1 DEF Pump
  <2>3. g \in StateFunctions
    BY ReconciledType, GatedType DEF SpacingInv
  <2> HIDE DEF g, act
  <2>4. CASE LaunchNext(g, 1, act, sinceLaunch, sinceAttempt) /\ pumpAge' = 0
    <3>1. sinceLaunch >= LaunchDelay /\ cursor' \in Members
      BY <2>3, <2>4, LaunchNextPicks DEF SpacingInv
    <3>2. sinceBegin' = 0
      BY <2>4 DEF LaunchNext
    <3>3. sinceBegin >= LaunchDelay
      BY <2>2, <3>1 DEF SpacingInv, TypeOK
    <3>4. cursor' # 0 /\ pumpAge' = 0
      BY <2>4, <3>1, NAssumption DEF Members
    <3>5. SpacingInv'
      BY <3>2, <3>4 DEF SpacingInv, Smaller
    <3>6. QED
      BY <3>3, <3>5
  <2>5. CASE EndPump(g, 1, act, sinceLaunch, sinceAttempt, 0)
    BY <2>2, <2>5 DEF EndPump, SpacingInv, TypeOK, Smaller
  <2>6. QED
    BY <2>1, <2>4, <2>5
<1>2. ASSUME NEW s \in StateFunctions, NEW act, cursor # 0, Settle(s, act)
      PROVE  SpacingInv' /\ (attempts' # attempts => sinceBegin >= LaunchDelay)
  <2> DEFINE since == [sinceAttempt EXCEPT ![cursor] = 0]
  <2>1. \/ LaunchNext(s, cursor + 1, act, 0, since)
        \/ EndPump(s, cursor + 1, act, 0, since, pumpAge)
    BY <1>2 DEF Settle
  <2> HIDE DEF since
  <2>2. CASE LaunchNext(s, cursor + 1, act, 0, since)
    <3>1. cursor + 1 \in Nat \ {0}
      BY NAssumption DEF SpacingInv, TypeOK
    <3>2. 0 >= LaunchDelay /\ cursor' \in Members
      BY <2>2, <3>1, LaunchNextPicks DEF SpacingInv
    <3>3. LaunchDelay = 0
      BY <3>2
    <3>4. cursor' # 0
      BY <3>2, NAssumption DEF Members
    <3>5. sinceBegin >= LaunchDelay
      BY <3>3, OptionsAssumption DEF SpacingInv, TypeOK
    <3>6. QED
      BY <3>3, <3>4, <3>5 DEF SpacingInv
  <2>3. CASE EndPump(s, cursor + 1, act, 0, since, pumpAge)
    BY <1>2, <2>3 DEF EndPump, SpacingInv, TypeOK, Smaller
  <2>4. QED
    BY <2>1, <2>2, <2>3
<1>3. CASE LaunchSucceeded
  <2>1. [st EXCEPT ![cursor] = "running"] \in StateFunctions
    BY <1>3, SettledStates DEF LaunchSucceeded, SpacingInv, States
  <2>2. QED
    BY <1>2, <1>3, <2>1 DEF LaunchSucceeded
<1>4. CASE LaunchFailed
  <2>1. /\ [st EXCEPT ![cursor] = "pending"] \in StateFunctions
        /\ Gated([st EXCEPT ![cursor] = "failed"]) \in StateFunctions
    BY <1>4, SettledStates, GatedType DEF LaunchFailed, SpacingInv, States, NotStarted, Terminal
  <2>2. QED
    BY <1>2, <1>4, <2>1 DEF LaunchFailed
<1>5. CASE Tick
  <2>1. attempts' = attempts /\ cursor' = cursor
    BY <1>5 DEF Tick
  <2>2. CASE cursor = 0
    BY <1>5, <2>1, <2>2 DEF Tick, SpacingInv, TypeOK, Smaller
  <2>3. CASE cursor # 0
    BY <1>5, <2>1, <2>3 DEF Tick, SpacingInv, TypeOK, Smaller, Larger
  <2>4. QED
    BY <2>2, <2>3
<1>6. CASE UNCHANGED vars
  BY <1>6 DEF vars, SpacingInv, TypeOK, Smaller
<1>7. QED
  BY <1>1, <1>3, <1>4, <1>5, <1>6 DEF Next

\* Launch calls keep their distance, however long each takes to answer and
\* whichever pump makes them.
THEOREM LaunchesAlwaysSpaced == Spec => LaunchSpacing
<1>1. Init => SpacingInv
  BY NAssumption, OptionsAssumption DEF Init, SpacingInv, TypeOK, States, NotStarted
<1>2. SpacingInv /\ TypeOK' /\ [Next]_vars
        => SpacingInv' /\ (attempts' # attempts => sinceBegin >= LaunchDelay)
  BY SpacingStep
<1>3. QED
  BY <1>1, <1>2, TypeCorrect, PTL DEF Spec, LaunchSpacing

-----------------------------------------------------------------------------
(* The engine implements the schedule its users are promised.              *)

\* JobDag counts as FanOut does.
LEMMA DagCardinality == \A S : Dag!Cardinality(S) = Cardinality(S)
BY DEF Dag!Cardinality, Cardinality
\* The abstract status of a member, the abstract sets and the abstract reason
\* to be skipped, read off st.
DagAgrees ==
  /\ DagStatus \in [Members -> {"waiting", "active", "done", "failed", "skipped"}]
  /\ \A m \in Members :
       /\ DagStatus[m] = "waiting" <=> st[m] \in NotStarted
       /\ DagStatus[m] = "active" <=> st[m] \in {"launching", "running"}
       /\ DagStatus[m] = "done" <=> st[m] = "completed"
       /\ DagStatus[m] = "failed" <=> st[m] = "failed"
       /\ DagStatus[m] = "skipped" <=> st[m] = "skipped"
       /\ Dag!Doomed(DagStatus, m) <=> ~ Undoomed(st, m)
  /\ Dag!Of(DagStatus, {"active"}) = In(st, {"launching", "running"})
  /\ Dag!Of(DagStatus, {"done"}) = In(st, {"completed"})

\* What the schedule asks of its statuses is asked of the engine's states.
LEMMA DagReadsSt == TypeOK => DagAgrees
<1> SUFFICES ASSUME TypeOK
             PROVE  DagAgrees
  OBVIOUS
<1>1. DagStatus \in [Members -> {"waiting", "active", "done", "failed", "skipped"}]
  BY DEF DagStatus, TypeOK, States, NotStarted, Terminal
<1>2. \A m \in Members :
        /\ DagStatus[m] = "waiting" <=> st[m] \in NotStarted
        /\ DagStatus[m] = "active" <=> st[m] \in {"launching", "running"}
        /\ DagStatus[m] = "done" <=> st[m] = "completed"
        /\ DagStatus[m] = "failed" <=> st[m] = "failed"
        /\ DagStatus[m] = "skipped" <=> st[m] = "skipped"
  BY DEF DagStatus, NotStarted, TypeOK, States, Terminal
<1>3. /\ Dag!Of(DagStatus, {"active"}) = In(st, {"launching", "running"})
      /\ Dag!Of(DagStatus, {"done"}) = In(st, {"completed"})
      /\ Dag!Of(DagStatus, {"failed"}) = In(st, {"failed"})
      /\ Dag!Lost(DagStatus) = Lost(st)
  BY <1>2 DEF Dag!Of, Dag!Lost, In, Lost
<1>4. \A m \in Members : Dag!Doomed(DagStatus, m) <=> ~ Undoomed(st, m)
  BY <1>3, MembersFinite, DagCardinality
     DEF Dag!Doomed, Dag!Over, Undoomed, NonViable, ViableCandidates, Lost
<1>5. QED
  BY <1>1, <1>2, <1>3, <1>4 DEF DagAgrees

\* Every step of the engine is a step of the schedule or a stutter.
LEMMA DagStep ==
  ASSUME IInv, IInv', [Next]_vars
  PROVE  Dag!Step
<1>1. DagAgrees
  BY DagReadsSt DEF IInv
<1>2. DagAgrees'
  <2>1. (TypeOK => DagAgrees)'
    BY DagReadsSt, PTL
  <2>2. QED
    BY <2>1 DEF IInv
<1>3. DagStatus' \in [Members -> {"waiting", "active", "done", "failed", "skipped"}]
  BY <1>2 DEF DagAgrees
<1>4. ASSUME NEW m \in Members
      PROVE  DagStatus'[m] = DagStatus[m] \/ <<DagStatus[m], DagStatus'[m]>> \in Dag!Moves
  <2>1. CASE st'[m] = st[m]
    BY <2>1 DEF DagStatus
  <2>2. CASE <<st[m], st'[m]>> \in MemberMoves
    BY <2>2 DEF DagStatus, MemberMoves, NotStarted, Dag!Moves
  <2>3. QED
    BY <2>1, <2>2, StepMoves
<1>5. Dag!Cardinality(Dag!Of(DagStatus', {"active"})) <= Cap
  BY <1>2, DagCardinality DEF DagAgrees, IInv, CapRespected
<1>6. ASSUME NEW m \in Members, DagStatus[m] = "waiting", DagStatus'[m] = "active"
      PROVE  DependsOn[m] \subseteq Dag!Of(DagStatus', {"done"}) /\ ~ Dag!Doomed(DagStatus', m)
  <2>1. st[m] \in NotStarted /\ st'[m] \in {"launching", "running"}
    BY <1>1, <1>2, <1>6 DEF DagAgrees
  <2>2. st'[m] = "launching"
    BY <2>1, StepMoves DEF MemberMoves, NotStarted
  <2>3. attempts'[m] > 0 /\ Undoomed(st', m)
    BY <2>2 DEF IInv, CountsAgree, In
  <2>4. DependsOn[m] \subseteq In(st', {"completed"})
    BY <2>3 DEF IInv, DependenciesFirst
  <2>5. QED
    BY <1>2, <2>3, <2>4 DEF DagAgrees
<1>7. ASSUME NEW m \in Members, DagStatus'[m] = "waiting"
      PROVE  ~ Dag!Doomed(DagStatus', m)
  <2>1. m \in In(st', NotStarted \cup {"launching"})
    BY <1>2, <1>7 DEF DagAgrees, In
  <2>2. QED
    BY <1>2, <2>1 DEF DagAgrees, IInv
<1>8. ASSUME NEW m \in Members, DagStatus'[m] = "skipped"
      PROVE  Dag!Doomed(DagStatus', m)
  <2>1. m \in In(st', {"skipped"})
    BY <1>2, <1>8 DEF DagAgrees, In
  <2>2. ~ Undoomed(st', m)
    BY <2>1 DEF IInv, SkipsJustified, Undoomed, Lost
  <2>3. QED
    BY <1>2, <2>2 DEF DagAgrees
<1>9. QED
  BY <1>3, <1>4, <1>5, <1>6, <1>7, <1>8 DEF Dag!Step

\* Whatever a user is promised of a job graph, the engine keeps, for every
\* graph, cap, policy and threshold, any list it is shown and any failure.
THEOREM EngineImplementsDag == Spec => ImplementsDag
<1>1. Init => Dag!Init
  BY DEF Init, Dag!Init, DagStatus, NotStarted
<1>2. IInv /\ IInv' /\ [Next]_vars => [Dag!Step]_DagStatus
  BY DagStep
<1>3. QED
  BY <1>1, <1>2, Invariance, PTL DEF Spec, ImplementsDag, Dag!Spec

-----------------------------------------------------------------------------
(* The client.                                                             *)

RunningInstances == {InstanceOf(m) : m \in In(st, {"running"})}

\* The engine looks only at the instances of its running members, so a list
\* with anything else in it is one of those Next allows.
LEMMA OnlyOwnInstancesCount ==
  ASSUME NEW live, Pump(live)
  PROVE  \E own \in SUBSET RunningInstances : Pump(own)
<1> DEFINE own == live \cap RunningInstances
<1>1. \A m \in Members :
        st[m] = "running" => (InstanceOf(m) \in own <=> InstanceOf(m) \in live)
  BY DEF In, RunningInstances
<1>2. Reconciled(own) = Reconciled(live)
  BY <1>1 DEF Reconciled
<1>3. Pump(own)
  BY <1>2 DEF Pump
<1>4. own \in SUBSET RunningInstances
  OBVIOUS
<1> HIDE DEF own
<1>5. QED
  BY <1>3, <1>4

\* Every step of the client is a step of the engine or leaves it alone.
LEMMA ClientStepIsEngineStep ==
  ASSUME [ClientNext]_allVars
  PROVE  [Next]_vars
<1>1. CASE UNCHANGED allVars
  BY <1>1 DEF allVars
<1>2. CASE PumpStep
  BY <1>2, OnlyOwnInstancesCount DEF PumpStep, Next, RunningInstances
<1>3. CASE LaunchProgress
  BY <1>3 DEF LaunchProgress, LaunchRefused, InstanceCreated, ListServed, ListFailed, Retire, Next
<1>4. CASE OtherRead
  BY <1>4 DEF OtherRead
<1>5. CASE \E k \in DOMAIN reads : ApplyRead(k)
  BY <1>5 DEF ApplyRead, Next
<1>6. CASE \E i \in Instances : Ends(i) \/ Restarts(i)
  BY <1>6 DEF Ends, Restarts
<1>7. CASE TimePasses
  BY <1>7 DEF TimePasses, Next
<1>8. QED
  BY <1>1, <1>2, <1>3, <1>4, <1>5, <1>6, <1>7 DEF ClientNext

\* The client implements the engine's specification, for every provider
\* behaviour the constants allow: lists in any order, restarts, leaks.
THEOREM ClientImplementsEngine == ClientSpec => ImplementsEngine
<1>1. ClientInit => Init
  BY DEF ClientInit
<1>2. [ClientNext]_allVars => [Next]_vars
  BY ClientStepIsEngineStep
<1>3. QED
  BY <1>1, <1>2, PTL DEF ClientSpec, Spec, ImplementsEngine

-----------------------------------------------------------------------------
(* The orderly world: the inductive invariant.                             *)

\* What the mock provider and a launch without keepOnError give: see the
\* constants of SpawnFanOut.
Orderly ==
  /\ FifoReads
  /\ KeepOnError = {}
  /\ ~ RetireMayFail
  /\ ~ MayRestart

\* Lists on their way, asked for by a launch, by others or by the callers.
ListsOf(callers) == [by : {"launch", "other"} \cup callers, snap : SUBSET Instances]

\* No instance of an attempt yet to come exists; that of the attempt under way
\* does not until it is created; a running one belongs to a member that has it.
InstancesFit ==
  \A i \in Instances :
    /\ i[2] > attempts[i[1]] => world[i] = "none"
    /\ stage = "creating" /\ i = Current => world[i] = "none"
    /\ world[i] = "running" => i \in Tracked

\* The list the client keeps, and every list that will replace it, shows the
\* live instances of the running members: no pump takes a live one for ended.
RunningAreListed ==
  \A m \in In(st, {"running"}) :
    InstanceOf(m) \in Live =>
      /\ InstanceOf(m) \in listed
      /\ \A k \in DOMAIN reads : InstanceOf(m) \in reads[k].snap

\* A launch has one list on its way while it refreshes, and none otherwise;
\* that list and the later ones show the instance it created, if that lives.
LaunchListFits ==
  /\ stage # "refreshing" => \A k \in DOMAIN reads : reads[k].by # "launch"
  /\ stage = "refreshing" =>
       \E p \in DOMAIN reads :
         /\ reads[p].by = "launch"
         /\ \A k \in DOMAIN reads :
              /\ reads[k].by = "launch" => k = p
              /\ k >= p /\ Current \in Live => Current \in reads[k].snap

ClientTypes(callers) ==
  /\ world \in [Instances -> {"none", "running", "stopped", "terminated"}]
  /\ listed \subseteq Instances
  /\ reads \in Seq(ListsOf(callers))
  /\ stage \in {"idle", "creating", "listing", "refreshing", "retiring"}
  /\ (stage = "idle") = (cursor = 0)

ClientInv(callers) ==
  IInv /\ ClientTypes(callers) /\ InstancesFit /\ RunningAreListed /\ LaunchListFits
-----------------------------------------------------------------------------
(* What the segments and the lists do.                                     *)

\* An instance is an attempt of a member; the latest attempt of a member that
\* made one is an instance.
LEMMA InstanceFacts ==
  /\ \A i \in Instances : i[1] \in Members /\ i[2] \in Nat /\ i = <<i[1], i[2]>>
  /\ IInv => \A m \in Members : attempts[m] > 0 => InstanceOf(m) \in Instances
<1>1. \A m \in Members : MaxAttempts[m] \in Nat
  BY AttemptsAssumption
<1>2. ASSUME NEW i \in Instances
      PROVE  i[1] \in Members /\ i[2] \in Nat /\ i = <<i[1], i[2]>>
  <2>1. PICK m \in Members : i \in {m} \X (1 .. MaxAttempts[m])
    BY DEF Instances
  <2>2. QED
    BY <2>1, <1>1
<1>3. ASSUME IInv, NEW m \in Members, attempts[m] > 0
      PROVE  InstanceOf(m) \in Instances
  <2>1. attempts[m] \in 1 .. MaxAttempts[m]
    BY <1>1, <1>3 DEF IInv, TypeOK, CountsAgree
  <2>2. InstanceOf(m) \in {m} \X (1 .. MaxAttempts[m])
    BY <2>1 DEF InstanceOf
  <2>3. QED
    BY <2>2 DEF Instances
<1>4. QED
  BY <1>2, <1>3

\* The list that arrives is the oldest, and the others keep their order.
LEMMA OldestTaken ==
  ASSUME NEW S, NEW q \in Seq(S), 1 \in DOMAIN q
  PROVE  /\ RemoveAt(q, 1) \in Seq(S)
         /\ DOMAIN RemoveAt(q, 1) = {k \in Nat : k >= 1 /\ k + 1 \in DOMAIN q}
         /\ \A k \in DOMAIN RemoveAt(q, 1) : RemoveAt(q, 1)[k] = q[k + 1]
<1> DEFINE a == SubSeq(q, 1, 1 - 1)
           b == SubSeq(q, 1 + 1, Len(q))
<1>1. Len(q) \in Nat /\ Len(q) >= 1 /\ DOMAIN q = 1 .. Len(q)
  OBVIOUS
<1>2. a \in Seq(S) /\ Len(a) = 0
  BY <1>1
<1>3. b \in Seq(S) /\ Len(b) = Len(q) - 1 /\ \A k \in 1 .. Len(b) : b[k] = q[k + 1]
  BY <1>1
<1>4. RemoveAt(q, 1) = a \o b
  BY DEF RemoveAt
<1> HIDE DEF a, b
<1>5. a \o b \in Seq(S) /\ Len(a \o b) = Len(a) + Len(b)
  BY <1>2, <1>3
<1>6. Len(a \o b) = Len(q) - 1
  BY <1>1, <1>2, <1>3, <1>5
<1>7. ASSUME NEW k \in 1 .. Len(b)
      PROVE  (a \o b)[k] = b[k]
  <2>1. k \in 1 .. (Len(a) + Len(b)) /\ ~ (k <= Len(a)) /\ k - Len(a) = k
    BY <1>1, <1>2, <1>3
  <2>2. QED
    BY <1>2, <1>3, <2>1
<1>8. \A k \in 1 .. Len(b) : (a \o b)[k] = q[k + 1]
  BY <1>3, <1>7
<1>9. DOMAIN (a \o b) = 1 .. Len(b)
  <2>1. DOMAIN (a \o b) = 1 .. Len(a \o b)
    BY <1>5
  <2>2. Len(a \o b) = Len(b)
    BY <1>3, <1>6
  <2>3. QED
    BY <2>1, <2>2
<1>10. 1 .. Len(b) = {k \in Nat : k >= 1 /\ k + 1 \in DOMAIN q}
  BY <1>1, <1>3
<1>11. QED
  BY <1>4, <1>5, <1>8, <1>9, <1>10

\* A list that is asked for last arrives last.
LEMMA NewestAdded ==
  ASSUME NEW S, NEW q \in Seq(S), NEW x \in S
  PROVE  /\ Append(q, x) \in Seq(S)
         /\ DOMAIN Append(q, x) = DOMAIN q \cup {Len(q) + 1}
         /\ Append(q, x)[Len(q) + 1] = x
         /\ \A k \in DOMAIN q : Append(q, x)[k] = q[k] /\ k < Len(q) + 1
OBVIOUS
\* What a segment of a pump does to the record, as far as instances go: the
\* next member launched makes its next attempt, and the members of `up` are
\* those it leaves running.
Moved(up) ==
  \A m \in Members :
    /\ attempts'[m] = IF m = cursor' THEN attempts[m] + 1 ELSE attempts[m]
    /\ m = cursor' => st[m] \in NotStarted
    /\ st'[m] = "launching" <=> m = cursor'
    /\ st'[m] = "running" <=> m \in up

\* Where the loop goes on, and the attempt it makes.
LEMMA SegmentAttempts ==
  ASSUME TypeOK,
         NEW s \in StateFunctions, NEW from \in Nat \ {0}, NEW act, NEW sl, NEW since, NEW age,
         \/ LaunchNext(s, from, act, sl, since)
         \/ EndPump(s, from, act, sl, since, age)
  PROVE  /\ \A m \in Members :
              /\ attempts'[m] = IF m = cursor' THEN attempts[m] + 1 ELSE attempts[m]
              /\ m = cursor' => m >= from /\ s[m] = "pending"
              /\ st'[m] = "running" <=> s[m] = "running"
<1>1. CASE LaunchNext(s, from, act, sl, since)
  BY <1>1, LaunchNextPicks DEF StateFunctions, TypeOK
<1>2. CASE EndPump(s, from, act, sl, since, age)
  <2>1. cursor' = 0 /\ attempts' = attempts /\ st' = s /\ \A m \in Members : m # 0
    BY <1>2, NAssumption DEF EndPump, Members
  <2>2. QED
    BY <2>1
<1>3. QED
  BY <1>1, <1>2

\* A pump leaves running those whose instance its list shows live.
LEMMA PumpMoves ==
  ASSUME IInv, IInv', NEW live, Pump(live)
  PROVE  Moved({m \in In(st, {"running"}) : InstanceOf(m) \in live})
<1> DEFINE r == Reconciled(live)
           g == Gated(r)
           act == Cardinality(In(r, {"running"}))
<1>1. g \in StateFunctions
  BY ReconciledType, GatedType DEF IInv
<1>2. \A m \in Members : r[m] = IF st[m] = "running" /\ InstanceOf(m) \notin live
                                THEN "completed" ELSE st[m]
  BY DEF Reconciled
<1>3. \A m \in Members :
        g[m] = r[m] \/ (r[m] \in NotStarted /\ g[m] \in NotStarted \cup {"skipped"})
  BY GatedMoves
<1>4. \/ LaunchNext(g, 1, act, sinceLaunch, sinceAttempt)
      \/ EndPump(g, 1, act, sinceLaunch, sinceAttempt, 0)
  BY DEF Pump
<1>5. TypeOK /\ 1 \in Nat \ {0}
  BY DEF IInv
<1> HIDE DEF r, g, act
<1>6. \A m \in Members :
        /\ attempts'[m] = IF m = cursor' THEN attempts[m] + 1 ELSE attempts[m]
        /\ m = cursor' => g[m] = "pending"
        /\ st'[m] = "running" <=> g[m] = "running"
  BY <1>1, <1>4, <1>5, SegmentAttempts
<1>7. \A m \in Members : st'[m] = "launching" <=> m = cursor'
  BY DEF IInv, CountsAgree, In
<1>8. \A m \in Members : g[m] = "running" <=> r[m] = "running"
  BY <1>3 DEF NotStarted
<1>9. \A m \in Members : g[m] = "pending" => st[m] \in NotStarted
  BY <1>2, <1>3 DEF NotStarted
<1>10. \A m \in Members : r[m] = "running" <=> st[m] = "running" /\ InstanceOf(m) \in live
  BY <1>2
<1>11. QED
  BY <1>6, <1>7, <1>8, <1>9, <1>10 DEF Moved, In

\* The member whose launch is in flight.
LEMMA InFlight ==
  ASSUME IInv, cursor # 0
  PROVE  cursor \in Members /\ st[cursor] = "launching" /\ attempts[cursor] > 0
<1>1. cursor \in Members
  BY NAssumption DEF IInv, TypeOK, Members
<1>2. QED
  BY <1>1 DEF IInv, CountsAgree, In

\* A settled launch leaves running those that were, and its own if it succeeded.
LEMMA SettledMoves ==
  ASSUME IInv, IInv', cursor # 0,
         NEW x \in {"running", "pending", "failed"}, NEW act, NEW s \in StateFunctions,
         s = [st EXCEPT ![cursor] = x] \/ s = Gated([st EXCEPT ![cursor] = x]),
         Settle(s, act)
  PROVE  Moved(In(st, {"running"}) \cup (IF x = "running" THEN {cursor} ELSE {}))
<1> DEFINE t == [st EXCEPT ![cursor] = x]
<1>1. cursor \in Members /\ st[cursor] = "launching"
  BY InFlight
<1>2. \A m \in Members : t[m] = IF m = cursor THEN x ELSE st[m]
  BY <1>1 DEF IInv, TypeOK
<1> HIDE DEF t
<1>3. \A m \in Members :
        s[m] = t[m] \/ (t[m] \in NotStarted /\ s[m] \in NotStarted \cup {"skipped"})
  BY GatedMoves DEF t
<1>4. TypeOK /\ cursor + 1 \in Nat \ {0}
  BY NAssumption DEF IInv, TypeOK
<1>5. \A m \in Members :
        /\ attempts'[m] = IF m = cursor' THEN attempts[m] + 1 ELSE attempts[m]
        /\ m = cursor' => m >= cursor + 1 /\ s[m] = "pending"
        /\ st'[m] = "running" <=> s[m] = "running"
  BY <1>4, SegmentAttempts DEF Settle
<1>6. \A m \in Members : st'[m] = "launching" <=> m = cursor'
  BY DEF IInv, CountsAgree, In
<1>7. \A m \in Members : m = cursor' => m # cursor
  BY <1>5, NAssumption DEF Members
<1>8. \A m \in Members : m = cursor' => st[m] \in NotStarted
  BY <1>2, <1>3, <1>5, <1>7 DEF NotStarted
<1>9. \A m \in Members : s[m] = "running" <=> t[m] = "running"
  BY <1>3 DEF NotStarted
<1>10. \A m \in Members :
         t[m] = "running" <=> m \in In(st, {"running"}) \cup (IF x = "running" THEN {cursor} ELSE {})
  BY <1>1, <1>2 DEF In
<1>11. QED
  BY <1>5, <1>6, <1>8, <1>9, <1>10 DEF Moved

\* A launch that succeeds is one of the moves above.
LEMMA SuccessMoves ==
  ASSUME IInv, IInv', LaunchSucceeded
  PROVE  cursor # 0 /\ Moved(In(st, {"running"}) \cup {cursor})
<1>1. [st EXCEPT ![cursor] = "running"] \in StateFunctions /\ cursor # 0
  BY SettledStates DEF LaunchSucceeded, IInv, States
<1>2. QED
  BY <1>1, SettledMoves DEF LaunchSucceeded

\* So is one that fails.
LEMMA FailureMoves ==
  ASSUME IInv, IInv', LaunchFailed
  PROVE  cursor # 0 /\ Moved(In(st, {"running"}))
<1>1. /\ [st EXCEPT ![cursor] = "pending"] \in StateFunctions
      /\ Gated([st EXCEPT ![cursor] = "failed"]) \in StateFunctions
      /\ cursor # 0
  BY SettledStates, GatedType DEF LaunchFailed, IInv, States, NotStarted, Terminal
<1>2. Moved(In(st, {"running"}) \cup {})
  BY <1>1, SettledMoves DEF LaunchFailed
<1>3. In(st, {"running"}) \cup {} = In(st, {"running"})
  OBVIOUS
<1>4. QED
  BY <1>1, <1>2, <1>3
-----------------------------------------------------------------------------
(* Each step of the client, in an orderly world, restores the invariant.   *)

\* After a segment: the instances.
LEMMA SegmentKeepsInstances ==
  ASSUME NEW callers, ClientInv(callers), NEW up, Moved(up),
         \A i \in Instances :
           /\ i[2] > attempts[i[1]] => world'[i] = "none"
           /\ world'[i] = "running" => i[1] \in up /\ i = InstanceOf(i[1])
  PROVE  InstancesFit'
<1> SUFFICES ASSUME NEW i \in Instances
             PROVE  /\ i[2] > attempts'[i[1]] => world'[i] = "none"
                    /\ (stage = "creating" /\ i = Current)' => world'[i] = "none"
                    /\ world'[i] = "running" => i \in Tracked'
  BY DEF InstancesFit
<1> DEFINE m == i[1]
<1>1. m \in Members /\ i[2] \in Nat /\ i = <<m, i[2]>>
  BY InstanceFacts
<1>2. attempts[m] \in Nat /\ attempts'[m] = IF m = cursor' THEN attempts[m] + 1 ELSE attempts[m]
  BY <1>1 DEF ClientInv, IInv, TypeOK, Moved
<1>3. i[2] > attempts[m] => world'[i] = "none"
  OBVIOUS
<1>4. i[2] > attempts'[m] => world'[i] = "none"
  BY <1>1, <1>2, <1>3
<1>5. (i = Current)' => world'[i] = "none"
  <2>1. (i = Current)' => m = cursor' /\ i[2] = attempts'[m]
    BY <1>1 DEF Current, InstanceOf
  <2>2. QED
    BY <1>1, <1>2, <1>3, <2>1
<1>6. ASSUME world'[i] = "running"
      PROVE  i \in Tracked'
  <2>1. m \in up /\ i = InstanceOf(m)
    BY <1>6
  <2>2. st'[m] = "running" /\ m # cursor'
    BY <1>1, <2>1 DEF Moved
  <2>3. i = InstanceOf(m)'
    BY <1>2, <2>1, <2>2 DEF InstanceOf
  <2>4. m \in In(st, {"launching", "running"})'
    BY <1>1, <2>2 DEF In
  <2>5. QED
    BY <2>3, <2>4 DEF Tracked
<1>7. QED
  BY <1>4, <1>5, <1>6

\* After a segment: the lists.
LEMMA SegmentKeepsLists ==
  ASSUME NEW callers, ClientInv(callers), NEW up \in SUBSET Members, Moved(up),
         \A m \in up :
           InstanceOf(m) \in Live' =>
             /\ InstanceOf(m) \in listed'
             /\ \A k \in DOMAIN reads' : InstanceOf(m) \in reads'[k].snap
  PROVE  RunningAreListed'
<1>1. ASSUME NEW m \in In(st, {"running"})'
      PROVE  m \in up /\ InstanceOf(m)' = InstanceOf(m)
  <2>1. m \in Members /\ st'[m] = "running"
    BY <1>1 DEF In
  <2>2. m \in up /\ m # cursor'
    BY <2>1 DEF Moved
  <2>3. attempts'[m] = attempts[m]
    BY <2>1, <2>2 DEF Moved
  <2>4. QED
    BY <2>2, <2>3 DEF InstanceOf
<1>2. QED
  BY <1>1 DEF RunningAreListed

\* While no launch is refreshing, no list of one is on its way.
LEMMA NoLaunchList ==
  ASSUME stage' # "refreshing",
         \A k \in DOMAIN reads' : reads'[k].by # "launch"
  PROVE  LaunchListFits'
BY DEF LaunchListFits

\* A running instance is that of a member that runs, or the one in flight.
LEMMA RunningInstance ==
  ASSUME NEW callers, ClientInv(callers), NEW i \in Live
  PROVE  /\ i \in Instances /\ i = InstanceOf(i[1]) /\ i[1] \in Members
         /\ st[i[1]] = "running" \/ (cursor # 0 /\ i[1] = cursor /\ i = Current)
<1>1. i \in Tracked /\ i \in Instances
  BY DEF ClientInv, InstancesFit, Live
<1>2. PICK m \in In(st, {"launching", "running"}) : i = InstanceOf(m)
  BY <1>1 DEF Tracked
<1>3. i[1] = m /\ m \in Members /\ m # 0
  BY <1>2, NAssumption DEF InstanceOf, In, Members
<1>4. st[m] = "launching" => m = cursor
  BY <1>3 DEF ClientInv, IInv, CountsAgree, In
<1>5. QED
  BY <1>1, <1>2, <1>3, <1>4 DEF In, Current

\* A pump is shown the list of the client, in which every running instance is.
LEMMA PumpStepKeeps ==
  ASSUME NEW callers, ClientInv(callers), IInv', PumpStep
  PROVE  ClientInv(callers)'
<1> DEFINE up == {m \in In(st, {"running"}) : InstanceOf(m) \in listed}
<1>1. Moved(up) /\ up \in SUBSET Members
  BY PumpMoves DEF ClientInv, PumpStep, In
<1>2. /\ cursor = 0 /\ stage = "idle" /\ stage' = IF cursor' = 0 THEN "idle" ELSE "creating"
      /\ UNCHANGED <<world, listed, reads>>
  BY DEF PumpStep, Pump, NextStage, ClientInv, ClientTypes
<1>3. Live' = Live
  BY <1>2 DEF Live
<1>4. ClientTypes(callers)'
  BY <1>2 DEF ClientInv, ClientTypes
<1>5. ASSUME NEW i \in Instances, world'[i] = "running"
      PROVE  i[1] \in up /\ i = InstanceOf(i[1])
  <2>1. i \in Live
    BY <1>2, <1>5 DEF Live
  <2>2. i = InstanceOf(i[1]) /\ i[1] \in In(st, {"running"})
    BY <1>2, <2>1, RunningInstance DEF In
  <2>3. QED
    BY <2>1, <2>2 DEF ClientInv, RunningAreListed
<1>6. ASSUME NEW m \in up, InstanceOf(m) \in Live'
      PROVE  InstanceOf(m) \in listed' /\ \A k \in DOMAIN reads' : InstanceOf(m) \in reads'[k].snap
  BY <1>2, <1>3, <1>6 DEF ClientInv, RunningAreListed
<1> HIDE DEF up
<1>7. InstancesFit'
  BY <1>1, <1>2, <1>5, SegmentKeepsInstances DEF ClientInv, InstancesFit
<1>8. RunningAreListed'
  BY <1>1, <1>6, SegmentKeepsLists
<1>9. LaunchListFits'
  BY <1>2, NoLaunchList DEF ClientInv, LaunchListFits
<1>10. QED
  BY <1>4, <1>7, <1>8, <1>9 DEF ClientInv

\* A launch that is settled leaves its instance ended, or none.
LEMMA FailureKeeps ==
  ASSUME NEW callers, ClientInv(callers), IInv', LaunchFailed, NextStage,
         stage # "refreshing", UNCHANGED <<listed, reads>>,
         world' \in [Instances -> {"none", "running", "stopped", "terminated"}],
         \A i \in Instances : /\ i[2] > attempts[i[1]] => world'[i] = "none"
                              /\ world'[i] = "running" => world[i] = "running" /\ i # Current
  PROVE  ClientInv(callers)'
<1> DEFINE up == In(st, {"running"})
<1>1. Moved(up) /\ up \in SUBSET Members
  BY FailureMoves DEF ClientInv, In
<1>2. stage' = IF cursor' = 0 THEN "idle" ELSE "creating"
  BY DEF NextStage
<1>3. ClientTypes(callers)'
  BY <1>2 DEF ClientInv, ClientTypes
<1>4. ASSUME NEW i \in Instances, world'[i] = "running"
      PROVE  i[1] \in up /\ i = InstanceOf(i[1])
  <2>1. i \in Live
    BY <1>4 DEF Live
  <2>2. QED
    BY <1>4, <2>1, RunningInstance DEF In
<1>5. ASSUME NEW m \in up, InstanceOf(m) \in Live'
      PROVE  InstanceOf(m) \in listed' /\ \A k \in DOMAIN reads' : InstanceOf(m) \in reads'[k].snap
  <2>1. InstanceOf(m) \in Live
    BY <1>5 DEF Live
  <2>2. QED
    BY <2>1 DEF ClientInv, RunningAreListed
<1> HIDE DEF up
<1>6. InstancesFit'
  BY <1>1, <1>4, SegmentKeepsInstances
<1>7. RunningAreListed'
  BY <1>1, <1>5, SegmentKeepsLists
<1>8. LaunchListFits'
  BY <1>2, NoLaunchList DEF ClientInv, LaunchListFits
<1>9. QED
  BY <1>3, <1>6, <1>7, <1>8 DEF ClientInv

\* A launch that the provider refuses leaves no instance behind.
LEMMA LaunchRefusedKeeps ==
  ASSUME NEW callers, ClientInv(callers), IInv', LaunchRefused
  PROVE  ClientInv(callers)'
<1>1. /\ stage = "creating" /\ LaunchFailed /\ NextStage
      /\ world' = world /\ UNCHANGED <<listed, reads>>
  BY DEF LaunchRefused
<1>2. world' \in [Instances -> {"none", "running", "stopped", "terminated"}]
  BY <1>1 DEF ClientInv, ClientTypes
<1>3. \A i \in Instances : /\ i[2] > attempts[i[1]] => world'[i] = "none"
                           /\ world'[i] = "running" => world[i] = "running" /\ i # Current
  BY <1>1 DEF ClientInv, InstancesFit
<1>4. QED
  BY <1>1, <1>2, <1>3, FailureKeeps

\* A retirement ends the instance before the member is given back.
LEMMA RetireKeeps ==
  ASSUME NEW callers, ClientInv(callers), IInv', Orderly, Retire
  PROVE  ClientInv(callers)'
<1>1. /\ stage = "retiring" /\ LaunchFailed /\ NextStage /\ UNCHANGED <<listed, reads>>
      /\ world' = [world EXCEPT ![Current] = "terminated"]
      /\ cursor # 0
  BY DEF Retire, Orderly, LaunchFailed
<1>2. world' \in [Instances -> {"none", "running", "stopped", "terminated"}]
  BY <1>1 DEF ClientInv, ClientTypes
<1>3. Current \in Instances
  BY <1>1, InFlight, InstanceFacts DEF ClientInv, Current
<1>4. ASSUME NEW i \in Instances
      PROVE  /\ i[2] > attempts[i[1]] => world'[i] = "none"
             /\ world'[i] = "running" => world[i] = "running" /\ i # Current
  <2>1. world'[i] = IF i = Current THEN "terminated" ELSE world[i]
    BY <1>1, <1>3 DEF ClientInv, ClientTypes
  <2>2. Current[1] = cursor /\ Current[2] = attempts[cursor] /\ attempts[cursor] \in Nat
    BY <1>1, InFlight DEF Current, InstanceOf, ClientInv, IInv, TypeOK
  <2>3. ~ (Current[2] > attempts[Current[1]])
    BY <2>2
  <2>4. QED
    BY <2>1, <2>3 DEF ClientInv, InstancesFit
<1>5. QED
  BY <1>1, <1>2, <1>4, FailureKeeps

\* What the steps that leave the engine alone leave alone with it.
LEMMA EngineStill ==
  ASSUME UNCHANGED vars
  PROVE  /\ Current' = Current /\ Tracked' = Tracked /\ cursor' = cursor /\ attempts' = attempts
         /\ st' = st
         /\ \A m : InstanceOf(m)' = InstanceOf(m)
BY DEF vars, Current, Tracked, InstanceOf, In

\* An instance that is created is that of the member being launched, and new.
LEMMA InstanceCreatedKeeps ==
  ASSUME NEW callers, ClientInv(callers), IInv', InstanceCreated
  PROVE  ClientInv(callers)'
<1>1. /\ stage = "creating" /\ stage' = "listing" /\ cursor # 0
      /\ world' = [world EXCEPT ![Current] = "running"]
      /\ UNCHANGED <<listed, reads>> /\ UNCHANGED vars
  BY DEF InstanceCreated, ClientInv, ClientTypes
<1>2. Current \in Instances /\ cursor \in Members /\ st[cursor] = "launching" /\ Current[2] = attempts[cursor]
      /\ Current[1] = cursor /\ attempts[cursor] \in Nat
  BY <1>1, InFlight, InstanceFacts DEF ClientInv, Current, InstanceOf, IInv, TypeOK
<1>3. \A i \in Instances : world'[i] = IF i = Current THEN "running" ELSE world[i]
  BY <1>1, <1>2 DEF ClientInv, ClientTypes
<1>4. ClientTypes(callers)'
  BY <1>1, EngineStill DEF ClientInv, ClientTypes
<1>5. InstancesFit'
  <2>1. Current \in Tracked
    BY <1>2 DEF Tracked, Current, In
  <2>2. QED
    BY <1>1, <1>2, <1>3, <2>1, EngineStill DEF ClientInv, InstancesFit
<1>6. RunningAreListed'
  <2>1. ASSUME NEW m \in In(st, {"running"}), InstanceOf(m) \in Live'
        PROVE  InstanceOf(m) \in Live
    <3>1. m # cursor
      BY <1>2 DEF In
    <3>2. InstanceOf(m) # Current
      BY <3>1 DEF InstanceOf, Current
    <3>3. QED
      BY <1>3, <2>1, <3>2 DEF Live
  <2>2. QED
    BY <1>1, <2>1, EngineStill DEF ClientInv, RunningAreListed, In
<1>7. LaunchListFits'
  BY <1>1, NoLaunchList DEF ClientInv, LaunchListFits
<1>8. QED
  BY <1>4, <1>5, <1>6, <1>7 DEF ClientInv

\* A list asked for now shows all that lives: it fits whoever asked.
LEMMA ListAskedKeeps ==
  ASSUME NEW callers, ClientInv(callers), IInv', UNCHANGED vars, UNCHANGED <<world, listed>>,
         NEW by \in {"launch", "other"} \cup callers,
         reads' = Append(reads, [by |-> by, snap |-> Live]),
         IF by = "launch" THEN stage = "listing" /\ stage' = "refreshing" ELSE stage' = stage
  PROVE  ClientInv(callers)'
<1> DEFINE x == [by |-> by, snap |-> Live]
           n == Len(reads) + 1
<1>1. reads \in Seq(ListsOf(callers)) /\ x \in ListsOf(callers)
  BY DEF ClientInv, ClientTypes, ListsOf, Live
<1>2. x.by = by /\ x.snap = Live
  OBVIOUS
<1>3. /\ reads' \in Seq(ListsOf(callers)) /\ DOMAIN reads' = DOMAIN reads \cup {n} /\ reads'[n] = x
      /\ \A k \in DOMAIN reads : reads'[k] = reads[k] /\ k < n
      /\ n \in Nat
  <2> HIDE DEF x
  <2>1. QED
    BY <1>1, NewestAdded DEF x
<1> HIDE DEF n, x
<1>4. ClientTypes(callers)'
  BY <1>3, EngineStill DEF ClientInv, ClientTypes
<1>5. Live' = Live
  BY DEF Live
<1>6. InstancesFit'
  BY EngineStill DEF ClientInv, InstancesFit
<1>7. RunningAreListed'
  BY <1>2, <1>3, <1>5, EngineStill DEF ClientInv, RunningAreListed, In
<1>8. LaunchListFits'
  <2>1. CASE by = "launch"
    <3>1. \A k \in DOMAIN reads : reads[k].by # "launch"
      BY <2>1 DEF ClientInv, LaunchListFits
    <3>2. \A k \in DOMAIN reads' : /\ reads'[k].by = "launch" => k = n
                                   /\ k >= n => k = n
      BY <1>2, <1>3, <3>1, <1>1
    <3>3. reads'[n].by = "launch" /\ reads'[n].snap = Live
      BY <1>2, <1>3, <2>1
    <3>4. QED
      BY <1>3, <1>5, <2>1, <3>2, <3>3, EngineStill DEF LaunchListFits
  <2>2. CASE by # "launch" /\ stage # "refreshing"
    BY <1>2, <1>3, <2>2, NoLaunchList DEF ClientInv, LaunchListFits
  <2>3. CASE by # "launch" /\ stage = "refreshing"
    <3>1. PICK p \in DOMAIN reads :
            /\ reads[p].by = "launch"
            /\ \A k \in DOMAIN reads :
                 /\ reads[k].by = "launch" => k = p
                 /\ k >= p /\ Current \in Live => Current \in reads[k].snap
      BY <2>3 DEF ClientInv, LaunchListFits
    <3>2. QED
      BY <1>2, <1>3, <1>5, <2>3, <3>1, EngineStill DEF LaunchListFits
  <2>4. QED
    BY <2>1, <2>2, <2>3
<1>9. QED
  BY <1>4, <1>6, <1>7, <1>8 DEF ClientInv
\* The oldest list, when it is not a launch's own, replaces the one kept.
LEMMA ListTakenKeeps ==
  ASSUME NEW callers, ClientInv(callers), IInv', Orderly,
         NEW k \in DOMAIN reads, TakeRead(k), reads[k].by # "launch",
         UNCHANGED vars, stage' = stage
  PROVE  ClientInv(callers)'
<1>1. /\ k = 1 /\ 1 \in DOMAIN reads /\ listed' = reads[1].snap
      /\ reads' = RemoveAt(reads, 1) /\ world' = world
  BY DEF TakeRead, Orderly
<1>2. reads \in Seq(ListsOf(callers)) /\ reads[1] \in ListsOf(callers)
  BY <1>1 DEF ClientInv, ClientTypes
<1>3. /\ reads' \in Seq(ListsOf(callers))
      /\ DOMAIN reads' = {j \in Nat : j >= 1 /\ j + 1 \in DOMAIN reads}
      /\ \A j \in DOMAIN reads' : reads'[j] = reads[j + 1]
  BY <1>1, <1>2, OldestTaken
<1>4. ClientTypes(callers)'
  BY <1>1, <1>2, <1>3, EngineStill DEF ClientInv, ClientTypes, ListsOf
<1>5. Live' = Live
  BY <1>1 DEF Live
<1>6. InstancesFit'
  BY <1>1, EngineStill DEF ClientInv, InstancesFit
<1>7. RunningAreListed'
  BY <1>1, <1>3, <1>5, EngineStill DEF ClientInv, RunningAreListed, In
<1>8. LaunchListFits'
  <2>1. CASE stage # "refreshing"
    BY <1>3, <2>1, NoLaunchList DEF ClientInv, LaunchListFits
  <2>2. CASE stage = "refreshing"
    <3>1. PICK p \in DOMAIN reads :
            /\ reads[p].by = "launch"
            /\ \A j \in DOMAIN reads :
                 /\ reads[j].by = "launch" => j = p
                 /\ j >= p /\ Current \in Live => Current \in reads[j].snap
      BY <2>2 DEF ClientInv, LaunchListFits
    <3>2. p # 1 /\ p \in Nat /\ p >= 1 /\ (p - 1) + 1 = p
      <4>1. p # 1
        BY <1>1, <3>1
      <4>2. p \in 1 .. Len(reads) /\ Len(reads) \in Nat
        BY <1>2
      <4>3. QED
        BY <4>1, <4>2
    <3>3. p - 1 \in DOMAIN reads' /\ reads'[p - 1].by = "launch"
      BY <1>3, <3>1, <3>2
    <3>4. ASSUME NEW j \in DOMAIN reads'
          PROVE  /\ reads'[j].by = "launch" => j = p - 1
                 /\ j >= p - 1 /\ Current \in Live => Current \in reads'[j].snap
      <4>1. j \in Nat /\ j + 1 \in DOMAIN reads /\ reads'[j] = reads[j + 1]
        BY <1>3
      <4>2. j + 1 = p => j = p - 1
        BY <3>2, <4>1
      <4>3. j >= p - 1 => j + 1 >= p
        BY <3>2, <4>1
      <4>4. QED
        BY <3>1, <4>1, <4>2, <4>3
    <3>5. QED
      BY <1>5, <2>2, <3>3, <3>4, EngineStill DEF LaunchListFits
  <2>3. QED
    BY <2>1, <2>2
<1>9. QED
  BY <1>4, <1>6, <1>7, <1>8 DEF ClientInv

\* With its own list a launch resolves, and its instance is on it.
LEMMA LaunchResolvesKeeps ==
  ASSUME NEW callers, ClientInv(callers), IInv', Orderly,
         NEW k \in DOMAIN reads, TakeRead(k), reads[k].by = "launch",
         LaunchSucceeded, NextStage
  PROVE  ClientInv(callers)'
<1> DEFINE up == In(st, {"running"}) \cup {cursor}
<1>1. /\ k = 1 /\ 1 \in DOMAIN reads /\ listed' = reads[1].snap
      /\ reads' = RemoveAt(reads, 1) /\ world' = world
      /\ stage' = IF cursor' = 0 THEN "idle" ELSE "creating"
  BY DEF TakeRead, Orderly, NextStage
<1>2. reads \in Seq(ListsOf(callers)) /\ reads[1] \in ListsOf(callers)
  BY <1>1 DEF ClientInv, ClientTypes
<1>3. /\ reads' \in Seq(ListsOf(callers))
      /\ DOMAIN reads' = {j \in Nat : j >= 1 /\ j + 1 \in DOMAIN reads}
      /\ \A j \in DOMAIN reads' : reads'[j] = reads[j + 1]
  BY <1>1, <1>2, OldestTaken
<1>4. Moved(up) /\ cursor # 0
  BY SuccessMoves DEF ClientInv
<1>5. up \in SUBSET Members
  BY <1>4, InFlight DEF ClientInv, In
<1>6. ClientTypes(callers)'
  BY <1>1, <1>2, <1>3 DEF ClientInv, ClientTypes, ListsOf
<1>7. Live' = Live
  BY <1>1 DEF Live
<1>8. /\ \A j \in DOMAIN reads : j >= 1
      /\ \A j \in DOMAIN reads : reads[j].by = "launch" => j = 1
      /\ \A j \in DOMAIN reads : Current \in Live => Current \in reads[j].snap
  <2>1. stage = "refreshing"
    BY DEF ClientInv, LaunchListFits
  <2>2. PICK p \in DOMAIN reads :
          \A j \in DOMAIN reads :
            /\ reads[j].by = "launch" => j = p
            /\ j >= p /\ Current \in Live => Current \in reads[j].snap
    BY <2>1 DEF ClientInv, LaunchListFits
  <2>3. p = 1
    BY <1>1, <2>2
  <2>4. \A j \in DOMAIN reads : j >= 1
    BY <1>2
  <2>5. QED
    BY <2>2, <2>3, <2>4
<1>9. ASSUME NEW i \in Instances, world'[i] = "running"
      PROVE  i[1] \in up /\ i = InstanceOf(i[1])
  <2>1. i \in Live
    BY <1>1, <1>9 DEF Live
  <2>2. QED
    BY <2>1, RunningInstance DEF In
<1>10. ASSUME NEW m \in up, InstanceOf(m) \in Live'
       PROVE  /\ InstanceOf(m) \in listed'
              /\ \A j \in DOMAIN reads' : InstanceOf(m) \in reads'[j].snap
  <2>1. InstanceOf(m) \in Live
    BY <1>7, <1>10
  <2>2. \A j \in DOMAIN reads : InstanceOf(m) \in reads[j].snap
    BY <1>8, <2>1 DEF ClientInv, RunningAreListed, Current
  <2>3. QED
    BY <1>1, <1>3, <2>2
<1> HIDE DEF up
<1>11. InstancesFit'
  BY <1>1, <1>4, <1>9, SegmentKeepsInstances DEF ClientInv, InstancesFit
<1>12. RunningAreListed'
  BY <1>4, <1>5, <1>10, SegmentKeepsLists
<1>13. LaunchListFits'
  <2>1. \A j \in DOMAIN reads' : reads'[j].by # "launch"
    <3>1. ASSUME NEW j \in DOMAIN reads', reads'[j].by = "launch"
          PROVE  FALSE
      <4>1. j \in Nat /\ j >= 1 /\ j + 1 \in DOMAIN reads /\ reads'[j] = reads[j + 1]
        BY <1>3
      <4>2. j + 1 = 1
        BY <1>8, <3>1, <4>1
      <4>3. QED
        BY <4>1, <4>2
    <3>2. QED
      BY <3>1
  <2>2. QED
    BY <1>1, <2>1, NoLaunchList
<1>14. QED
  BY <1>6, <1>11, <1>12, <1>13 DEF ClientInv

\* An instance that ends frees no one else: the record still accounts for all.
LEMMA EndingKeeps ==
  ASSUME NEW callers, ClientInv(callers), IInv', UNCHANGED vars, UNCHANGED <<listed, reads, stage>>,
         NEW i \in Instances, world[i] = "none" => i = InstanceOf(i[1]) /\ i # Current,
         NEW w \in {"stopped", "terminated"},
         world' = [world EXCEPT ![i] = w]
  PROVE  ClientInv(callers)'
<1>1. /\ world' \in [Instances -> {"none", "running", "stopped", "terminated"}]
      /\ \A j \in Instances : world'[j] = IF j = i THEN w ELSE world[j]
  BY DEF ClientInv, ClientTypes
<1>2. Live' \subseteq Live
  BY <1>1 DEF Live
<1>3. ClientTypes(callers)'
  BY <1>1, EngineStill DEF ClientInv, ClientTypes
<1>4. InstancesFit'
  <2>1. i[2] > attempts[i[1]] => world[i] = "none"
    BY DEF ClientInv, InstancesFit
  <2>2. i = InstanceOf(i[1]) => ~ (i[2] > attempts[i[1]])
    <3>1. i = InstanceOf(i[1]) => i[2] = attempts[i[1]]
      BY InstanceFacts DEF InstanceOf
    <3>2. i[2] \in Nat
      BY InstanceFacts
    <3>3. QED
      BY <3>1, <3>2
  <2>3. QED
    BY <1>1, <2>1, <2>2, EngineStill DEF ClientInv, InstancesFit
<1>5. RunningAreListed'
  BY <1>2, EngineStill DEF ClientInv, RunningAreListed, In
<1>6. LaunchListFits'
  BY <1>2, EngineStill DEF ClientInv, LaunchListFits
<1>7. QED
  BY <1>3, <1>4, <1>5, <1>6 DEF ClientInv

\* A step that changes no variable the invariant reads.
LEMMA StillKeeps ==
  ASSUME NEW callers, ClientInv(callers), IInv',
         UNCHANGED <<st, attempts, cursor>>, UNCHANGED <<world, listed, reads>>,
         stage' = stage \/ (stage = "listing" /\ stage' = "retiring")
  PROVE  ClientInv(callers)'
<1>1. /\ Current' = Current /\ Tracked' = Tracked /\ Live' = Live
      /\ \A m : InstanceOf(m)' = InstanceOf(m)
  BY DEF Current, Tracked, InstanceOf, In, Live
<1>2. ClientTypes(callers)'
  BY DEF ClientInv, ClientTypes
<1>3. InstancesFit'
  BY <1>1 DEF ClientInv, InstancesFit
<1>4. RunningAreListed'
  BY <1>1 DEF ClientInv, RunningAreListed, In
<1>5. LaunchListFits'
  BY <1>1 DEF ClientInv, LaunchListFits
<1>6. QED
  BY <1>2, <1>3, <1>4, <1>5 DEF ClientInv
\* One step per action.
LEMMA ClientStepKeeps ==
  ASSUME NEW callers, ClientInv(callers), IInv', Orderly, [ClientNext]_allVars
  PROVE  ClientInv(callers)'
<1>1. CASE UNCHANGED allVars
  BY <1>1, StillKeeps DEF allVars, vars, clientVars
<1>2. CASE PumpStep
  BY <1>2, PumpStepKeeps
<1>3. CASE LaunchProgress
  <2>1. CASE LaunchRefused
    BY <2>1, LaunchRefusedKeeps
  <2>2. CASE InstanceCreated
    BY <2>2, InstanceCreatedKeeps
  <2>3. CASE ListServed
    BY <2>3, ListAskedKeeps DEF ListServed
  <2>4. CASE ListFailed
    <3>1. stage = "listing" /\ stage' = "retiring" /\ UNCHANGED vars /\ UNCHANGED <<world, listed, reads>>
      BY <2>4 DEF ListFailed, Orderly
    <3>2. QED
      BY <3>1, StillKeeps DEF vars
  <2>5. CASE Retire
    BY <2>5, RetireKeeps
  <2>6. QED
    BY <1>3, <2>1, <2>2, <2>3, <2>4, <2>5 DEF LaunchProgress
<1>4. CASE OtherRead
  BY <1>4, ListAskedKeeps DEF OtherRead
<1>5. ASSUME NEW k \in DOMAIN reads, ApplyRead(k)
      PROVE  ClientInv(callers)'
  BY <1>5, LaunchResolvesKeeps, ListTakenKeeps DEF ApplyRead
<1>6. ASSUME NEW i \in Instances, Ends(i) \/ Restarts(i)
      PROVE  ClientInv(callers)'
  <2>1. Ends(i)
    BY <1>6 DEF Restarts, Orderly
  <2>2. PICK w \in {"stopped", "terminated"} : world' = [world EXCEPT ![i] = w]
    BY <2>1 DEF Ends
  <2>3. world[i] # "none" /\ UNCHANGED vars /\ UNCHANGED <<listed, reads, stage>>
    BY <2>1 DEF Ends
  <2>4. QED
    BY <2>2, <2>3, EndingKeeps
<1>7. CASE TimePasses
  BY <1>7, StillKeeps DEF TimePasses, Tick, clientVars
<1>8. QED
  BY <1>1, <1>2, <1>3, <1>4, <1>5, <1>6, <1>7 DEF ClientNext

\* Nothing runs at the start.
LEMMA ClientInitEstablishes ==
  ASSUME NEW callers, ClientInit
  PROVE  ClientInv(callers)
<1>1. IInv
  BY InitEstablishes DEF ClientInit
<1>2. /\ \A m \in Members : attempts[m] = 0 /\ st[m] = "pending"
      /\ cursor = 0 /\ world = [i \in Instances |-> "none"] /\ listed = {} /\ reads = << >> /\ stage = "idle"
  BY DEF ClientInit, Init
<1>3. ClientTypes(callers)
  BY <1>2 DEF ClientTypes
<1>4. InstancesFit
  BY <1>2 DEF InstancesFit
<1>5. RunningAreListed /\ LaunchListFits
  BY <1>2 DEF RunningAreListed, LaunchListFits, In
<1>6. QED
  BY <1>1, <1>3, <1>4, <1>5 DEF ClientInv

\* The engine's part of the invariant is kept whatever the client does.
LEMMA EnginePartKeeps ==
  ASSUME IInv, [ClientNext]_allVars
  PROVE  IInv'
BY ClientStepIsEngineStep, TypeKeeps, NextPreserves DEF IInv

-----------------------------------------------------------------------------
(* What the invariant says of the runs' properties.                        *)

\* Tracked is in bijection with the members that hold a slot, so that no more
\* instances run than slots are held.
LEMMA NoMoreThanSlots ==
  ASSUME NEW callers, ClientInv(callers)
  PROVE  LiveWithinCap /\ NothingRunsUntracked
<1>1. Live \subseteq Tracked
  BY DEF ClientInv, InstancesFit, Live
<1> DEFINE slots == In(st, {"launching", "running"})
           f == [i \in Live |-> i[1]]
<1>2. IsFiniteSet(slots) /\ Cardinality(slots) \in Nat /\ Cardinality(slots) <= Cap
  BY MembersFinite DEF In, ClientInv, IInv, CapRespected
<1>3. \A i \in Live : i[1] \in slots /\ i = InstanceOf(i[1])
  BY <1>1 DEF Tracked, InstanceOf
<1>4. f \in Injection(Live, slots)
  BY <1>3 DEF Injection, IsInjective
<1>5. IsFiniteSet(Live) /\ Cardinality(Live) <= Cardinality(slots)
  <2> HIDE DEF f, slots
  <2>1. QED
    BY <1>2, <1>4, FS_Injection
<1>6. Cardinality(Live) \in Nat /\ Cap \in Nat
  BY <1>5, FS_CardinalityType, CapType
<1> HIDE DEF slots
<1>7. Cardinality(Live) <= Cap
  BY <1>2, <1>5, <1>6
<1>8. QED
  BY <1>1, <1>7 DEF LiveWithinCap, NothingRunsUntracked

\* What the client keeps is of its types.
LEMMA ClientTypesHold ==
  ASSUME NEW callers, ClientInv(callers)
  PROVE  ClientTypeOK
<1>1. \A k \in DOMAIN reads : reads[k] \in ListsOf(callers)
  BY DEF ClientInv, ClientTypes
<1>2. \A k \in DOMAIN reads : reads[k].snap \subseteq Instances
  BY <1>1 DEF ListsOf
<1>3. QED
  BY <1>2 DEF ClientInv, ClientTypes, ClientTypeOK, IInv

\* A member counts as ended only when its instance is.
LEMMA EndsHold ==
  ASSUME NEW callers, ClientInv(callers)
  PROVE  CompletedMeansEnded /\ DependentsStartAfterEnd
<1>1. ASSUME NEW m \in In(st, {"completed"}), InstanceOf(m) \in Live
      PROVE  FALSE
  <2>1. m \in Members /\ st[m] = "completed" /\ InstanceOf(m)[1] = m
    BY <1>1 DEF In, InstanceOf
  <2>2. st[m] = "running" \/ st[m] = "launching"
    BY <1>1, <2>1, RunningInstance, InFlight DEF ClientInv
  <2>3. QED
    BY <2>1, <2>2
<1>2. ASSUME NEW i \in Instances, NEW d \in Instances,
             world[i] # "none", d[1] \in DependsOn[i[1]], world[d] = "running"
      PROVE  FALSE
  <2>1. i[1] \in Members /\ i[2] \in Nat /\ i[2] >= 1 /\ ~ (i[2] > attempts[i[1]])
    <3>1. \A m \in Members : MaxAttempts[m] \in Nat
      BY AttemptsAssumption
    <3>2. QED
      BY <1>2, <3>1, InstanceFacts DEF ClientInv, InstancesFit, Instances
  <2>2. attempts[i[1]] > 0
    BY <2>1 DEF ClientInv, IInv, TypeOK
  <2>3. st[d[1]] = "completed"
    BY <1>2, <2>1, <2>2 DEF ClientInv, IInv, DependenciesFirst, In
  <2>4. d \in Live
    BY <1>2 DEF Live
  <2>5. st[d[1]] = "running" \/ st[d[1]] = "launching"
    BY <2>4, RunningInstance, InFlight DEF ClientInv
  <2>6. QED
    BY <2>3, <2>5
<1>3. QED
  BY <1>1, <1>2 DEF CompletedMeansEnded, DependentsStartAfterEnd

-----------------------------------------------------------------------------
(* Theorems of the worlds.                                                 *)

OrderlyInv == kind = "orderly" => ClientInv({})

\* The orderly world keeps the invariant, the hostile one rests.
LEMMA OrderlyInvariance ==
  ASSUME Orderly
  PROVE  WorldsSpec => []OrderlyInv
<1>1. WorldsInit => OrderlyInv
  BY ClientInitEstablishes DEF WorldsInit, OrderlyInv
<1>2. OrderlyInv /\ [WorldsNext]_worldsVars => OrderlyInv'
  <2> SUFFICES ASSUME OrderlyInv, [WorldsNext]_worldsVars, kind' = "orderly"
               PROVE  ClientInv({})'
    BY DEF OrderlyInv
  <2>1. kind = "orderly" /\ [ClientNext]_allVars
    BY DEF WorldsNext, worldsVars
  <2>2. ClientInv({})
    BY <2>1 DEF OrderlyInv
  <2>3. IInv'
    BY <2>1, <2>2, EnginePartKeeps DEF ClientInv
  <2>4. QED
    BY <2>1, <2>2, <2>3, ClientStepKeeps
<1>3. QED
  BY <1>1, <1>2, PTL DEF WorldsSpec

\* In an orderly world no more instances run than the cap allows, and the
\* engine accounts for each of them: whatever the set, its dependencies, its
\* retries and its delays, and however launches, lists and ends interleave.
THEOREM ClientAlwaysConsistent == Orderly => (WorldsSpec => []ClientConsistent)
<1> SUFFICES ASSUME Orderly
             PROVE  WorldsSpec => []ClientConsistent
  OBVIOUS
<1>1. OrderlyInv => ClientConsistent
  BY NoMoreThanSlots, ClientTypesHold DEF OrderlyInv, ClientConsistent
<1>2. QED
  BY <1>1, OrderlyInvariance, PTL

\* There a member is "completed" only when its instance has ended, and an
\* instance exists only when those of the members it waits for have ended.
THEOREM EndsAlwaysTrue == Orderly => (WorldsSpec => []EndsAreTrue)
<1> SUFFICES ASSUME Orderly
             PROVE  WorldsSpec => []EndsAreTrue
  OBVIOUS
<1>1. OrderlyInv => EndsAreTrue
  BY EndsHold DEF OrderlyInv, EndsAreTrue
<1>2. QED
  BY <1>1, OrderlyInvariance, PTL

-----------------------------------------------------------------------------
(***************************************************************************)
(* Job arrays in an orderly world: the calls of enforceViability keep      *)
(* apart, end only what the verdict condemns and report each survivor      *)
(* once, and what the array says of itself meanwhile is true - for every   *)
(* array, every threshold and any number of overlapping calls.             *)
(***************************************************************************)
Ended(w) == w \in {"stopped", "terminated"}

\* i is the last instance of a member that was launched for good.
Held(i) == i = InstanceOf(i[1]) /\ st[i[1]] \in {"running", "completed"}

DrainTypes ==
  /\ drained \subseteq Instances
  /\ phase \in [Drains -> {"idle", "terminating", "listing", "refreshing"}]
  /\ target \in [Drains -> Instances \cup {Nobody}]
  /\ todo \in [Drains -> SUBSET Instances]
  /\ reported \in [Instances -> 0 .. 2]

\* A call that is under way has a survivor of its own, claimed and not yet
\* reported; it is ended before the list that reports it is asked for.
TargetsFit ==
  \A d \in Drains :
    /\ (phase[d] = "idle") = (target[d] = Nobody)
    /\ phase[d] # "idle" => NonViable(st)
    /\ \A i \in todo[d] : Held(i)
    /\ target[d] # Nobody =>
         /\ Held(target[d])
         /\ target[d] \in drained
         /\ reported[target[d]] = 0
         /\ phase[d] # "terminating" => Ended(world[target[d]])
         /\ \A e \in Drains : target[e] = target[d] => e = d

\* What is reported is claimed for ever, was reported once, and has ended.
ReportsFit ==
  \A i \in Instances :
    reported[i] > 0 => reported[i] = 1 /\ i \in drained /\ Ended(world[i])

\* A call has a list on its way only while it waits for it, and only one.
DrainListsFit ==
  /\ \A k \in DOMAIN reads : reads[k].by \in Drains => phase[reads[k].by] = "refreshing"
  /\ \A k, l \in DOMAIN reads :
       reads[k].by \in Drains /\ reads[l].by = reads[k].by => k = l

DrainInv == DrainTypes /\ TargetsFit /\ ReportsFit /\ DrainListsFit
-----------------------------------------------------------------------------
(* Steps of the client leave the calls' invariant standing.                *)

LEMMA NobodyIsNoInstance == Nobody \notin Instances
BY InstanceFacts, NAssumption DEF Nobody, Members

\* An instance that is held stays so: its member is never launched again.
LEMMA HeldStays ==
  ASSUME IInv, IInv', [ClientNext]_allVars, NEW i, i[1] \in Members, Held(i)
  PROVE  Held(i)'
<1> DEFINE m == i[1]
<1>1. st'[m] \in {"running", "completed"}
  <2>1. st'[m] = st[m] \/ <<st[m], st'[m]>> \in MemberMoves
    BY ClientStepIsEngineStep, StepMoves
  <2>2. QED
    BY <2>1 DEF Held, MemberMoves, NotStarted
<1>2. attempts'[m] = attempts[m]
  <2>1. ASSUME NEW up, Moved(up)
        PROVE  attempts'[m] = attempts[m]
    BY <2>1 DEF Moved, Held, NotStarted
  <2>2. CASE PumpStep
    BY <2>1, <2>2, PumpMoves DEF PumpStep
  <2>3. CASE LaunchSucceeded
    BY <2>1, <2>3, SuccessMoves
  <2>4. CASE LaunchFailed
    BY <2>1, <2>4, FailureMoves
  <2>5. CASE attempts' = attempts
    BY <2>5
  <2>6. PumpStep \/ LaunchSucceeded \/ LaunchFailed \/ attempts' = attempts
    BY DEF ClientNext, LaunchProgress, LaunchRefused, InstanceCreated, ListServed, ListFailed,
           Retire, OtherRead, ApplyRead, Ends, Restarts, TimePasses, Tick, allVars, vars
  <2>7. QED
    BY <2>2, <2>3, <2>4, <2>5, <2>6
<1>3. QED
  BY <1>1, <1>2 DEF Held, InstanceOf

\* An instance that has ended stays ended, where nothing restarts.
LEMMA EndedStays ==
  ASSUME ClientInv(Drains), Orderly, [ClientNext]_allVars, NEW i \in Instances, Ended(world[i])
  PROVE  Ended(world'[i])
<1>1. world \in [Instances -> {"none", "running", "stopped", "terminated"}]
  BY DEF ClientInv, ClientTypes
<1>2. CASE InstanceCreated
  <2>1. stage = "creating" /\ world' = [world EXCEPT ![Current] = "running"]
    BY <1>2 DEF InstanceCreated
  <2>2. i # Current
    BY <2>1 DEF ClientInv, InstancesFit, Ended
  <2>3. QED
    BY <1>1, <2>1, <2>2
<1>3. CASE Retire
  BY <1>1, <1>3 DEF Retire, Ended
<1>4. ASSUME NEW j \in Instances, Ends(j) \/ Restarts(j)
      PROVE  Ended(world'[i])
  BY <1>1, <1>4 DEF Ends, Restarts, Ended, Orderly
<1>5. CASE world' = world
  BY <1>5
<1>6. InstanceCreated \/ Retire \/ (\E j \in Instances : Ends(j) \/ Restarts(j)) \/ world' = world
  BY DEF ClientNext, LaunchProgress, LaunchRefused, ListServed, ListFailed, OtherRead, ApplyRead,
         TakeRead, PumpStep, TimePasses, clientVars, allVars
<1>7. QED
  BY <1>2, <1>3, <1>4, <1>5, <1>6

\* A list of another arrives or is asked for: those of the calls stay theirs.
LEMMA ListsStay ==
  ASSUME ClientInv(Drains), DrainListsFit, Orderly, [ClientNext]_allVars, phase' = phase
  PROVE  DrainListsFit'
<1>1. reads \in Seq(ListsOf(Drains))
  BY DEF ClientInv, ClientTypes
<1>2. CASE reads' = reads
  BY <1>2 DEF DrainListsFit
<1>3. ASSUME NEW by \in {"launch", "other"}, reads' = Append(reads, [by |-> by, snap |-> Live])
      PROVE  DrainListsFit'
  <2> DEFINE x == [by |-> by, snap |-> Live]
             n == Len(reads) + 1
  <2>1. x \in ListsOf(Drains) /\ x.by \notin Drains
    BY DrainsAssumption DEF ListsOf, Live
  <2> HIDE DEF x
  <2>2. /\ DOMAIN reads' = DOMAIN reads \cup {n} /\ reads'[n] = x
        /\ \A k \in DOMAIN reads : reads'[k] = reads[k]
    BY <1>1, <1>3, <2>1, NewestAdded DEF x
  <2> HIDE DEF n
  <2>3. QED
    BY <2>1, <2>2 DEF DrainListsFit
<1>4. ASSUME NEW k \in DOMAIN reads, TakeRead(k)
      PROVE  DrainListsFit'
  <2>1. 1 \in DOMAIN reads /\ reads' = RemoveAt(reads, 1)
    BY <1>4 DEF TakeRead, Orderly
  <2>2. \A j \in DOMAIN reads' : j \in Nat /\ j + 1 \in DOMAIN reads /\ reads'[j] = reads[j + 1]
    BY <1>1, <2>1, OldestTaken
  <2>3. \A j, l \in DOMAIN reads' : j + 1 = l + 1 => j = l
    BY <2>2
  <2>4. QED
    BY <2>2, <2>3 DEF DrainListsFit
<1>5. \/ reads' = reads
      \/ \E by \in {"launch", "other"} : reads' = Append(reads, [by |-> by, snap |-> Live])
      \/ \E k \in DOMAIN reads : TakeRead(k)
  BY DEF ClientNext, LaunchProgress, LaunchRefused, InstanceCreated, ListServed, ListFailed, Retire,
         OtherRead, ApplyRead, PumpStep, Ends, Restarts, TimePasses, clientVars, allVars
<1>6. QED
  BY <1>2, <1>3, <1>4, <1>5

\* A step of the client leaves the calls' invariant standing.
LEMMA ClientStepKeepsDrains ==
  ASSUME ClientInv(Drains), IInv', DrainInv, Orderly, [ClientNext]_allVars, UNCHANGED drainVars
  PROVE  DrainInv'
<1>1. DrainTypes'
  BY DEF DrainInv, DrainTypes, drainVars
<1>2. TargetsFit'
  <2> SUFFICES ASSUME NEW d \in Drains
               PROVE  /\ (phase[d] = "idle") = (target[d] = Nobody)
                      /\ phase[d] # "idle" => NonViable(st')
                      /\ \A i \in todo[d] : Held(i)'
                      /\ target[d] # Nobody =>
                           /\ Held(target[d])'
                           /\ target[d] \in drained
                           /\ reported[target[d]] = 0
                           /\ phase[d] # "terminating" => Ended(world'[target[d]])
                           /\ \A e \in Drains : target[e] = target[d] => e = d
    BY DEF TargetsFit, drainVars, Held
  <2>1. phase[d] # "idle" => NonViable(st')
    <3>1. NonViable(st) => NonViable(st')
      BY ClientStepIsEngineStep, VerdictLatches DEF ClientInv
    <3>2. QED
      BY <3>1 DEF DrainInv, TargetsFit
  <2>2. ASSUME NEW i \in Instances, Held(i)
        PROVE  Held(i)'
    BY <2>2, HeldStays, InstanceFacts DEF ClientInv
  <2>3. todo[d] \subseteq Instances /\ (target[d] # Nobody => target[d] \in Instances)
    BY DEF DrainInv, DrainTypes
  <2>4. target[d] # Nobody /\ phase[d] # "terminating" => Ended(world'[target[d]])
    BY <2>3, EndedStays DEF DrainInv, TargetsFit
  <2>5. \A i \in todo[d] : Held(i)'
    BY <2>2, <2>3 DEF DrainInv, TargetsFit
  <2>6. target[d] # Nobody => Held(target[d])'
    <3>1. \A i \in Instances : Held(i) => Held(i)'
      BY <2>2
    <3>2. target' = target
      BY DEF drainVars
    <3>3. target[d] # Nobody => target[d] \in Instances /\ Held(target[d])
      BY <2>3 DEF DrainInv, TargetsFit
    <3>4. QED
      BY <3>1, <3>2, <3>3 DEF Held, InstanceOf
  <2>7. QED
    BY <2>1, <2>4, <2>5, <2>6 DEF DrainInv, TargetsFit
<1>3. ReportsFit'
  BY EndedStays DEF DrainInv, ReportsFit, drainVars
<1>4. DrainListsFit'
  BY ListsStay DEF DrainInv, drainVars
<1>5. QED
  BY <1>1, <1>2, <1>3, <1>4 DEF DrainInv
-----------------------------------------------------------------------------
(* Steps of the calls.                                                     *)

\* The loop over survivors returns, or goes on with one that nobody claimed.
Returns(d, claimed) ==
  /\ drained' = claimed
  /\ phase' = [phase EXCEPT ![d] = "idle"]
  /\ target' = [target EXCEPT ![d] = Nobody]
  /\ todo' = [todo EXCEPT ![d] = {}]

GoesOnWith(d, claimed, i, rest) ==
  /\ drained' = claimed \cup {i}
  /\ phase' = [phase EXCEPT ![d] = "terminating"]
  /\ target' = [target EXCEPT ![d] = i]
  /\ todo' = [todo EXCEPT ![d] = rest]

\* A call that goes on claims its next survivor, or is over.
LEMMA GoOnOutcome ==
  ASSUME NEW d \in Drains, NEW ids \in SUBSET Instances, NEW claimed, GoOn(d, ids, claimed)
  PROVE  \/ Returns(d, claimed)
         \/ \E i \in ids \ claimed, rest \in SUBSET ids : GoesOnWith(d, claimed, i, rest)
<1> DEFINE free == ids \ claimed
           i == CHOOSE j \in free : \A k \in free : j[1] <= k[1]
           rest == {j \in ids : j[1] > i[1]}
<1>1. CASE free = {}
  BY <1>1 DEF GoOn, Returns
<1>2. CASE free # {}
  <2> DEFINE F == {j[1] : j \in free}
  <2>1. F \in SUBSET Members /\ F # {}
    BY <1>2, InstanceFacts
  <2>2. First(F) \in F /\ \A m \in F : First(F) <= m
    <3> HIDE DEF F
    <3>1. QED
      BY <2>1, FirstExists
  <2>3. PICK j \in free : j[1] = First(F)
    BY <2>2
  <2>4. \A k \in free : j[1] <= k[1]
    BY <2>2, <2>3
  <2>5. i \in free
    <3> HIDE DEF F, free
    <3>1. QED
      BY <2>3, <2>4
  <2>6. GoesOnWith(d, claimed, i, rest)
    BY <1>2 DEF GoOn, GoesOnWith
  <2>7. rest \in SUBSET ids
    OBVIOUS
  <2> HIDE DEF i, rest
  <2>8. QED
    BY <2>5, <2>6, <2>7
<1>3. QED
  BY <1>1, <1>2

\* It does so in good order: what it had of its own it has reported, or given
\* back, and what it takes is no one else's.
LEMMA GoOnKeeps ==
  ASSUME DrainInv, NEW d \in Drains, NEW ids \in SUBSET Instances, \A i \in ids : Held(i),
         NEW claimed \in SUBSET drained, drained \ claimed \subseteq {target[d]},
         GoOn(d, ids, claimed), NonViable(st), UNCHANGED <<st, attempts, world>>,
         reported' \in [Instances -> 0 .. 2],
         \A i \in Instances :
           \/ reported'[i] = reported[i]
           \/ i = target[d] /\ reported'[i] = 1 /\ i \in claimed /\ Ended(world[i]),
         DrainListsFit',
         \A k \in DOMAIN reads' : reads'[k].by # d
  PROVE  DrainInv'
<1>1. /\ DrainTypes /\ TargetsFit /\ ReportsFit
      /\ \A e \in Drains : target[e] \in Instances \cup {Nobody} /\ todo[e] \in SUBSET Instances
      /\ drained \subseteq Instances
  BY DEF DrainInv, DrainTypes
<1>2. \A i : Held(i)' <=> Held(i)
  BY DEF Held, InstanceOf
<1>3. ASSUME NEW e \in Drains, e # d, target[e] # Nobody
      PROVE  target[e] \in claimed /\ reported'[target[e]] = 0 /\ target[e] # target[d]
  BY <1>1, <1>3 DEF TargetsFit
<1>4. ReportsFit'
  <2>1. claimed \subseteq drained'
    <3>1. Returns(d, claimed) \/ \E i, rest : GoesOnWith(d, claimed, i, rest)
      BY GoOnOutcome
    <3>2. QED
      BY <3>1 DEF Returns, GoesOnWith
  <2>2. ASSUME NEW i \in Instances, reported'[i] > 0
        PROVE  reported'[i] = 1 /\ i \in claimed /\ Ended(world[i])
    <3>1. CASE reported'[i] = reported[i]
      <4>1. reported[i] = 1 /\ i \in drained /\ Ended(world[i])
        BY <1>1, <2>2, <3>1 DEF ReportsFit
      <4>2. i = target[d] => i \in claimed
        BY <1>1, <4>1, NobodyIsNoInstance DEF TargetsFit
      <4>3. QED
        BY <3>1, <4>1, <4>2
    <3>2. QED
      BY <3>1
  <2>3. QED
    BY <2>1, <2>2 DEF ReportsFit
<1>5. CASE Returns(d, claimed)
  <2>1. \A e \in Drains :
          /\ phase'[e] = IF e = d THEN "idle" ELSE phase[e]
          /\ target'[e] = IF e = d THEN Nobody ELSE target[e]
          /\ todo'[e] = IF e = d THEN {} ELSE todo[e]
    BY <1>1, <1>5 DEF DrainTypes, Returns
  <2>2. DrainTypes'
    BY <1>1, <1>5 DEF DrainTypes, Returns
  <2>3. TargetsFit'
    BY <1>1, <1>2, <1>3, <1>5, <2>1 DEF TargetsFit, Returns
  <2>4. QED
    BY <1>4, <2>2, <2>3 DEF DrainInv
<1>6. ASSUME NEW i \in ids \ claimed, NEW rest \in SUBSET ids, GoesOnWith(d, claimed, i, rest)
      PROVE  DrainInv'
  <2>1. \A e \in Drains :
          /\ phase'[e] = IF e = d THEN "terminating" ELSE phase[e]
          /\ target'[e] = IF e = d THEN i ELSE target[e]
          /\ todo'[e] = IF e = d THEN rest ELSE todo[e]
    BY <1>1, <1>6 DEF DrainTypes, GoesOnWith
  <2>2. DrainTypes'
    BY <1>1, <1>6 DEF DrainTypes, GoesOnWith
  <2>3. i \in Instances /\ i # Nobody /\ Held(i) /\ i \in drained' /\ \A j \in rest : Held(j)
    BY <1>6, NobodyIsNoInstance DEF GoesOnWith
  <2>4. reported'[i] = 0
    <3>1. reported[i] = 0
      <4>1. i \in drained => i = target[d]
        BY <1>6
      <4>2. i = target[d] => reported[i] = 0
        BY <1>1, <2>3 DEF TargetsFit
      <4>3. i \notin drained => ~ (reported[i] > 0)
        BY <1>1, <2>3 DEF ReportsFit
      <4>4. reported[i] \in 0 .. 2
        BY <1>1, <2>3 DEF DrainTypes
      <4>5. QED
        BY <4>1, <4>2, <4>3, <4>4
    <3>2. QED
      BY <1>6, <2>3, <3>1
  <2>5. \A e \in Drains : e # d => target[e] # i
    BY <1>3, <1>6, <2>3
  <2>6. ASSUME NEW e \in Drains
        PROVE  /\ (phase'[e] = "idle") = (target'[e] = Nobody)
               /\ phase'[e] # "idle" => NonViable(st)
               /\ \A j \in todo'[e] : Held(j)
               /\ target'[e] # Nobody =>
                    /\ Held(target'[e])
                    /\ target'[e] \in drained'
                    /\ reported'[target'[e]] = 0
                    /\ phase'[e] # "terminating" => Ended(world[target'[e]])
                    /\ \A f \in Drains : target'[f] = target'[e] => f = e
    <3>1. CASE e = d
      BY <2>1, <2>3, <2>4, <2>5, <3>1
    <3>2. CASE e # d
      BY <1>1, <1>3, <1>6, <2>1, <2>5, <3>2 DEF TargetsFit, GoesOnWith
    <3>3. QED
      BY <3>1, <3>2
  <2>7. TargetsFit'
    <3>1. st' = st /\ attempts' = attempts /\ world' = world
      OBVIOUS
    <3>2. QED
      BY <2>6, <3>1 DEF TargetsFit, Held, InstanceOf
  <2>8. QED
    BY <1>4, <2>2, <2>7 DEF DrainInv
<1>7. QED
  BY <1>5, <1>6, GoOnOutcome
\* A call's step asks for no engine step, and its list is the only one of it.
LEMMA NoListYet ==
  ASSUME DrainInv, NEW d \in Drains, phase[d] # "refreshing"
  PROVE  \A k \in DOMAIN reads : reads[k].by # d
BY DEF DrainInv, DrainListsFit

\* A call begins with the survivors of that moment.
LEMMA EnforceKeeps ==
  ASSUME ClientInv(Drains), DrainInv, NEW d \in Drains, EnforceViability(d)
  PROVE  DrainInv'
<1>1. /\ phase[d] = "idle" /\ NonViable(st) /\ GoOn(d, SurvivorIds, drained)
      /\ UNCHANGED vars /\ UNCHANGED <<world, listed, reads, stage>> /\ reported' = reported
  BY DEF EnforceViability, allVars, clientVars
<1>2. SurvivorIds \in SUBSET Instances /\ \A i \in SurvivorIds : Held(i)
  <2>1. ASSUME NEW m \in In(st, {"running"})
        PROVE  InstanceOf(m) \in Instances /\ Held(InstanceOf(m))
    <3>1. m \in Members /\ st[m] = "running" /\ attempts[m] > 0
      BY DEF In, ClientInv, IInv, CountsAgree
    <3>2. QED
      BY <3>1, InstanceFacts DEF ClientInv, Held, InstanceOf
  <2>2. QED
    BY <2>1 DEF SurvivorIds
<1>3. DrainListsFit'
  <2>1. \A e \in Drains : e # d => phase'[e] = phase[e]
    <3>1. Returns(d, drained) \/ \E i, rest : GoesOnWith(d, drained, i, rest)
      BY <1>1, <1>2, GoOnOutcome
    <3>2. QED
      BY <3>1 DEF Returns, GoesOnWith, DrainInv, DrainTypes
  <2>2. QED
    BY <1>1, <2>1, NoListYet DEF DrainInv, DrainListsFit
<1>4. \A k \in DOMAIN reads' : reads'[k].by # d
  BY <1>1, NoListYet
<1>5. drained \in SUBSET drained /\ drained \ drained \subseteq {target[d]}
  OBVIOUS
<1>6. reported' \in [Instances -> 0 .. 2] /\ UNCHANGED <<st, attempts, world>>
  BY <1>1 DEF DrainInv, DrainTypes, vars
<1> HIDE DEF DrainInv
<1>7. QED
  BY <1>1, <1>2, <1>3, <1>4, <1>5, <1>6, GoOnKeeps

\* A call that could not end its survivor gives it back.
LEMMA GivesBackKeeps ==
  ASSUME ClientInv(Drains), DrainInv, NEW d \in Drains,
         phase[d] \in {"terminating", "listing"},
         GoOn(d, todo[d], drained \ {target[d]}), UNCHANGED <<allVars, reported>>
  PROVE  DrainInv'
<1>1. /\ UNCHANGED <<st, attempts, world>> /\ reads' = reads /\ reported' = reported
      /\ NonViable(st)
  BY DEF allVars, vars, clientVars, DrainInv, TargetsFit
<1>2. todo[d] \in SUBSET Instances /\ \A i \in todo[d] : Held(i)
  BY DEF DrainInv, DrainTypes, TargetsFit
<1> DEFINE claimed == drained \ {target[d]}
<1>3. DrainListsFit'
  <2>1. \A e \in Drains : e # d => phase'[e] = phase[e]
    <3>1. Returns(d, claimed) \/ \E i, rest : GoesOnWith(d, claimed, i, rest)
      BY <1>2, GoOnOutcome
    <3>2. QED
      BY <3>1 DEF Returns, GoesOnWith, DrainInv, DrainTypes
  <2>2. QED
    BY <1>1, <2>1, NoListYet DEF DrainInv, DrainListsFit
<1>4. \A k \in DOMAIN reads' : reads'[k].by # d
  BY <1>1, NoListYet
<1>5. claimed \in SUBSET drained /\ drained \ claimed \subseteq {target[d]}
  OBVIOUS
<1>6. reported' \in [Instances -> 0 .. 2]
  BY <1>1 DEF DrainInv, DrainTypes
<1>7. GoOn(d, todo[d], claimed)
  OBVIOUS
<1> HIDE DEF DrainInv, claimed
<1>8. QED
  BY <1>1, <1>2, <1>3, <1>4, <1>5, <1>6, <1>7, GoOnKeeps

\* A terminate that is accepted ends its target.
LEMMA TerminateAcceptedKeeps ==
  ASSUME ClientInv(Drains), DrainInv, NEW d \in Drains, TerminateAccepted(d)
  PROVE  DrainInv'
<1>1. /\ phase[d] = "terminating" /\ world' = [world EXCEPT ![target[d]] = "terminated"]
      /\ phase' = [phase EXCEPT ![d] = "listing"]
      /\ UNCHANGED <<st, attempts, reads, drained, target, todo, reported>>
  BY DEF TerminateAccepted, vars
<1>2. /\ world \in [Instances -> {"none", "running", "stopped", "terminated"}]
      /\ DrainTypes /\ TargetsFit /\ ReportsFit /\ DrainListsFit
  BY DEF ClientInv, ClientTypes, DrainInv
<1>3. /\ \A e \in Drains : phase'[e] = IF e = d THEN "listing" ELSE phase[e]
      /\ \A i \in Instances : Ended(world[i]) => Ended(world'[i])
      /\ target[d] \in Instances => Ended(world'[target[d]])
  BY <1>1, <1>2 DEF DrainTypes, Ended
<1>4. DrainTypes'
  BY <1>1, <1>2 DEF DrainTypes
<1>5. TargetsFit'
  BY <1>1, <1>2, <1>3 DEF TargetsFit, DrainTypes, Held, InstanceOf
<1>6. ReportsFit'
  BY <1>1, <1>2, <1>3 DEF ReportsFit
<1>7. DrainListsFit'
  BY <1>1, <1>2, <1>3, NoListYet DEF DrainListsFit
<1>8. QED
  BY <1>4, <1>5, <1>6, <1>7 DEF DrainInv

\* The list that a call waits for is served.
LEMMA DrainListServedKeeps ==
  ASSUME ClientInv(Drains), DrainInv, NEW d \in Drains, DrainListServed(d)
  PROVE  DrainInv'
<1> DEFINE x == [by |-> d, snap |-> Live]
           n == Len(reads) + 1
<1>1. /\ phase[d] = "listing" /\ reads' = Append(reads, x)
      /\ phase' = [phase EXCEPT ![d] = "refreshing"]
      /\ UNCHANGED <<st, attempts, world, drained, target, todo, reported>>
  BY DEF DrainListServed, vars
<1>2. /\ reads \in Seq(ListsOf(Drains)) /\ DrainTypes /\ TargetsFit /\ ReportsFit /\ DrainListsFit
      /\ x \in ListsOf(Drains) /\ x.by = d
  BY DEF ClientInv, ClientTypes, DrainInv, ListsOf, Live
<1> HIDE DEF x
<1>3. /\ DOMAIN reads' = DOMAIN reads \cup {n} /\ reads'[n] = x
      /\ \A k \in DOMAIN reads : reads'[k] = reads[k]
  BY <1>1, <1>2, NewestAdded
<1> HIDE DEF n
<1>4. \A e \in Drains : phase'[e] = IF e = d THEN "refreshing" ELSE phase[e]
  BY <1>1, <1>2 DEF DrainTypes
<1>5. DrainTypes'
  BY <1>1, <1>2 DEF DrainTypes
<1>6. TargetsFit'
  BY <1>1, <1>2, <1>4 DEF TargetsFit, Held, InstanceOf
<1>7. ReportsFit'
  BY <1>1, <1>2 DEF ReportsFit
<1>8. DrainListsFit'
  <2>1. \A k \in DOMAIN reads : reads[k].by # d
    BY <1>1, NoListYet
  <2>2. QED
    BY <1>2, <1>3, <1>4, <2>1 DEF DrainListsFit
<1>9. QED
  BY <1>5, <1>6, <1>7, <1>8 DEF DrainInv

\* A call whose list arrived reports its target and goes on.
LEMMA DrainedKeeps ==
  ASSUME ClientInv(Drains), DrainInv, Orderly, NEW d \in Drains, NEW k \in DOMAIN reads, Drained(d, k)
  PROVE  DrainInv'
<1>1. /\ reads[k].by = d /\ k = 1 /\ reads' = RemoveAt(reads, 1)
      /\ GoOn(d, todo[d], drained) /\ UNCHANGED <<st, attempts, world>>
      /\ reported' = [reported EXCEPT ![target[d]] = Smaller(@ + 1, 2)]
  BY DEF Drained, TakeRead, Orderly, vars
<1>2. reads \in Seq(ListsOf(Drains)) /\ DrainTypes /\ TargetsFit /\ ReportsFit /\ DrainListsFit
  BY DEF ClientInv, ClientTypes, DrainInv
<1>3. phase[d] = "refreshing"
  BY <1>1, <1>2 DEF DrainListsFit
<1>4. /\ target[d] \in Instances /\ target[d] \in drained /\ reported[target[d]] = 0
      /\ Ended(world[target[d]]) /\ NonViable(st)
  BY <1>2, <1>3 DEF TargetsFit, DrainTypes
<1>5. /\ reported' \in [Instances -> 0 .. 2]
      /\ \A i \in Instances :
           \/ reported'[i] = reported[i]
           \/ i = target[d] /\ reported'[i] = 1 /\ i \in drained /\ Ended(world[i])
  <2>1. Smaller(0 + 1, 2) = 1
    BY DEF Smaller
  <2>2. reported' = [reported EXCEPT ![target[d]] = 1]
    BY <1>1, <1>4, <2>1
  <2>3. QED
    BY <1>2, <1>4, <2>2 DEF DrainTypes
<1>6. /\ \A j \in DOMAIN reads' : j \in Nat /\ j >= 1 /\ j + 1 \in DOMAIN reads /\ reads'[j] = reads[j + 1]
  BY <1>1, <1>2, OldestTaken
<1>7. \A j \in DOMAIN reads' : reads'[j].by # d
  <2>1. ASSUME NEW j \in DOMAIN reads', reads'[j].by = d
        PROVE  FALSE
    <3>1. j \in Nat /\ j >= 1 /\ j + 1 \in DOMAIN reads /\ reads[j + 1].by = d
      BY <1>6, <2>1
    <3>2. j + 1 = 1
      BY <1>1, <1>2, <3>1 DEF DrainListsFit
    <3>3. QED
      BY <3>1, <3>2
  <2>2. QED
    BY <2>1
<1>8. todo[d] \in SUBSET Instances /\ \A i \in todo[d] : Held(i)
  BY <1>2 DEF DrainTypes, TargetsFit
<1>9. DrainListsFit'
  <2>1. \A e \in Drains : e # d => phase'[e] = phase[e]
    <3>1. Returns(d, drained) \/ \E i, rest : GoesOnWith(d, drained, i, rest)
      BY <1>1, <1>8, GoOnOutcome
    <3>2. QED
      BY <1>2, <3>1 DEF Returns, GoesOnWith, DrainTypes
  <2>2. \A j, l \in DOMAIN reads' : j + 1 = l + 1 => j = l
    BY <1>6
  <2>3. QED
    BY <1>2, <1>6, <1>7, <2>1, <2>2 DEF DrainListsFit
<1>10. drained \in SUBSET drained /\ drained \ drained \subseteq {target[d]}
  OBVIOUS
<1> HIDE DEF DrainInv
<1>11. QED
  BY <1>1, <1>4, <1>5, <1>7, <1>8, <1>9, <1>10, GoOnKeeps
\* What the calls do to the client is what others may do to it: they end an
\* instance, ask for a list, and have the oldest list replace the one kept.
LEMMA DrainStepKeepsClient ==
  ASSUME ClientInv(Drains), DrainInv, Orderly, NEW d \in Drains,
         \/ EnforceViability(d)
         \/ DrainProgress(d)
         \/ \E k \in DOMAIN reads : Drained(d, k)
  PROVE  ClientInv(Drains)'
<1>1. UNCHANGED vars
  BY DEF EnforceViability, DrainProgress, TerminateRefused, TerminateAccepted, DrainListServed,
         DrainListFailed, Drained, allVars
<1>2. IInv'
  <2>1. TypeOK'
    BY <1>1, TypeKeeps DEF ClientInv, IInv
  <2>2. QED
    BY <1>1, <2>1, NextPreserves DEF ClientInv
<1>3. CASE UNCHANGED allVars
  BY <1>2, <1>3, StillKeeps DEF allVars, vars, clientVars
<1>4. CASE TerminateAccepted(d)
  <2>1. /\ world' = [world EXCEPT ![target[d]] = "terminated"] /\ UNCHANGED <<listed, reads, stage>>
        /\ phase[d] = "terminating"
    BY <1>4 DEF TerminateAccepted
  <2>2. target[d] \in Instances /\ Held(target[d])
    BY <2>1 DEF DrainInv, DrainTypes, TargetsFit
  <2>3. target[d] = InstanceOf(target[d][1]) /\ st[target[d][1]] \in {"running", "completed"}
    BY <2>2 DEF Held
  <2>4. cursor = 0 \/ st[cursor] = "launching"
    BY InFlight DEF ClientInv
  <2>5. target[d][1] \in Members /\ Current[1] = cursor /\ 0 \notin Members
    BY <2>2, InstanceFacts, NAssumption DEF Current, InstanceOf, Members
  <2>6. target[d] # Current
    BY <2>3, <2>4, <2>5
  <2>7. QED
    BY <1>1, <1>2, <2>1, <2>2, <2>3, <2>6, EndingKeeps
<1>5. CASE DrainListServed(d)
  <2>1. /\ UNCHANGED <<world, listed>> /\ stage' = stage
        /\ reads' = Append(reads, [by |-> d, snap |-> Live])
    BY <1>5 DEF DrainListServed
  <2>2. d \in {"launch", "other"} \cup Drains /\ d # "launch"
    BY DrainsAssumption
  <2>3. QED
    BY <1>1, <1>2, <2>1, <2>2, ListAskedKeeps
<1>6. ASSUME NEW k \in DOMAIN reads, Drained(d, k)
      PROVE  ClientInv(Drains)'
  <2>1. TakeRead(k) /\ reads[k].by # "launch" /\ stage' = stage
    BY <1>6, DrainsAssumption DEF Drained
  <2>2. QED
    BY <1>1, <1>2, <2>1, ListTakenKeeps
<1>7. QED
  BY <1>3, <1>4, <1>5, <1>6
     DEF EnforceViability, DrainProgress, TerminateRefused, DrainListFailed

\* Every step of a call keeps the calls' invariant.
LEMMA DrainStepKeepsDrains ==
  ASSUME ClientInv(Drains), DrainInv, Orderly, NEW d \in Drains,
         \/ EnforceViability(d)
         \/ DrainProgress(d)
         \/ \E k \in DOMAIN reads : Drained(d, k)
  PROVE  DrainInv'
<1>1. CASE EnforceViability(d)
  BY <1>1, EnforceKeeps
<1>2. CASE TerminateRefused(d) \/ DrainListFailed(d)
  BY <1>2, GivesBackKeeps DEF TerminateRefused, DrainListFailed
<1>3. CASE TerminateAccepted(d)
  BY <1>3, TerminateAcceptedKeeps
<1>4. CASE DrainListServed(d)
  BY <1>4, DrainListServedKeeps
<1>5. CASE \E k \in DOMAIN reads : Drained(d, k)
  BY <1>5, DrainedKeeps
<1>6. QED
  BY <1>1, <1>2, <1>3, <1>4, <1>5 DEF DrainProgress

ArrayInv == ClientInv(Drains) /\ DrainInv

\* The invariant holds in every state.
LEMMA ArrayInvariance ==
  ASSUME Orderly
  PROVE  ArraySpec => []ArrayInv
<1>1. ArrayInit => ArrayInv
  <2> SUFFICES ASSUME ArrayInit
               PROVE  ArrayInv
    OBVIOUS
  <2>1. ClientInv(Drains) /\ reads = << >>
    BY ClientInitEstablishes DEF ArrayInit, ClientInit
  <2>2. DrainInv
    BY <2>1 DEF ArrayInit, DrainInv, DrainTypes, TargetsFit, ReportsFit, DrainListsFit
  <2>3. QED
    BY <2>1, <2>2 DEF ArrayInv
<1>2. ArrayInv /\ [ArrayNext]_arrayVars => ArrayInv'
  <2> SUFFICES ASSUME ArrayInv, [ArrayNext]_arrayVars
               PROVE  ArrayInv'
    OBVIOUS
  <2>1. CASE [ClientNext]_allVars /\ UNCHANGED drainVars
    <3>1. IInv'
      BY <2>1, EnginePartKeeps DEF ArrayInv, ClientInv
    <3>2. QED
      BY <2>1, <3>1, ClientStepKeeps, ClientStepKeepsDrains DEF ArrayInv
  <2>2. CASE \E d \in Drains :
               \/ EnforceViability(d)
               \/ DrainProgress(d)
               \/ \E k \in DOMAIN reads : Drained(d, k)
    BY <2>2, DrainStepKeepsClient, DrainStepKeepsDrains DEF ArrayInv
  <2>3. QED
    BY <2>1, <2>2 DEF ArrayNext, arrayVars
<1>3. QED
  BY <1>1, <1>2, PTL DEF ArraySpec

-----------------------------------------------------------------------------
(* What the invariant says of the drains and of the card.                  *)

LEMMA DrainsHold == ArrayInv => DrainsAreSound
<1> SUFFICES ASSUME ArrayInv
             PROVE  DrainsAreSound
  OBVIOUS
<1>1. ClientTypeOK
  BY ClientTypesHold DEF ArrayInv
<1>2. DrainTypes /\ TargetsFit /\ ReportsFit
  BY DEF ArrayInv, DrainInv
<1>3. ArrayTypeOK
  BY <1>1, <1>2 DEF ArrayTypeOK, DrainTypes, TargetsFit
<1>4. ReportedOnce
  BY <1>2 DEF ReportedOnce, ReportsFit, DrainTypes
<1>5. ClaimsDisjoint /\ DrainsOnlyNonViable
  BY <1>2 DEF ClaimsDisjoint, DrainsOnlyNonViable, TargetsFit
<1>6. ReportedHasEnded
  BY <1>2 DEF ReportedHasEnded, ReportsFit, Ended
<1>7. QED
  BY <1>3, <1>4, <1>5, <1>6 DEF DrainsAreSound

\* Members counted by disjoint sets of states are counted together.
LEMMA CountsOfDisjoint ==
  ASSUME NEW A, NEW B, A \cap B = {}
  PROVE  /\ CountOf(A \cup B) = CountOf(A) + CountOf(B)
         /\ CountOf(A) \in Nat /\ CountOf(B) \in Nat
<1>1. /\ In(st, A) \in SUBSET Members /\ In(st, B) \in SUBSET Members
      /\ In(st, A) \cap In(st, B) = {} /\ In(st, A \cup B) = In(st, A) \cup In(st, B)
  BY DEF In
<1>2. /\ IsFiniteSet(In(st, A)) /\ IsFiniteSet(In(st, B))
      /\ Cardinality(In(st, A)) \in Nat /\ Cardinality(In(st, B)) \in Nat
  BY <1>1, MembersFinite
<1>3. Cardinality(In(st, A) \cap In(st, B)) = 0
  BY <1>1, FS_EmptySet
<1> DEFINE a == Cardinality(In(st, A))
           b == Cardinality(In(st, B))
           both == Cardinality(In(st, A) \cup In(st, B))
<1>4. both = a + b - Cardinality(In(st, A) \cap In(st, B))
  BY <1>2, FS_Union
<1>5. a \in Nat /\ b \in Nat /\ both = a + b - 0
  BY <1>2, <1>3, <1>4
<1>6. CountOf(A) = a /\ CountOf(B) = b /\ CountOf(A \cup B) = both
  BY <1>1 DEF CountOf
<1> HIDE DEF a, b, both
<1>7. QED
  BY <1>5, <1>6

\* The counts of the summary add up.
LEMMA CountsHold == ArrayInv => CountsAddUp
<1> SUFFICES ASSUME ArrayInv
             PROVE  CountsAddUp
  OBVIOUS
<1> DEFINE waiting == {"pending", "blocked", "launching"}
           p == CountOf(waiting)
           r == CountOf({"running"})
           c == CountOf({"completed"})
           f == CountOf({"failed"})
           s == CountOf({"skipped"})
           toRun == waiting \cup {"running"}
           toComplete == toRun \cup {"completed"}
           toFail == toComplete \cup {"failed"}
<1>1. p \in Nat /\ r \in Nat /\ c \in Nat /\ f \in Nat /\ s \in Nat
  <2>1. \A A : CountOf(A) \in Nat
    BY CountsOfDisjoint, \A A : A \cap {} = {}
  <2>2. QED
    BY <2>1
<1>2. CountOf(toRun) = p + r
  BY CountsOfDisjoint
<1>3. CountOf(toComplete) = CountOf(toRun) + c
  BY CountsOfDisjoint
<1>4. CountOf(toFail) = CountOf(toComplete) + f
  BY CountsOfDisjoint
<1>5. CountOf(toFail \cup {"skipped"}) = p + r + c + f + s
  <2>1. CountOf(toFail \cup {"skipped"}) = CountOf(toFail) + s
    BY CountsOfDisjoint
  <2> HIDE DEF toRun, toComplete, toFail, p, r, c, f, s
  <2>2. QED
    BY <1>1, <1>2, <1>3, <1>4, <2>1
<1>6. In(st, toFail \cup {"skipped"}) = Members
  BY DEF In, ArrayInv, ClientInv, IInv, TypeOK, States, NotStarted, Terminal
<1>7. p + r + c + f + s = N
  BY <1>5, <1>6, MembersFinite DEF CountOf
<1>8. (p = 0) = (In(st, NotStarted \cup {"launching"}) = {})
  <2>1. NotStarted \cup {"launching"} = waiting
    BY DEF NotStarted
  <2>2. In(st, waiting) \in SUBSET Members
    BY DEF In
  <2>3. IsFiniteSet(In(st, waiting))
    BY <2>2, MembersFinite
  <2>4. p = 0 <=> In(st, waiting) = {}
    BY <2>3, FS_EmptySet DEF CountOf
  <2>5. QED
    BY <2>1, <2>4
<1>9. /\ Summary.pending = p /\ Summary.running = r /\ Summary.completed = c
      /\ Summary.failed = f /\ Summary.skipped = s /\ Summary.total = N
      /\ Card.filled = r + (c + f + s)
  BY DEF Summary, Card
<1> HIDE DEF p, r, c, f, s, waiting
<1>10. (r + (c + f + s) = N) = (p = 0)
  BY <1>1, <1>7, NAssumption
<1>11. QED
  BY <1>7, <1>8, <1>9, <1>10 DEF CountsAddUp

\* An index called missing has no worker; a finished array is over.
LEMMA CardHolds == ArrayInv => MissingHasNoWorker /\ DoneIsOver
<1> SUFFICES ASSUME ArrayInv
             PROVE  MissingHasNoWorker /\ DoneIsOver
  OBVIOUS
<1>1. ASSUME NEW i \in Live
      PROVE  i[1] \in In(st, {"running", "launching"})
  BY <1>1, RunningInstance, InFlight DEF ArrayInv, ClientInv, In
<1>2. MissingHasNoWorker
  BY <1>1 DEF MissingHasNoWorker, MissingIndexes
<1>3. IsComplete => Live = {}
  BY <1>1 DEF IsComplete, Terminal, In
<1>4. Card.viability = "survivors end" => In(st, NotStarted) = {}
  <2>1. Card.viability = "survivors end" => NonViable(st)
    BY DEF Card, Summary
  <2>2. In(st, NotStarted) # {} => ~ NonViable(st)
    <3>1. ASSUME NEW m \in In(st, NotStarted)
          PROVE  ~ NonViable(st)
      <4>1. m \in In(st, NotStarted \cup {"launching"})
        BY DEF In
      <4>2. QED
        BY <4>1 DEF ArrayInv, ClientInv, IInv, Undoomed
    <3>2. QED
      BY <3>1
  <2>3. QED
    BY <2>1, <2>2
<1>5. QED
  BY <1>2, <1>3, <1>4 DEF DoneIsOver

\* However many calls of enforceViability overlap, and however they fail, with
\* each other and with a launch: no survivor is ended by two of them, reported
\* twice, or reported while it runs; a viable array is left alone; and the
\* counts, the missing indexes and the card tell the truth all along.
THEOREM ArrayAlwaysSound == Orderly => (ArraySpec => []ArrayIsSound)
<1> SUFFICES ASSUME Orderly
             PROVE  ArraySpec => []ArrayIsSound
  OBVIOUS
<1>1. ArrayInv => ArrayIsSound
  BY DrainsHold, CountsHold, CardHolds DEF ArrayIsSound, CardIsTrue
<1>2. QED
  BY <1>1, ArrayInvariance, PTL
=============================================================================
