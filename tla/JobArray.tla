------------------------------ MODULE JobArray ------------------------------
(***************************************************************************)
(* A job array (core/jobarray.ts) on the fan-out engine, under the monitor *)
(* loop: every pumpFanOuts calls enforceViability, which terminates the    *)
(* survivors of an array that can no longer reach its minViable.           *)
(*                                                                         *)
(* The calls overlap, with each other and with the launch of a pump that   *)
(* is still running: an interval tick awaits neither the pump startJobArray *)
(* started nor the tick before it.  `drained` is what keeps them apart.    *)
(***************************************************************************)
EXTENDS SpawnFanOut

CONSTANT Drains   \* calls of enforceViability in flight at once

\* A list is asked for by a call, by a launch or by someone else.
ASSUME DrainsAssumption == Drains \cap {"launch", "other"} = {}

VARIABLES
  drained,   \* ids claimed by a call, or already terminated by one
  phase,     \* of each call: where its client.terminate is
  target,    \* the survivor the call is terminating
  todo,      \* the survivors it has yet to look at
  reported   \* history: how often each id was returned as terminated

drainVars == <<drained, phase, target, todo, reported>>
arrayVars == <<allVars, drainVars>>

Nobody == <<0, 0>>

SurvivorIds == {InstanceOf(m) : m \in In(st, {"running"})}

ArrayInit ==
  /\ ClientInit
  /\ drained = {}
  /\ phase = [d \in Drains |-> "idle"]
  /\ target = [d \in Drains |-> Nobody]
  /\ todo = [d \in Drains |-> {}]
  /\ reported = [i \in Instances |-> 0]

\* Variants: survivors are not claimed before the await; a call that returns
\* leaves its target behind.
GoOn_NoClaim(d, ids, claimed) ==
  LET free == ids \ claimed
      i == CHOOSE j \in free : \A k \in free : j[1] <= k[1]
  IN /\ drained' = claimed
     /\ IF free = {}
        THEN /\ phase' = [phase EXCEPT ![d] = "idle"]
             /\ target' = [target EXCEPT ![d] = Nobody]
             /\ todo' = [todo EXCEPT ![d] = {}]
        ELSE /\ phase' = [phase EXCEPT ![d] = "terminating"]
             /\ target' = [target EXCEPT ![d] = i]
             /\ todo' = [todo EXCEPT ![d] = {j \in ids : j[1] > i[1]}]
\* The loop over survivors: claim the first unclaimed one and await its
\* terminate, or return.
GoOn(d, ids, claimed) ==
  LET free == ids \ claimed
      i == CHOOSE j \in free : \A k \in free : j[1] <= k[1]
  IN IF free = {}
     THEN /\ drained' = claimed
          /\ phase' = [phase EXCEPT ![d] = "idle"]
          /\ target' = [target EXCEPT ![d] = Nobody]
          /\ todo' = [todo EXCEPT ![d] = {}]
     ELSE /\ drained' = claimed \cup {i}
          /\ phase' = [phase EXCEPT ![d] = "terminating"]
          /\ target' = [target EXCEPT ![d] = i]
          /\ todo' = [todo EXCEPT ![d] = {j \in ids : j[1] > i[1]}]

EnforceViability(d) ==
  /\ phase[d] = "idle"
  /\ NonViable(st)
  /\ GoOn(d, SurvivorIds, drained)
  /\ UNCHANGED <<allVars, reported>>

\* Variants: the claim is kept; the id is returned as terminated all the same.
TerminateRefused_KeepsClaim(d) ==
  /\ phase[d] = "terminating"
  /\ GoOn(d, todo[d], drained)
  /\ UNCHANGED <<allVars, reported>>
\* client.terminate did not reach the instance: the claim is released.
TerminateRefused(d) ==
  /\ phase[d] = "terminating"
  /\ GoOn(d, todo[d], drained \ {target[d]})
  /\ UNCHANGED <<allVars, reported>>

TerminateAccepted(d) ==
  /\ phase[d] = "terminating"
  /\ world' = [world EXCEPT ![target[d]] = "terminated"]
  /\ phase' = [phase EXCEPT ![d] = "listing"]
  /\ UNCHANGED <<vars, listed, reads, stage, drained, target, todo, reported>>

\* The refresh that ends client.terminate: answered, ...
DrainListServed(d) ==
  /\ phase[d] = "listing"
  /\ reads' = Append(reads, [by |-> d, snap |-> Live])
  /\ phase' = [phase EXCEPT ![d] = "refreshing"]
  /\ UNCHANGED <<vars, world, listed, stage, drained, target, todo, reported>>

\* ... or failing, which counts as a failed terminate.
DrainListFailed(d) ==
  /\ phase[d] = "listing"
  /\ GoOn(d, todo[d], drained \ {target[d]})
  /\ UNCHANGED <<allVars, reported>>

\* The answer is assigned, terminate resolves, the id is returned as terminated.
Drained(d, k) ==
  /\ reads[k].by = d
  /\ TakeRead(k)
  /\ reported' = [reported EXCEPT ![target[d]] = Smaller(@ + 1, 2)]
  /\ GoOn(d, todo[d], drained)
  /\ UNCHANGED <<vars, stage>>

DrainProgress(d) ==
  \/ TerminateRefused(d)
  \/ TerminateAccepted(d)
  \/ DrainListServed(d)
  \/ DrainListFailed(d)

ArrayNext ==
  \/ ClientNext /\ UNCHANGED drainVars
  \/ \E d \in Drains :
       \/ EnforceViability(d)
       \/ DrainProgress(d)
       \/ \E k \in DOMAIN reads : Drained(d, k)

ArraySpec == ArrayInit /\ [][ArrayNext]_arrayVars

\* The monitor keeps pumping and enforcing, every call is answered, and a
\* terminate asked for again and again is accepted at last.  No instance need
\* end on its own.
FairArraySpec ==
  /\ ArraySpec
  /\ WF_arrayVars(PumpStep /\ UNCHANGED drainVars)
  /\ WF_arrayVars(LaunchProgress /\ UNCHANGED drainVars)
  /\ WF_arrayVars(OtherRead /\ UNCHANGED drainVars)
  /\ WF_arrayVars(\E k \in DOMAIN reads : ApplyRead(k) /\ UNCHANGED drainVars)
  /\ \A d \in Drains :
       /\ WF_arrayVars(EnforceViability(d))
       /\ WF_arrayVars(DrainProgress(d))
       /\ SF_arrayVars(TerminateAccepted(d))
       /\ WF_arrayVars(\E k \in DOMAIN reads : Drained(d, k))

-----------------------------------------------------------------------------
(***************************************************************************)
(* What the array, like every fan-out, tells about itself: summary, which  *)
(* every event carries, and the card the dashboard draws from it           *)
(* (ui/dashboard.ts).  It is computed from the members' states alone.      *)
(***************************************************************************)
CountOf(states) == Cardinality(In(st, states))

\* missingIndexes: those without a live member, for whoever launches them again.
MissingIndexes == Members \ In(st, {"running", "launching"})

\* isComplete
IsComplete == \A m \in Members : st[m] \in Terminal

\* summary
Summary ==
  [total |-> N,
   pending |-> CountOf({"pending", "blocked", "launching"}),
   blocked |-> CountOf({"blocked"}),
   running |-> CountOf({"running"}),
   completed |-> CountOf({"completed"}),
   failed |-> CountOf({"failed"}),
   skipped |-> CountOf({"skipped"}),
   minViable |-> MinViable,
   viableCandidates |-> ViableCandidates(st),
   nonViable |-> NonViable(st),
   missing |-> MissingIndexes]

\* The card; an array that needs one member sets no threshold.
Card ==
  LET s == Summary
      settled == s.completed + s.failed + s.skipped
  IN [label |-> IF s.nonViable THEN "non-viable" ELSE IF IsComplete THEN "done" ELSE "running",
      counts |-> {k \in {"blocked", "failed", "skipped"} : s[k] > 0} \cup {"running", "completed"},
      filled |-> s.running + settled,
      viability |-> IF s.minViable = 1 THEN "none" ELSE IF s.nonViable THEN "survivors end" ELSE "threshold",
      missing |-> IF s.missing = Members THEN {} ELSE s.missing]

-----------------------------------------------------------------------------
ArrayTypeOK ==
  /\ ClientTypeOK
  /\ drained \subseteq Instances
  /\ \A d \in Drains :
       /\ phase[d] \in {"idle", "terminating", "listing", "refreshing"}
       /\ (phase[d] = "idle") = (target[d] = Nobody)
       /\ target[d] \in Instances \cup {Nobody}
       /\ todo[d] \subseteq Instances
  /\ reported \in [Instances -> 0 .. 2]

\* Each survivor is reported once, however the calls overlap and fail: the
\* monitor turns every returned id into a terminate event the user sees.
ReportedOnce == \A i \in Instances : reported[i] <= 1

\* No two calls terminate the same instance at the same time.
ClaimsDisjoint ==
  \A d, e \in Drains :
    d # e /\ target[d] # Nobody => target[d] # target[e] /\ target[d] \in drained

\* Only a non-viable array is wound down, and what is reported as terminated
\* has ended.
DrainsOnlyNonViable ==
  \A d \in Drains : phase[d] # "idle" => NonViable(st)
ReportedHasEnded == \A i \in Instances : reported[i] > 0 => world[i] # "running"

\* However the calls of enforceViability overlap and fail, with each other and
\* with a launch: no instance is terminated by two, reported twice or reported
\* while it runs, and no viable array is touched.
DrainsAreSound ==
  ArrayTypeOK /\ ReportedOnce /\ ClaimsDisjoint /\ DrainsOnlyNonViable /\ ReportedHasEnded

(***************************************************************************)
(* The counts are a partition, and the bar is full exactly when nobody is  *)
(* left to launch.                                                         *)
(***************************************************************************)
CountsAddUp ==
  LET s == Summary IN
  /\ s.pending + s.running + s.completed + s.failed + s.skipped = s.total
  /\ (Card.filled = N) = (In(st, NotStarted \cup {"launching"}) = {})

(***************************************************************************)
(* An index that is called missing has no worker: launching it again makes *)
(* no second one (fanout.ts:295-321).                                      *)
(***************************************************************************)
MissingHasNoWorker == \A i \in Live : i[1] \notin MissingIndexes

(***************************************************************************)
(* "done" is the end: nothing of the fan-out lives or is being launched;   *)
(* and once a card says that survivors are being terminated, no member of  *)
(* the array is launched any more (dashboard.ts:447-459).                  *)
(***************************************************************************)
DoneIsOver ==
  /\ IsComplete => Live = {}
  /\ Card.viability = "survivors end" => In(st, NotStarted) = {}

\* What a fan-out says of itself is so, whatever the drains are doing to it.
CardIsTrue == CountsAddUp /\ MissingHasNoWorker /\ DoneIsOver

(***************************************************************************)
(* The drains keep apart and end nothing that was not theirs to end, and   *)
(* the array tells the truth about itself meanwhile.                       *)
(***************************************************************************)
ArrayIsSound == DrainsAreSound /\ CardIsTrue

\* A non-viable array ends with no instance running: neither a launch in
\* flight at the verdict, nor a refused terminate, nor a list older than the
\* terminate leaves one billing.
NonViableIsDrained == NonViable(st) ~> [](Live = {})
=============================================================================
