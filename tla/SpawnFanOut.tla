----------------------------- MODULE SpawnFanOut ----------------------------
(***************************************************************************)
(* The fan-out engine on top of SpawnClient and a provider: the launch the *)
(* engine awaits (SpawnClient.launch with its three calls and its clean-up *)
(* path), the list of instances the client keeps and everyone refreshes,   *)
(* and the instances themselves, which end and may restart on their own.   *)
(*                                                                         *)
(* The engine sees the world only through client.list(), the last list     *)
(* answered.  refresh() assigns whatever answer arrives last, so a list    *)
(* can be older than the one it replaces unless the provider answers in    *)
(* the order it was asked (the mock does: FifoReads).                      *)
(***************************************************************************)
EXTENDS FanOut, Sequences, SequencesExt

CONSTANTS
  FifoReads,      \* list answers arrive in the order of the calls
  MaxReads,       \* bound: refreshes of monitor and user in flight at once
  KeepOnError,    \* the members whose launch input says keepOnError
  RetireMayFail,  \* the terminate of a failed launch may be refused
  MayRestart      \* a stopped instance may be started again

ASSUME ClientAssumption ==
  /\ {FifoReads, RetireMayFail, MayRestart} \subseteq BOOLEAN
  /\ KeepOnError \subseteq Members
  /\ MaxReads \in Nat

VARIABLES
  world,   \* the provider: state of each instance
  listed,  \* ids that lastInstances shows running or pending
  reads,   \* answered list calls not yet assigned to lastInstances
  stage    \* where the launch awaited by the engine is

clientVars == <<world, listed, reads, stage>>
allVars == <<vars, clientVars>>

\* One instance per launch attempt.
Instances == UNION {{m} \X (1 .. MaxAttempts[m]) : m \in Members}
Live == {i \in Instances : world[i] = "running"}

\* The instance of the launch in flight.
Current == InstanceOf(cursor)

\* When a launch settles the engine either awaits the next one or is done.
NextStage == stage' = IF cursor' = 0 THEN "idle" ELSE "creating"

OthersReading == Len(SelectSeq(reads, LAMBDA r : r.by = "other"))

ClientInit ==
  /\ Init
  /\ world = [i \in Instances |-> "none"]
  /\ listed = {}
  /\ reads = << >>
  /\ stage = "idle"

\* The monitor's tick, or the start of the set, pumps.
PumpStep ==
  /\ Pump(listed)
  /\ NextStage
  /\ UNCHANGED <<world, listed, reads>>

\* Refused by a check, or by the provider: nothing was created.  That the answer
\* for an instance that was created may be lost is in Ec2Launch.
LaunchRefused ==
  /\ stage = "creating"
  /\ LaunchFailed
  /\ NextStage
  /\ UNCHANGED <<world, listed, reads>>

InstanceCreated ==
  /\ stage = "creating"
  /\ world' = [world EXCEPT ![Current] = "running"]
  /\ stage' = "listing"
  /\ UNCHANGED <<vars, listed, reads>>

\* The refresh of the launch is answered...
ListServed ==
  /\ stage = "listing"
  /\ reads' = Append(reads, [by |-> "launch", snap |-> Live])
  /\ stage' = "refreshing"
  /\ UNCHANGED <<vars, world, listed>>

\* Variant: a launch that fails after its instance was created only rejects.
ListFailed_JustRejects ==
  /\ stage = "listing"
  /\ LaunchFailed /\ NextStage
  /\ UNCHANGED <<world, listed, reads>>

\* ...or fails: the instance is kept if the caller asked so, else terminated.
ListFailed ==
  /\ stage = "listing"
  /\ IF cursor \in KeepOnError
     THEN LaunchFailed /\ NextStage
     ELSE stage' = "retiring" /\ UNCHANGED vars
  /\ UNCHANGED <<world, listed, reads>>

\* launch() rejects either way; what is left behind differs.
Retire ==
  /\ stage = "retiring"
  /\ \/ world' = [world EXCEPT ![Current] = "terminated"]
     \/ RetireMayFail /\ UNCHANGED world
  /\ LaunchFailed
  /\ NextStage
  /\ UNCHANGED <<listed, reads>>

\* A refresh by a monitor tick or by a user's operation is answered.
OtherRead ==
  /\ OthersReading < MaxReads
  /\ reads' = Append(reads, [by |-> "other", snap |-> Live])
  /\ UNCHANGED <<vars, world, listed, stage>>

\* refresh(): lastInstances = the answer.
TakeRead(k) ==
  /\ FifoReads => k = 1
  /\ listed' = reads[k].snap
  /\ reads' = RemoveAt(reads, k)
  /\ UNCHANGED world

\* With its own refresh launch() resolves and the engine goes on.
ApplyRead(k) ==
  /\ TakeRead(k)
  /\ \/ reads[k].by = "launch" /\ LaunchSucceeded /\ NextStage
     \/ reads[k].by = "other" /\ UNCHANGED <<vars, stage>>

\* TTL, cost limit or idle rule, the job's own end, or the user.
Ends(i) ==
  /\ world[i] = "running"
  /\ \E s \in {"stopped", "terminated"} : world' = [world EXCEPT ![i] = s]
  /\ UNCHANGED <<vars, listed, reads, stage>>

Restarts(i) ==
  /\ MayRestart
  /\ world[i] = "stopped"
  /\ world' = [world EXCEPT ![i] = "running"]
  /\ UNCHANGED <<vars, listed, reads, stage>>

TimePasses == Tick /\ UNCHANGED clientVars

LaunchProgress ==
  LaunchRefused \/ InstanceCreated \/ ListServed \/ ListFailed \/ Retire

ClientNext ==
  \/ PumpStep
  \/ LaunchProgress
  \/ OtherRead
  \/ \E k \in DOMAIN reads : ApplyRead(k)
  \/ \E i \in Instances : Ends(i) \/ Restarts(i)
  \/ TimePasses

ClientSpec == ClientInit /\ [][ClientNext]_allVars

-----------------------------------------------------------------------------
ClientTypeOK ==
  /\ TypeOK
  /\ world \in [Instances -> {"none", "running", "stopped", "terminated"}]
  /\ listed \subseteq Instances
  /\ \A k \in DOMAIN reads : reads[k].snap \subseteq Instances
  /\ stage \in {"idle", "creating", "listing", "refreshing", "retiring"}
  /\ (stage = "idle") = (cursor = 0)

\* The engine accounts for every running instance: it is the one of a member
\* recorded as launching or running.  So no member completes while its
\* instance lives, and no retry starts beside a survivor of the attempt before.
Tracked == {InstanceOf(m) : m \in In(st, {"launching", "running"})}
NothingRunsUntracked == Live \subseteq Tracked

\* maxConcurrent as its option states it: instances running at once.
LiveWithinCap == Cardinality(Live) <= Cap

\* Whatever the provider, the lists and the restarts do, the engine takes only
\* its own steps: what is proved of FanOut for an arbitrary environment holds
\* under the client.
ImplementsEngine == Spec

\* An instance exists only once every instance of the jobs it depends on has
\* ended, seen from the provider and not from the engine's records.
DependentsStartAfterEnd ==
  \A i, d \in Instances :
    world[i] # "none" /\ d[1] \in DependsOn[i[1]] => world[d] # "running"

\* "completed": the instance is no longer live.
CompletedMeansEnded ==
  \A m \in In(st, {"completed"}) : InstanceOf(m) \notin Live

\* A running instance the engine does not account for is named in the error
\* of its failed member, so that someone can be told to terminate it by hand.
LeaksAreShown ==
  \A i \in Live \ Tracked : st[i[1]] = "failed" /\ i = InstanceOf(i[1])
=============================================================================
