------------------------------- MODULE MCWorlds -------------------------------
(***************************************************************************)
(* Two worlds for the fan-outs of SpawnFanOut.  In the orderly one, lists  *)
(* arrive in the order of their calls, every failed launch is retired and  *)
(* nothing starts again: the guarantees a user reads into the options hold *)
(* there.  In the hostile one, lists overtake each other, instances are    *)
(* kept or leaked by failed launches and stopped ones start again: the cap *)
(* is exceeded there, by these and by no others.                           *)
(***************************************************************************)
EXTENDS SpawnFanOut

VARIABLES
  kind,
  letGo   \* history: the instances that the record lost sight of while they could run

\* A chain and a free job, of which one is retried; a chain of two.
ChainDeps     == <<{}, {}, {1}>>
ChainAttempts == <<2, 1, 1>>
PairDeps      == <<{}, {1}>>
PairAttempts  == <<2, 1>>

KeptOnes == {2}
Hostile == INSTANCE SpawnFanOut WITH
             DependsOn <- <<{}, {}, {1, 2}>>, RetryDelay <- 0, FifoReads <- FALSE,
             MaxReads <- 1, KeepOnError <- KeptOnes, RetireMayFail <- TRUE, MayRestart <- TRUE

\* A step lets an instance run beyond the record: its launch fails and keeps it,
\* or is refused its termination; it starts again after the record gave it up; or
\* it is recorded completed on a list that does not show it yet, or no more.
LetGo ==
  {i \in Live' :
     \/ stage = "listing" /\ stage' \in {"idle", "creating"} /\ cursor \in KeptOnes /\ i = Current
     \/ stage = "retiring" /\ stage' # "retiring" /\ i = Current
     \/ world[i] = "stopped" /\ i \notin Tracked
     \/ st[i[1]] = "running" /\ st'[i[1]] = "completed" /\ i \notin listed}

\* Bound: in the hostile world nothing but a retirement terminates: what stops and is never
\* started again is as good as terminated.
OnlyStops ==
  \A i \in Instances : world[i] = "running" /\ world'[i] = "terminated" => stage = "retiring"

WorldsInit ==
  /\ letGo = {}
  /\ \/ kind = "orderly" /\ ClientInit
     \/ kind = "hostile" /\ Hostile!ClientInit

WorldsNext ==
  /\ UNCHANGED kind
  /\ \/ kind = "orderly" /\ ClientNext /\ UNCHANGED letGo
     \/ kind = "hostile" /\ Hostile!ClientNext /\ OnlyStops /\ letGo' = letGo \cup LetGo

worldsVars == <<allVars, kind, letGo>>

\* One world alone, as its constants make it.
PairSpec == /\ kind = "pair" /\ letGo = {} /\ ClientInit
            /\ [][ClientNext /\ UNCHANGED <<kind, letGo>>]_worldsVars

InOrder(step) == kind = "orderly" /\ step /\ UNCHANGED <<kind, letGo>>

\* The monitor's interval fires for ever and every provider call is answered.
\* Every instance ends: its TTL terminates it at the latest.
WorldsSpec ==
  /\ WorldsInit /\ [][WorldsNext]_worldsVars
  /\ WF_worldsVars(InOrder(PumpStep))
  /\ WF_worldsVars(InOrder(LaunchProgress))
  /\ WF_worldsVars(InOrder(OtherRead))
  /\ WF_worldsVars(InOrder(\E k \in DOMAIN reads : ApplyRead(k)))
  /\ \A i \in Instances : WF_worldsVars(InOrder(Ends(i)))
  /\ WF_worldsVars(InOrder(TimePasses))

(***************************************************************************)
(* What a user reads into the options: maxConcurrent bounds the instances  *)
(* that are running, not only those recorded so, and nothing runs that the *)
(* engine does not account for: no member completes while its instance     *)
(* lives, no retry starts beside a survivor (fanout.ts:47, client.ts:478). *)
(***************************************************************************)
ClientConsistent ==
  kind = "orderly" => ClientTypeOK /\ LiveWithinCap /\ NothingRunsUntracked

(***************************************************************************)
(* "completed" means that the instance is no longer live, and a job starts *)
(* only when the instances of the jobs it waits for have ended             *)
(* (fanout.ts:131, 238).                                                   *)
(***************************************************************************)
EndsAreTrue ==
  kind = "orderly" => CompletedMeansEnded /\ DependentsStartAfterEnd

(***************************************************************************)
(* Every member of a set settles in the end: no throttle, retry, backoff,  *)
(* dependency or cap leaves one waiting for ever.                          *)
(***************************************************************************)
EveryMemberSettles ==
  kind = "orderly" ~> \A m \in DOMAIN st : st[m] \in {"completed", "failed", "skipped"}

(***************************************************************************)
(* Under lists that overtake each other, leaks and restarts, whatever runs *)
(* beyond the record, and beyond maxConcurrent with it, is an instance     *)
(* that was let go of for one of four reasons: kept by keepOnError, its    *)
(* termination refused, started again, completed on a stale list           *)
(* (client.ts:478-500, fanout.ts:238, 371).                                *)
(***************************************************************************)
ExtrasWereLetGo ==
  kind = "hostile" =>
    /\ Live \ Tracked \subseteq letGo
    /\ Cardinality(Live \ letGo) <= Cap
=============================================================================
