------------------------------ MODULE MCMonitors ------------------------------
(***************************************************************************)
(* Scenarios of Monitor.  In "races", two ticks, an extension, the orphan  *)
(* banner and the user are around one instance.  In "extensions", a tick,  *)
(* the user and extensions that follow and overlap each other.  In         *)
(* "backstop", the monitor is alone with two instances, on calls that fail *)
(* for a while.  In "spot" it is too, but EC2 refuses to stop the first of *)
(* the two.                                                                *)
(***************************************************************************)
EXTENDS Monitor

VARIABLE scenario

Running(ttl, idleTimeout) ==
  [state |-> "running", launch |-> 1, lastActivity |-> 1, ttl |-> ttl,
   deadline |-> IF ttl > 0 THEN 1 + ttl ELSE 0, idleTimeout |-> idleTimeout,
   hibernates |-> FALSE, budget |-> 0, compute |-> 0, onComplete |-> "none"]

\* The instance of the races.
TtlAndIdle == <<Running(1, 2)>>

\* One to be stopped as idle first in the list, one with a TTL after it.
IdleThenTtl == <<Running(0, 1), Running(2, 3)>>

Backstop == INSTANCE Monitor WITH
              WarnWindow <- 1, N <- 2, Launched <- IdleThenTtl, Spot <- {},
              Slots <- {1}, Extenders <- {}, Extensions <- {1}, MayReap <- FALSE,
              UserActs <- FALSE, Grace <- 1, Horizon <- 4

SpotFirst == INSTANCE Monitor WITH
               WarnWindow <- 1, N <- 2, Launched <- IdleThenTtl, Spot <- {1},
               Slots <- {1}, Extenders <- {}, Extensions <- {1}, MayReap <- FALSE,
               UserActs <- FALSE, Grace <- 1, Horizon <- 4

\* The scenarios that share the constants, and their bounds: of the races, one
\* extension, so that a deadline moves once; of the extensions, one tick at a
\* time, no banner and nobody who stops.
LastMoment == 5
RaceBound ==
  /\ clock' <= LastMoment
  /\ \A e \in Extenders : ext'[e].tags.deadline < Horizon /\ (e # 1 => ext'[e] = NoExtend)
ExtensionBound ==
  /\ clock' <= LastMoment
  /\ \A i \in Ids : fleet'[i].state # "stopped"
  /\ \A k \in Slots \ {1} : tick'[k].stage = "idle"
  /\ reap'.stage = "idle"

Shared == scenario \in {"races", "extensions"}

MonitorsInit ==
  \/ Shared /\ Init
  \/ scenario = "backstop" /\ Backstop!Init

MonitorsNext ==
  /\ UNCHANGED scenario
  /\ \/ scenario = "races" /\ Next /\ RaceBound
     \/ scenario = "extensions" /\ Next /\ ExtensionBound
     \/ scenario = "backstop" /\ Backstop!Next

monitorsVars == <<vars, scenario>>

Alone(step) == scenario = "backstop" /\ step /\ UNCHANGED scenario

\* Fairness of Monitor, of the steps of the monitor that is alone.
MonitorsSpec ==
  /\ MonitorsInit /\ [][MonitorsNext]_monitorsVars
  /\ WF_monitorsVars(Alone(Backstop!TimerFires(1)))
  /\ SF_monitorsVars(Alone(Backstop!ListServed(1)))
  /\ WF_monitorsVars(Alone(Backstop!ListAnswered(1)))
  /\ WF_monitorsVars(Alone(Backstop!ListAnsweredAgain(1)))
  /\ WF_monitorsVars(Alone(Backstop!PumpFanOuts(1)))
  /\ WF_monitorsVars(Alone(Backstop!ActionServed(1) \/ Backstop!ActionFailed(1)))
  /\ \A i \in Backstop!Ids :
       SF_monitorsVars(Alone(Backstop!ActionServed(1) /\ tick[1].at = i))

\* The same of "spot", a specification of its own.
WithSpot(step) == scenario = "spot" /\ step /\ UNCHANGED scenario

SpotSpec ==
  /\ scenario = "spot" /\ SpotFirst!Init /\ [][WithSpot(SpotFirst!Next)]_monitorsVars
  /\ WF_monitorsVars(WithSpot(SpotFirst!TimerFires(1)))
  /\ SF_monitorsVars(WithSpot(SpotFirst!ListServed(1)))
  /\ WF_monitorsVars(WithSpot(SpotFirst!ListAnswered(1)))
  /\ WF_monitorsVars(WithSpot(SpotFirst!ListAnsweredAgain(1)))
  /\ WF_monitorsVars(WithSpot(SpotFirst!PumpFanOuts(1)))
  /\ WF_monitorsVars(WithSpot(SpotFirst!ActionServed(1) \/ SpotFirst!ActionFailed(1)))
  /\ \A i \in SpotFirst!Ids :
       SF_monitorsVars(WithSpot(SpotFirst!ActionServed(1) /\ tick[1].at = i))

(***************************************************************************)
(* Extensions that follow one another all count, before and after the      *)
(* deadline, reported or with their answer lost, whatever ticks, banner    *)
(* and user do meanwhile; of those that overlap, one that is written takes *)
(* the place of those written since it read (client.ts:531-540).           *)
(***************************************************************************)
RacesKeepExtensions == Shared => MonitorTypeOK /\ NoExtensionLost

(***************************************************************************)
(* Only the race with an extension makes the client terminate an instance  *)
(* that is not due: no other step between the reading of a list and a call *)
(* decided on it does (client.ts:215, 414).                                *)
(***************************************************************************)
RacesKillOnlyTheDue == [][Shared => DueOrMoved]_monitorsVars

(***************************************************************************)
(* The unconditional backstop: an overdue instance that nobody else        *)
(* touches is terminated (lifecycle.ts:118, client.ts:201).                *)
(***************************************************************************)
OverdueOnesEnd ==
  \A i \in 1 .. 2 :
    (scenario \in {"backstop", "spot"} /\ fleet[i].state = "running" /\ Overdue(i))
       ~> scenario \in {"backstop", "spot"} /\ fleet[i].state = "terminated"
=============================================================================
