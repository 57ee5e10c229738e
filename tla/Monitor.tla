------------------------------ MODULE Monitor ------------------------------
(***************************************************************************)
(* SpawnClient's monitor, extend and the orphan reaper on EC2, where every *)
(* call takes time and may fail.  The timer fires every 250 ms whether or  *)
(* not the last tick has ended, so several ticks may be under way, each    *)
(* acting on the list it was answered; other calls go by between its       *)
(* awaits.  An action is one call served, with what the client does from   *)
(* its answer to its next await.                                           *)
(*                                                                         *)
(* The launches that the fan-outs make at the end of a tick are the        *)
(* subject of SpawnFanOut; here a tick only reaches its pump or does not.  *)
(***************************************************************************)
EXTENDS Lifecycle

CONSTANTS
  N,           \* number of instances
  Launched,    \* the instances as launched
  Spot,        \* those that EC2 refuses to stop: one-time Spot requests
  Slots,       \* ticks that may be under way at once
  Extenders,   \* extend calls that may be under way at once
  Extensions,  \* durations they are called with
  MayReap,     \* whether the orphan banner is used
  UserActs,    \* whether instances are stopped and started by hand or by spored
  Grace, Horizon

Ids == 1 .. N

\* An instance, with what is known of it: its tags, and what they were set from.
Instance == [state : {"running", "stopped", "terminated"}, launch : Nat, lastActivity : Nat,
             ttl : Nat, deadline : 0 .. Horizon, idleTimeout : Nat, hibernates : BOOLEAN,
             budget : Nat, compute : Nat, onComplete : {"none", "terminate", "stop", "hibernate", "exit"}]

ASSUME MonitorConstants ==
  /\ N \in Nat \ {0} /\ Grace \in Nat /\ Horizon \in Nat
  /\ Launched \in [Ids -> Instance]
  /\ Extensions \subseteq Nat

VARIABLES
  clock,
  fleet,    \* EC2: each instance's state and tags
  listed,   \* lastInstances
  tick,     \* each tick under way
  ext,      \* each extend under way
  reap,     \* the reaping of the orphans last shown
  granted   \* history: what the extensions of each instance add up to; one that is
            \* written counts with those written before it read the instance, and
            \* takes the place of those written in between

vars == <<clock, fleet, listed, tick, ext, reap, granted>>

\* snap: the list a tick acts on; moved: history, the instances whose
\* deadline was extended since that list was read.
Idle == [stage |-> "idle", snap |-> Launched, at |-> 0, action |-> "none", moved |-> {}]
NoExtend == [stage |-> "idle", at |-> 0, by |-> 0, base |-> 0, tags |-> Launched[1]]
NoReap == [stage |-> "idle", todo |-> {}, snap |-> Launched, moved |-> {}]

Init ==
  /\ clock = 1
  /\ fleet = Launched
  /\ listed = Launched
  /\ tick = [k \in Slots |-> Idle]
  /\ ext = [e \in Extenders |-> NoExtend]
  /\ reap = NoReap
  /\ granted = [i \in Ids |-> 0]

Goes(k, t) == tick' = [tick EXCEPT ![k] = t]

-----------------------------------------------------------------------------
(* EC2.                                                                    *)

\* Whether a call that makes of an instance what StateAfter says is accepted.
Accepts(i, action) ==
  \/ action = "terminate"
  \/ /\ action \in {"stop", "hibernate"}
     /\ fleet[i].state \in {"running", "stopped"}
     /\ i \notin Spot
  \/ /\ action = "start"
     /\ fleet[i].state \in {"running", "stopped"}

\* A hibernated instance is listed as stopped.
Ec2State(i, action) ==
  IF action = "start" THEN "running"
  ELSE IF action = "terminate" THEN "terminated" ELSE "stopped"

Perform(i, action) == fleet' = [fleet EXCEPT ![i].state = Ec2State(i, action)]

-----------------------------------------------------------------------------
(* The monitor.                                                            *)

TimerFires(k) ==
  /\ tick[k].stage = "idle"
  /\ Goes(k, [Idle EXCEPT !.stage = "listing"])
  /\ UNCHANGED <<clock, fleet, listed, ext, reap, granted>>

\* The list is read; its answer is on the way.
ListServed(k) ==
  /\ tick[k].stage \in {"listing", "relisting"}
  /\ Goes(k, [tick[k] EXCEPT !.snap = fleet, !.moved = {},
                             !.stage = IF @ = "listing" THEN "answer" ELSE "reanswer"])
  /\ UNCHANGED <<clock, fleet, listed, ext, reap, granted>>

\* A failing list rejects the tick, which nobody awaits.
ListFailed(k) ==
  /\ tick[k].stage \in {"listing", "relisting"}
  /\ Goes(k, Idle)
  /\ UNCHANGED <<clock, fleet, listed, ext, reap, granted>>

\* The loop goes on at instance n: the next decision is applied and awaited,
\* or the list is refreshed at the end.
LoopFrom(k, t, n) ==
  LET decision(i) == Decision(t.snap[i], clock, FALSE, TRUE)
      due == {i \in n .. N : decision(i) # NoDecision}
      first == CHOOSE i \in due : \A j \in due : i <= j
  IN Goes(k, IF due = {} THEN [t EXCEPT !.stage = "relisting"]
             ELSE [t EXCEPT !.stage = "acting", !.at = first, !.action = decision(first).action])

\* Variant: the tick evaluates the list of the one before.
ListAnswered_NotRefreshed(k) ==
  /\ tick[k].stage = "answer"
  /\ LoopFrom(k, [tick[k] EXCEPT !.snap = listed], 1)
  /\ listed' = tick[k].snap
  /\ UNCHANGED <<clock, fleet, ext, reap, granted>>

ListAnswered(k) ==
  /\ tick[k].stage = "answer"
  /\ listed' = tick[k].snap
  /\ LoopFrom(k, tick[k], 1)
  /\ UNCHANGED <<clock, fleet, ext, reap, granted>>

ActionServed(k) ==
  /\ tick[k].stage = "acting"
  /\ Accepts(tick[k].at, tick[k].action)
  /\ Perform(tick[k].at, tick[k].action)
  /\ LoopFrom(k, tick[k], tick[k].at + 1)
  /\ UNCHANGED <<clock, listed, ext, reap, granted>>

\* Variant: a tick that fails is never over, so none follows it.
ActionFailed_NeverOver(k) ==
  /\ tick[k].stage = "acting"
  /\ Goes(k, [tick[k] EXCEPT !.stage = "failed"])
  /\ UNCHANGED <<clock, fleet, listed, ext, reap, granted>>

\* A refused or failing action rejects the tick: the instances after it in the
\* list are not looked at and the fan-outs not pumped.  The call may have been
\* performed and its answer lost.
ActionFailed(k) ==
  /\ tick[k].stage = "acting"
  /\ \/ UNCHANGED fleet
     \/ /\ Accepts(tick[k].at, tick[k].action)
        /\ Perform(tick[k].at, tick[k].action)
  /\ Goes(k, Idle)
  /\ UNCHANGED <<clock, listed, ext, reap, granted>>

ListAnsweredAgain(k) ==
  /\ tick[k].stage = "reanswer"
  /\ listed' = tick[k].snap
  /\ Goes(k, [tick[k] EXCEPT !.stage = "pumping"])
  /\ UNCHANGED <<clock, fleet, ext, reap, granted>>

PumpFanOuts(k) ==
  /\ tick[k].stage = "pumping"
  /\ Goes(k, Idle)
  /\ UNCHANGED <<clock, fleet, listed, ext, reap, granted>>

-----------------------------------------------------------------------------
(* extend: the instance is read, the deadline computed and the tags        *)
(* written.                                                                *)

ExtendResolved(e) ==
  /\ ext[e].stage = "idle"
  /\ \E i \in Ids, by \in Extensions :
       /\ TtlDeadline(fleet[i]) # 0
       /\ TtlDeadline(Extended(fleet[i], by, clock)) <= Horizon
       /\ ext' = [ext EXCEPT ![e] = [stage |-> "tagging", at |-> i, by |-> by, base |-> granted[i],
                                     tags |-> Extended(fleet[i], by, clock)]]
  /\ UNCHANGED <<clock, fleet, listed, tick, reap, granted>>

\* CreateTags is performed.
TagsWritten(e) ==
  LET i == ext[e].at IN
  /\ ext[e].stage = "tagging"
  /\ fleet' = [fleet EXCEPT ![i].deadline = ext[e].tags.deadline, ![i].ttl = ext[e].tags.ttl]
  /\ tick' = [k \in Slots |-> [tick[k] EXCEPT !.moved = @ \cup {i}]]
  /\ reap' = [reap EXCEPT !.moved = @ \cup {i}]
  /\ granted' = [granted EXCEPT ![i] = ext[e].base + ext[e].by]
  /\ UNCHANGED <<clock, listed>>

ExtendTagged(e) ==
  /\ TagsWritten(e)
  /\ ext' = [ext EXCEPT ![e].stage = "refreshing"]

\* The refresh at the end; the terminal's extend makes none, and it may fail.
ExtendEnds(e) ==
  /\ ext[e].stage = "refreshing"
  /\ listed' \in {fleet, listed}
  /\ ext' = [ext EXCEPT ![e] = NoExtend]
  /\ UNCHANGED <<clock, fleet, tick, reap, granted>>

\* The call is refused, or performed and its answer lost: extend rejects.
ExtendFails(e) ==
  /\ ext[e].stage = "tagging"
  /\ ext' = [ext EXCEPT ![e] = NoExtend]
  /\ UNCHANGED <<clock, fleet, listed, tick, reap, granted>>

ExtendLost(e) ==
  /\ TagsWritten(e)
  /\ ext' = [ext EXCEPT ![e] = NoExtend]

-----------------------------------------------------------------------------
(* The orphan banner: the orphans of the list last shown are kept while    *)
(* the user is asked, then terminated one after another.                   *)

OrphansOf(list) ==
  {i \in Ids :
     /\ list[i].state \in {"running", "pending"}
     /\ TtlDeadline(list[i]) > 0
     /\ clock > TtlDeadline(list[i]) + Grace}

AskToReap ==
  /\ MayReap
  /\ reap.stage = "idle"
  /\ OrphansOf(listed) # {}
  /\ reap' = [stage |-> "reaping", todo |-> OrphansOf(listed), snap |-> listed,
              moved |-> {i \in Ids : fleet[i].deadline # listed[i].deadline}]
  /\ UNCHANGED <<clock, fleet, listed, tick, ext, granted>>

MostOverdue ==
  CHOOSE i \in reap.todo :
    \A j \in reap.todo : TtlDeadline(reap.snap[i]) <= TtlDeadline(reap.snap[j])

ReapServed ==
  /\ reap.stage = "reaping"
  /\ Perform(MostOverdue, "terminate")
  /\ reap' = [reap EXCEPT !.todo = @ \ {MostOverdue},
                          !.stage = IF reap.todo = {MostOverdue} THEN "refreshing" ELSE @]
  /\ UNCHANGED <<clock, listed, tick, ext, granted>>

ReapFailed ==
  /\ reap.stage = "reaping"
  /\ UNCHANGED fleet \/ Perform(MostOverdue, "terminate")
  /\ reap' = NoReap
  /\ UNCHANGED <<clock, listed, tick, ext, granted>>

ReapEnds ==
  /\ reap.stage = "refreshing"
  /\ listed' \in {fleet, listed}
  /\ reap' = NoReap
  /\ UNCHANGED <<clock, fleet, tick, ext, granted>>

-----------------------------------------------------------------------------
(* The world.                                                              *)

\* stop, start and terminate calls of the user, or spored doing the same.
Elsewhere(i, action) ==
  /\ UserActs
  /\ Accepts(i, action)
  /\ Perform(i, action)
  /\ UNCHANGED <<clock, listed, tick, ext, reap, granted>>

TimePasses ==
  /\ clock < Horizon + Grace + 1
  /\ clock' = clock + 1
  /\ UNCHANGED <<fleet, listed, tick, ext, reap, granted>>

Next ==
  \/ \E k \in Slots :
       \/ TimerFires(k) \/ ListServed(k) \/ ListFailed(k) \/ ListAnswered(k)
       \/ ActionServed(k) \/ ActionFailed(k) \/ ListAnsweredAgain(k) \/ PumpFanOuts(k)
  \/ \E e \in Extenders :
       ExtendResolved(e) \/ ExtendTagged(e) \/ ExtendLost(e) \/ ExtendEnds(e) \/ ExtendFails(e)
  \/ AskToReap \/ ReapServed \/ ReapFailed \/ ReapEnds
  \/ \E i \in Ids, action \in {"stop", "start", "terminate"} : Elsewhere(i, action)
  \/ TimePasses

Spec == Init /\ [][Next]_vars

\* The timer keeps firing, calls are answered, and a call that is made again
\* and again is not refused for ever unless EC2 never accepts it.
FairSpec ==
  /\ Spec
  /\ \A k \in Slots :
       /\ WF_vars(TimerFires(k)) /\ SF_vars(ListServed(k))
       /\ WF_vars(ListAnswered(k)) /\ WF_vars(ListAnsweredAgain(k)) /\ WF_vars(PumpFanOuts(k))
       /\ WF_vars(ActionServed(k) \/ ActionFailed(k))
       /\ \A i \in Ids : SF_vars(ActionServed(k) /\ tick[k].at = i)

-----------------------------------------------------------------------------
Stages == {"idle", "listing", "answer", "acting", "relisting", "reanswer", "pumping"}

MonitorTypeOK ==
  /\ \A i \in Ids :
       /\ fleet[i].state \in {"running", "stopped", "terminated"}
       /\ fleet[i].deadline \in 0 .. Horizon
  /\ \A k \in Slots :
       /\ tick[k].stage \in Stages
       /\ tick[k].stage = "acting" => tick[k].at \in Ids /\ tick[k].action # "none"
  /\ \A e \in Extenders : ext[e].stage \in {"idle", "tagging", "refreshing"}
  /\ reap.stage = "reaping" <=> reap.todo # {}

Overdue(i) == TtlFires(fleet[i], clock)

\* Something is to terminate it, whoever looks.
Due(i) == Overdue(i) \/ CostFires(fleet[i])

\* Whose call a step of instance i is: a tick's, or the banner's.
ByTick(k, i) == tick[k].stage = "acting" /\ tick[k].at = i /\ tick'[k] # tick[k]
ByReap(i) == reap.stage = "reaping" /\ reap' # reap
Ends(i) == fleet[i].state # "terminated" /\ fleet'[i].state = "terminated"

\* Only the race with an extension can make the client terminate an instance
\* that is not due: each termination is of an instance overdue or out of budget
\* when the call is served, or one whose deadline was moved after the list was
\* read that the decision was made on.
DueOrMoved ==
  \A i \in Ids : Ends(i) =>
    /\ \A k \in Slots : ByTick(k, i) => Due(i) \/ i \in tick[k].moved
    /\ ByReap(i) => Overdue(i) \/ i \in reap.moved

\* Extensions that follow one another all count, those whose answer was lost and
\* those of overdue instances too; of two that overlap, the one written last.
NoExtensionLost ==
  \A i \in Ids : TtlDeadline(fleet[i]) >= TtlDeadline(Launched[i]) + granted[i]
=============================================================================
