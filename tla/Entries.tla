-------------------------------- MODULE Entries --------------------------------
(***************************************************************************)
(* The doors through which a launch is asked for: the terminal's `launch`, *)
(* `array`, `sweep` and `queue` (cli/commands.ts) and the dashboard's      *)
(* three forms (ui/dashboard.ts).  Each reads its flags or fields in its   *)
(* own way, some with a refusal and some with a default, and hands on a    *)
(* LaunchInput or a fan-out's options; client.launch and FanOut have the   *)
(* last word.                                                              *)
(*                                                                         *)
(* A text is a class: absent, a flag that stands alone, 0, a good value, a *)
(* large one, one with a minus, or a slip of the keyboard.                 *)
(***************************************************************************)
EXTENDS Integers, FiniteSets

CONSTANTS Requests   \* what is typed: records of RequestFields

Classes    == {"absent", "alone", "zero", "good", "large", "minus", "slip"}
Good     == 2
Large    == 9
Refused  == -1

FanDoors == {"array", "sweep", "queue", "sweep form", "queue form"}
RequestFields ==
    [door : {"launch", "form"} \cup FanDoors,
     texts : [{"ttl", "idle", "cost", "cap", "delay", "viable", "density"} -> Classes],
     count : -1 .. 3,                                \* --count, or the members of a grid or queue
     odd : BOOLEAN,                                  \* an action or a plugin nobody knows, or no name
     toggles : SUBSET {"mpi", "no-timeout", "yes"}]

\* Only what stands behind --count may be less than nothing.
ASSUME EntriesConstants == Requests \subseteq RequestFields /\ \A r \in Requests : r.door # "array" => r.count >= 0

VARIABLES
    request,
    real,      \* provider.isReal
    intake,    \* "typed", "asks", "refused", "started"
    input,     \* what goes to client.launch, or to the provider: the bounds
    fan,       \* the options FanOut runs with, and how many members are left to launch
    runs       \* history: the instances launched, each with its bounds and whether the user confirmed

entryVars == <<request, real, intake, input, fan, runs>>

Text(f) == request.texts[f]
NoBounds    == [ttl |-> 0, idle |-> 0, cost |-> 0]
NoFan       == [cap |-> 0, delay |-> 0, viable |-> 1, density |-> 0, left |-> 0]

-----------------------------------------------------------------------------
(* How a text is read.                                                     *)

\* flagStr: a flag that stands alone is not there.
Stands(txt) == txt \notin {"absent", "alone"}

\* Number(flagStr(...)) || 0: what is no number is 0.
NumberOrZero(txt) == CASE txt = "good" -> Good [] txt = "large" -> Large [] txt = "minus" -> -Good [] OTHER -> 0

\* durFlag: a duration of the command line.
DurFlag(f, txt) ==
    IF ~ Stands(txt) THEN 0
    ELSE IF txt \in {"minus", "slip"} \/ (txt = "zero" /\ f = "ttl") THEN Refused
    ELSE NumberOrZero(txt)

\* toSpec: the duration of a LaunchInput; "" and 0 are none.
ToSpecDuration(txt) == IF txt \in {"minus", "slip"} THEN Refused ELSE NumberOrZero(txt)

\* numFlag: absent, a number, or refused.
NumFlagRefuses(txt) == txt \in {"alone", "slip"}

\* launchDelayMs: parseDuration(raw) ?? 0, which reads a sign.
DelayOf(txt) == NumberOrZero(txt)

Max0(n) == IF n > 0 THEN n ELSE 0

\* FanOut clamps the threshold to its members.
MinViable(txt, size) ==
    LET want == IF txt = "absent" THEN 1 ELSE NumberOrZero(txt)
    IN  IF want < 1 THEN 1 ELSE IF want > size THEN size ELSE want

-----------------------------------------------------------------------------
EntriesInit ==
    /\ request \in Requests /\ real \in BOOLEAN
    /\ intake = "typed" /\ input = NoBounds /\ fan = NoFan /\ runs = {}

TurnAway == intake' = "refused" /\ UNCHANGED <<request, real, input, fan, runs>>

\* The instance is there; `sure` is whether somebody said so with no bound at all.
Runs(bounds, sure) == runs' = runs \cup {[bounds |-> bounds, sure |-> sure]}

\* evaluateBounds.
Unlimited(bounds) == real /\ bounds.ttl <= 0 /\ bounds.idle <= 0 /\ bounds.cost <= 0

\* The bounds of a command: each duration may refuse the line, a cost limit never does.
Typed == [ttl |-> DurFlag("ttl", Text("ttl")), idle |-> DurFlag("idle", Text("idle")), cost |-> NumberOrZero(Text("cost"))]
LineRefused == request.odd \/ Refused \in {Typed.ttl, Typed.idle}

\* `spawn launch`, which goes to the provider by itself.
LaunchLine ==
    /\ intake = "typed" /\ request.door = "launch"
    /\ IF LineRefused \/ (Unlimited(Typed) /\ "no-timeout" \notin request.toggles) THEN TurnAway
       ELSE /\ input' = Typed
            /\ IF Unlimited(Typed) /\ "yes" \notin request.toggles
               THEN intake' = "asks" /\ UNCHANGED runs
               ELSE intake' = "started" /\ Runs(Typed, "yes" \in request.toggles)
            /\ UNCHANGED <<request, real, fan>>

\* ctx.confirm, for the launch nothing would end.
Confirmed ==
    /\ intake = "asks" /\ intake' = "started" /\ Runs(input, TRUE)
    /\ UNCHANGED <<request, real, input, fan>>

Declined == intake = "asks" /\ TurnAway

\* client.launch: toSpec, then the bounds; true if the provider is asked.
SpecOf(i) == [i EXCEPT !.ttl = ToSpecDuration(@), !.idle = ToSpecDuration(@), !.cost = NumberOrZero(@)]
ClientTakes(bounds) == Refused \notin {bounds.ttl, bounds.idle} /\ ~ Unlimited(bounds)

\* The launch form, through client.launch.
FormSubmitted ==
    /\ intake = "typed" /\ request.door = "form"
    /\ LET bounds == SpecOf([ttl |-> Text("ttl"), idle |-> Text("idle"), cost |-> Text("cost")]) IN
         IF request.odd \/ ~ ClientTakes(bounds) THEN TurnAway
         ELSE /\ intake' = "started" /\ input' = bounds /\ Runs(bounds, FALSE)
              /\ UNCHANGED <<request, real, fan>>

Density == IF Text("density") = "absent" THEN 0 ELSE NumberOrZero(Text("density"))

\* `spawn array`: the thresholds must be numbers, the density goes with --mpi.
ArrayRefused ==
    \/ LineRefused \/ request.count < 1
    \/ NumFlagRefuses(Text("viable")) \/ NumFlagRefuses(Text("density"))
    \/ Text("density") # "absent" /\ (Density <= 0 \/ "mpi" \notin request.toggles)

FanOf(viable, density) ==
    [cap |-> Max0(NumberOrZero(Text("cap"))), delay |-> Max0(DelayOf(Text("delay"))),
     viable |-> viable, density |-> density, left |-> request.count]

\* buildJobArray and its FanOut.
ArrayLine ==
    /\ intake = "typed" /\ request.door = "array"
    /\ IF ArrayRefused THEN TurnAway
       ELSE /\ intake' = "started" /\ input' = Typed
            /\ fan' = FanOf(MinViable(Text("viable"), request.count), Density)
            /\ UNCHANGED <<request, real, runs>>

\* A fan-out registers at once; its durations are read when a member is launched.
Starts(ttl, idle) ==
    /\ intake' = "started" /\ fan' = FanOf(1, 0)
    /\ input' = [ttl |-> ToSpecDuration(ttl), idle |-> ToSpecDuration(idle), cost |-> 0]
    /\ UNCHANGED <<request, real, runs>>

\* `spawn sweep`: a flag that stands seeds the defaults (module Sweep).
SweepLine ==
    /\ intake = "typed" /\ request.door = "sweep"
    /\ IF request.odd THEN TurnAway ELSE Starts(Text("ttl"), Text("idle"))

\* The sweep form has a field for the TTL alone.
SweepForm ==
    /\ intake = "typed" /\ request.door = "sweep form"
    /\ IF request.odd THEN TurnAway ELSE Starts(Text("ttl"), "absent")

\* validateQueue: every job has a timeout that can be read, which is its TTL.
QueueRefused == request.odd \/ Text("ttl") \in {"absent", "alone", "slip"}

\* `spawn queue`
QueueLine ==
    /\ intake = "typed" /\ request.door = "queue"
    /\ IF QueueRefused THEN TurnAway ELSE Starts(Text("ttl"), "absent")

\* The queue form.
QueueForm ==
    /\ intake = "typed" /\ request.door = "queue form"
    /\ IF QueueRefused THEN TurnAway ELSE Starts(Text("ttl"), "absent")

\* FanOut launches its next member through client.launch; it fails if that refuses.
MemberLaunches ==
    /\ fan.left > 0 /\ fan' = [fan EXCEPT !.left = @ - 1]
    /\ IF ClientTakes(input) THEN Runs(input, FALSE) ELSE UNCHANGED runs
    /\ UNCHANGED <<request, real, intake, input>>

EntriesNext ==
    \/ LaunchLine \/ Confirmed \/ Declined \/ FormSubmitted \/ ArrayLine
    \/ SweepLine \/ SweepForm \/ QueueLine \/ QueueForm \/ MemberLaunches

EntriesSpec == EntriesInit /\ [][EntriesNext]_entryVars
-----------------------------------------------------------------------------
EntriesTypeOK ==
    /\ request \in RequestFields /\ real \in BOOLEAN /\ intake \in {"typed", "asks", "refused", "started"}
    /\ fan.left \in 0 .. 3 /\ fan.cap >= 0 /\ fan.delay >= 0

(***************************************************************************)
(* Whatever the door, a billed instance has a bound, but for the launch    *)
(* line whose --no-timeout was confirmed (commands.ts:276-298).            *)
(***************************************************************************)
NothingBillsUnbounded ==
    \A r \in runs : Unlimited(r.bounds) =>
        request.door = "launch" /\ "no-timeout" \in request.toggles /\ r.sure

(***************************************************************************)
(* A bound in time that somebody typed is the instance's, or there is no   *)
(* instance: a slip is never "none" (client.ts:610-613).                   *)
(***************************************************************************)
SlipsNeverLaunch ==
    \A r \in runs : \A f \in {"ttl", "idle"} :
        f = "ttl" \/ request.door \in {"launch", "form", "array", "sweep"} =>
            /\ Text(f) \notin {"minus", "slip"}
            /\ Text(f) \in {"good", "large"} => r.bounds[f] = NumberOrZero(Text(f))

(***************************************************************************)
(* An array can reach the threshold it runs with, and one it could have    *)
(* reached is the one that was typed (fanout.ts:202-208).                  *)
(***************************************************************************)
ThresholdIsReachable ==
    intake = "started" /\ request.door = "array" =>
        /\ fan.viable \in 1 .. request.count
        /\ Text("viable") = "good" /\ request.count >= Good => fan.viable = Good
        /\ Text("viable") = "large" => fan.viable = request.count
        /\ fan.density > 0 => "mpi" \in request.toggles

\* What is asked for at a door is what runs.
EntriesAreHonoured == EntriesTypeOK /\ NothingBillsUnbounded /\ SlipsNeverLaunch /\ ThresholdIsReachable
=============================================================================
