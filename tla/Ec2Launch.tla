------------------------------ MODULE Ec2Launch ------------------------------
(***************************************************************************)
(* One launch of a real instance: SpawnClient.launch (core/client.ts) on   *)
(* EC2Provider.launch (aws/ec2.ts), with the bounds it is refused for      *)
(* (core/bounds.ts), and the bootstrap that makes the instance enforce     *)
(* them itself (aws/userdata.ts).                                          *)
(*                                                                         *)
(* EC2, the buckets the bootstrap reads, spored and the TTL reaper are     *)
(* external.                                                               *)
(***************************************************************************)
EXTENDS Naturals

CONSTANTS
    Requests,     \* what callers ask for: records of the fields below
    Bases,        \* the places a body is fetched from, 1 .. Bases, in order
    RetireTries   \* how often a bootstrap tries to terminate its instance

Fields == [ttl : BOOLEAN, idle : BOOLEAN, cost : BOOLEAN,  \* the bounds
           onComplete : {"none", "terminate", "stop"},
           spot : BOOLEAN, nested : BOOLEAN,          \* market, profile
           flaw : {"none", "plugin", "username", "userdata", "tags"},
           ami : BOOLEAN, allow : BOOLEAN, keep : BOOLEAN]

ASSUME LaunchConstants == /\ Requests \subseteq Fields
                          /\ Bases \in Nat \ {0} /\ RetireTries \in Nat \ {0}

VARIABLES
    request,      \* what was asked for
    step,         \* where the launch is
    told,         \* what its error says of the instance
    calls,        \* the calls of AWS that were made
    ec2,          \* the instance: "none", "running", "stopped", "terminated"
    unanswered,   \* history: an answer for something done was lost or named no instance
    boot,         \* the bootstrap, and then spored
    base,         \* the place it fetches from
    fetched,      \* the files it holds: "none", "partial", "forged", "genuine"
    tries,        \* failed attempts to terminate itself
    unstoppable   \* history: spored asked for a stop that EC2 refuses

launchVars == <<request, step, told, calls, ec2, unanswered>>
bootVars   == <<boot, base, fetched, tries, unstoppable>>
ec2Vars    == <<launchVars, bootVars>>

-----------------------------------------------------------------------------
(***************************************************************************)
(* bounds.ts, for a real provider.                                         *)
(***************************************************************************)
Bounds(r) == {b \in {"ttl", "idle-timeout", "cost-limit"} :
                 CASE b = "ttl" -> r.ttl [] b = "idle-timeout" -> r.idle [] OTHER -> r.cost}

\* The cost limit taken for a bound that holds without the instance.
EvaluateBounds_CostIsExternal(r) ==
    [refuse |-> Bounds(r) = {}, warn |-> Bounds(r) = {"idle-timeout"}]

EvaluateBounds(r) == [refuse |-> Bounds(r) = {},
                      warn   |-> Bounds(r) # {} /\ "ttl" \notin Bounds(r)]

NestedSpawnRefused(r) == r.nested /\ ~r.ttl

NeedsStoppable(r) == r.idle \/ r.onComplete = "stop"

SpotRefused(r) == r.spot /\ NeedsStoppable(r)

\* What refuses a launch, of the checks made before the first call of AWS.
Refused(r) ==
    \/ EvaluateBounds(r).refuse /\ ~r.allow
    \/ NestedSpawnRefused(r)
    \/ SpotRefused(r)
    \/ r.flaw # "none"     \* a plugin, the username, the user data, the tags

-----------------------------------------------------------------------------
Ec2Init ==
    /\ request \in Requests
    /\ step = "idle" /\ told = "nothing" /\ calls = {}
    /\ ec2 = "none" /\ unanswered = FALSE
    /\ boot = "off" /\ base = 1 /\ fetched = "none" /\ tries = 0 /\ unstoppable = FALSE

StepsTo(to) == step' = to /\ UNCHANGED <<request, told, ec2, unanswered, bootVars>>
Rejects(what) == step' = "rejected" /\ told' = what /\ UNCHANGED <<request, calls>>

Ask == step = "idle" /\ StepsTo("asked") /\ UNCHANGED calls

Refuse ==
    /\ step = "asked" /\ Refused(request)
    /\ Rejects("nothing") /\ UNCHANGED <<ec2, unanswered, bootVars>>

\* Only now is AWS called.
Accept ==
    /\ step = "asked" /\ ~Refused(request)
    /\ StepsTo("identity") /\ calls' = calls \cup {"GetCallerIdentity"}

\* A launch that cannot name its owner must not happen.
IdentityResolved ==
    /\ step = "identity"
    /\ \/ ~request.ami /\ StepsTo("ami") /\ calls' = calls \cup {"DescribeImages"}
       \/ request.ami /\ StepsTo("run") /\ calls' = calls \cup {"RunInstances"}

AmiResolved ==
    /\ step = "ami"
    /\ StepsTo("run") /\ calls' = calls \cup {"RunInstances"}

CallFailed ==
    /\ step \in {"identity", "ami", "run"}
    /\ Rejects("nothing") /\ UNCHANGED <<ec2, unanswered, bootVars>>

\* RunInstances: the answer names the instance, or it does not, or it is lost.
InstanceRuns ==
    /\ step = "run" /\ ec2 = "none"
    /\ ec2' = "running" /\ boot' = "setup"
    /\ \/ step' = "refresh" /\ UNCHANGED <<request, calls, told, unanswered>>
       \/ Rejects("unidentified") /\ unanswered' = TRUE
       \/ Rejects("nothing") /\ unanswered' = TRUE
    /\ UNCHANGED <<base, fetched, tries, unstoppable>>

-----------------------------------------------------------------------------
(***************************************************************************)
(* The instance exists: the client lists once more before it resolves.     *)
(***************************************************************************)
ListServedAgain ==
    /\ step = "refresh"
    /\ StepsTo("resolved") /\ UNCHANGED calls

\* The launch whose instance is kept is neither resolved nor rejected.
ListFailedAgain_NeverSettles ==
    /\ step = "refresh"
    /\ \/ request.keep /\ step' = "kept"
       \/ ~request.keep /\ step' = "retire"
    /\ UNCHANGED <<request, calls, told, ec2, unanswered, bootVars>>

\* A list that fails rejects the launch: "KEPT", or terminated first.
ListFailedAgain ==
    /\ step = "refresh"
    /\ \/ request.keep /\ Rejects("kept")
       \/ ~request.keep /\ step' = "retire" /\ UNCHANGED <<request, calls, told>>
    /\ UNCHANGED <<ec2, unanswered, bootVars>>

EndsAs(how) == ec2' = IF ec2 = "terminated" THEN "terminated" ELSE how

RetireServed ==
    /\ step = "retire"
    /\ EndsAs("terminated")
    /\ \/ Rejects("terminated") /\ UNCHANGED unanswered
       \/ Rejects("billing") /\ unanswered' = TRUE
    /\ UNCHANGED bootVars

\* The error of the terminate is swallowed.
RetireFailed_Swallowed ==
    /\ step = "retire"
    /\ Rejects("terminated") /\ UNCHANGED <<ec2, unanswered, bootVars>>

RetireFailed ==
    /\ step = "retire"
    /\ Rejects("billing") /\ UNCHANGED <<ec2, unanswered, bootVars>>

-----------------------------------------------------------------------------
(***************************************************************************)
(* The bootstrap, as the stub renders it: until the trap is set a failing  *)
(* command just ends it; from then on any exit before spored is up retires *)
(* the instance.  Each place is tried four times, here one step: what is   *)
(* fetched is nothing, not all of it, another body, or the release's own.  *)
(***************************************************************************)
Boots(to) == boot' = to /\ ec2 = "running" /\ UNCHANGED <<launchVars, unstoppable>>

SetUp ==
    /\ boot = "setup"
    /\ Boots("fetching") \/ Boots("unguarded")
    /\ UNCHANGED <<base, fetched, tries>>

Fetch ==
    /\ boot = "fetching"
    /\ fetched' \in {"none", "partial", "forged", "genuine"}
    /\ Boots("checking")
    /\ UNCHANGED <<base, tries>>

\* Only the body with the expected sha256 and a signature that verifies is run.
Check ==
    /\ boot = "checking"
    /\ \/ fetched = "genuine" /\ Boots("body") /\ UNCHANGED base
       \/ fetched # "genuine" /\ base < Bases /\ base' = base + 1 /\ Boots("fetching")
       \/ fetched # "genuine" /\ base = Bases /\ Boots("retiring") /\ UNCHANGED base
    /\ UNCHANGED <<fetched, tries>>

\* The body starts spored, or fails, and the trap retires the instance.
RunBody ==
    /\ boot = "body"
    /\ Boots("up") \/ Boots("retiring")
    /\ UNCHANGED <<base, fetched, tries>>

\* spawn_fatal_retire: terminate, a few times, else shut down, which stops it; a shutdown
\* and a poweroff that both fail are passed over, and the script exits.
FatalRetire ==
    /\ boot = "retiring" /\ ec2 = "running"
    /\ \/ EndsAs("terminated") /\ boot' = "off" /\ UNCHANGED tries
       \/ tries < RetireTries /\ tries' = tries + 1 /\ UNCHANGED <<boot, ec2>>
       \/ EndsAs("stopped") /\ boot' = "off" /\ UNCHANGED tries
       \/ boot' = "abandoned" /\ UNCHANGED <<ec2, tries>>
    /\ UNCHANGED <<request, step, told, calls, unanswered, base, fetched, unstoppable>>

-----------------------------------------------------------------------------
(***************************************************************************)
(* External: spored enforces the bounds and the completion of the workload *)
(* while it is up; the reaper enforces the TTL from outside.  A one-time   *)
(* Spot instance cannot be stopped.                                        *)
(***************************************************************************)
SporedDies ==
    /\ boot = "up" /\ Boots("crashed")
    /\ UNCHANGED <<base, fetched, tries>>

SporedTerminates ==
    /\ boot = "up" /\ ec2 = "running"
    /\ request.ttl \/ request.cost \/ request.onComplete = "terminate"
    /\ ec2' = "terminated" /\ boot' = "off"
    /\ UNCHANGED <<request, step, told, calls, unanswered, base, fetched, tries, unstoppable>>

SporedStops ==
    /\ boot = "up" /\ ec2 = "running" /\ (request.idle \/ request.onComplete = "stop")
    /\ \/ ~request.spot /\ ec2' = "stopped" /\ boot' = "off" /\ UNCHANGED unstoppable
       \/ request.spot /\ unstoppable' = TRUE /\ UNCHANGED <<ec2, boot>>
    /\ UNCHANGED <<request, step, told, calls, unanswered, base, fetched, tries>>

Reaped ==
    /\ request.ttl /\ ec2 \in {"running", "stopped"}
    /\ ec2' = "terminated" /\ boot' = "off"
    /\ UNCHANGED <<request, step, told, calls, unanswered, base, fetched, tries, unstoppable>>

LaunchSteps == Accept \/ Refuse \/ IdentityResolved \/ AmiResolved \/ CallFailed \/ InstanceRuns
               \/ ListServedAgain \/ ListFailedAgain \/ RetireServed \/ RetireFailed
BootSteps   == SetUp \/ Fetch \/ Check \/ RunBody
SporedEnds  == SporedTerminates \/ SporedStops

Ec2Next == Ask \/ LaunchSteps \/ BootSteps \/ FatalRetire \/ SporedDies \/ SporedEnds \/ Reaped

(***************************************************************************)
(* Calls are answered, the shell goes on, and whoever enforces a bound     *)
(* does so in the end.                                                     *)
(***************************************************************************)
Ec2Fairness ==
    /\ WF_ec2Vars(LaunchSteps)
    /\ WF_ec2Vars(BootSteps)
    /\ WF_ec2Vars(FatalRetire)
    /\ WF_ec2Vars(SporedEnds)
    /\ WF_ec2Vars(Reaped)

Ec2Spec == Ec2Init /\ [][Ec2Next]_ec2Vars /\ Ec2Fairness
-----------------------------------------------------------------------------
\* The types of the variables.
Ec2TypeOK ==
    /\ request \in Requests
    /\ step \in {"idle", "asked", "identity", "ami", "run", "refresh", "retire",
                "resolved", "rejected"}
    /\ told \in {"nothing", "unidentified", "kept", "terminated", "billing"}
    /\ calls \subseteq {"GetCallerIdentity", "DescribeImages", "RunInstances"}
    /\ ec2 \in {"none", "running", "stopped", "terminated"} /\ unanswered \in BOOLEAN
    /\ boot \in {"off", "setup", "unguarded", "fetching", "checking", "body", "retiring",
                "abandoned", "up", "crashed"}
    /\ base \in 1 .. Bases /\ tries \in 0 .. RetireTries
    /\ fetched \in {"none", "partial", "forged", "genuine"} /\ unstoppable \in BOOLEAN

(***************************************************************************)
(* "Everything that can refuse a launch runs BEFORE the first AWS call"    *)
(* (ec2.ts:156): a launch that is unbounded, nested without a TTL, a Spot  *)
(* launch that stops, or flawed, has asked AWS for nothing.                *)
(***************************************************************************)
RefusedBeforeAnyCall ==
    LET r == request
        bad == \/ ~r.ttl /\ ~r.idle /\ ~r.cost /\ ~r.allow
               \/ r.nested /\ ~r.ttl
               \/ r.spot /\ (r.idle \/ r.onComplete = "stop")
               \/ r.flaw # "none"
    IN bad => calls = {} /\ ec2 = "none"

(***************************************************************************)
(* A rejected launch does not hide an instance that runs: its error says   *)
(* it was kept, as asked, or that it still bills, or was never named,      *)
(* unless the answer to RunInstances was lost.  "Terminated" is never said *)
(* of one that is not (client.ts:476-494).                                 *)
(***************************************************************************)
RejectionIsTruthful ==
    step = "rejected" =>
        /\ told = "terminated" => ec2 = "terminated"
        /\ told = "kept" => request.keep
        /\ ec2 \in {"running", "stopped"} /\ ~unanswered => told \in {"kept", "billing"}

(***************************************************************************)
(* No body runs, and no spored comes up, but from the release's own files, *)
(* whatever the places before held (userdata.ts:202).                      *)
(***************************************************************************)
OnlyTheReleaseRuns == boot \in {"body", "up", "crashed"} => fetched = "genuine"

(***************************************************************************)
(* spored never has to stop a one-time Spot instance, for which the stop   *)
(* would fail for ever (bounds.ts:173).                                    *)
(***************************************************************************)
NeverUnstoppable == ~unstoppable

(***************************************************************************)
(* Past the trap, an instance comes under spored or is retired: "ANY exit  *)
(* of the bootstrap before spored is running" (userdata.ts:159); but for   *)
(* one that can neither be terminated nor shut down, which is abandoned    *)
(* (userdata.ts:186).  This and the next two hold for good in the end.     *)
(***************************************************************************)
EveryBootIsSupervised == boot \in {"fetching", "checking", "body", "retiring"} => ec2 # "running"

(***************************************************************************)
(* An instance with a bound ends, however its launch was answered: with a  *)
(* TTL in any case, with another bound unless spored was never there or    *)
(* died, of which the launch has warned, or the retirement failed.         *)
(***************************************************************************)
EveryBoundedInstanceEnds ==
    ec2 = "running" /\ (request.ttl \/ request.idle \/ request.cost)
        => EvaluateBounds(request).warn /\ boot \in {"crashed", "unguarded", "abandoned"}

\* A launch is answered, whatever fails.
EveryLaunchIsAnswered == step \in {"idle", "resolved", "rejected"}

(***************************************************************************)
(* A launch does what it says: it is refused before it has asked AWS for   *)
(* anything, rejected without hiding an instance that bills, and boots     *)
(* nothing but the release's files, which spored can stop.                 *)
(***************************************************************************)
LaunchIsTruthful ==
    Ec2TypeOK /\ RefusedBeforeAnyCall /\ RejectionIsTruthful /\ OnlyTheReleaseRuns /\ NeverUnstoppable

(***************************************************************************)
(* No launched instance is left running for ever: past the trap it is      *)
(* supervised, retired or abandoned by a retirement that failed, and a     *)
(* bound ends it, a TTL in any case.                                       *)
(***************************************************************************)
NothingBillsForEver == <>[](EveryBootIsSupervised /\ EveryBoundedInstanceEnds)
=============================================================================
