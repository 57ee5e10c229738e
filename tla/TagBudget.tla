------------------------------ MODULE TagBudget ------------------------------
(***************************************************************************)
(* The tags of a launch and AWS's limit on their number (core/tags.ts),    *)
(* the settings that leave them for the launch config object               *)
(* (core/launchconfig.ts), and what is left of both when the instance is   *)
(* listed.  spored and `spawn` write tags of their own later; a write over *)
(* the limit fails whole.                                                  *)
(*                                                                         *)
(* A tag is its key without the prefix.  Of a launch only which options it *)
(* has matters, and how many sweep parameters, which are named 1, 2, ...   *)
(* and sorted.                                                             *)
(***************************************************************************)
EXTENDS Integers, FiniteSets

CONSTANTS
    Limit,      \* AWS_TAG_LIMIT
    Launches    \* what is launched: [want |-> options, params |-> how many]

Options == {"dns-name", "ttl", "idle-timeout", "hibernate-on-idle", "idle-cpu", "spot-request-type",
            "cost-limit", "price-per-hour", "on-complete", "completion-file", "completion-delay",
            "session-timeout", "pre-stop", "pre-stop-timeout", "spot-webhook-url",
            "webhook-correlation", "webhook-timeout", "notify-url", "notify-platform",
            "notify-command", "active-processes", "active-ports", "mpi-enabled",
            "mpi-processes-per-node", "job-array", "sweep"}

ASSUME BudgetConstants ==
    /\ Limit \in Nat
    /\ \A l \in Launches : l.want \subseteq Options /\ l.params \in Nat
                           /\ ("sweep" \notin l.want => l.params = 0)

VARIABLES
    launch,     \* what was asked for
    named,      \* the account has an alias
    stage,      \* "asked", "passed", "refused", "refused late", "running"
    tags,       \* the instance's tags, parameters aside
    carried,    \* how many parameters it carries
    commanded   \* history: tags that a command added, for which no slot was kept

budgetVars == <<launch, named, stage, tags, carried, commanded>>

-----------------------------------------------------------------------------
\* Options that are written only beside another.
Needs(o) == CASE o \in {"hibernate-on-idle", "idle-cpu"} -> "idle-timeout"
              [] o \in {"completion-file", "completion-delay"} -> "on-complete"
              [] o = "pre-stop-timeout" -> "pre-stop"
              [] o \in {"webhook-correlation", "webhook-timeout"} -> "spot-webhook-url"
              [] o = "mpi-processes-per-node" -> "mpi-enabled"
              [] OTHER -> o

Written(want) == {o \in want : Needs(o) \in want}

ArrayTags == {"job-array-id", "job-array-name", "job-array-size", "job-array-index"}
SweepTags == {"sweep-id", "sweep-name", "sweep-size", "sweep-index"}

Brings(o) == CASE o = "ttl" -> {"ttl", "ttl-deadline"}
               [] o = "job-array" -> ArrayTags
               [] o = "sweep" -> SweepTags
               [] OTHER -> {o}

BuildIdentityTags(alias) ==
    {"managed", "root", "created-by", "version", "account-id", "account-base36", "iam-user"}
    \cup (IF alias THEN {"account-name"} ELSE {})

\* buildLaunchTags, without the parameters.
BuildLaunchTags(want, alias) ==
    {"Name", "managed", "launch-time", "compute-seconds", "os"}
    \cup BuildIdentityTags(alias)
    \cup UNION {Brings(o) : o \in Written(want)}

\* The settings spored reads from the object only, of those spawn-ts writes.
Settings == {"active-ports", "active-processes", "idle-cpu", "notify-command", "notify-platform",
             "notify-url", "spot-webhook-url", "webhook-correlation", "webhook-timeout"}

\* splitLaunchConfigTags and withObject: the object takes one tag, if there is one.
Split(all) == (all \ Settings) \cup (IF all \cap Settings = {} THEN {} ELSE {"config"})

\* What RunInstances gets.
SentTags(want, alias) == Split(BuildLaunchTags(want, alias) \cup {"local-username"})

\* tagReserve: what spored writes on its own, unless it is there.
TagReserve(all) ==
    ({"compute-seconds", "last-heartbeat", "spored-version", "logged-in-count", "cost-footprint"}
     \cup (IF "dns-name" \in all THEN {"dns-status", "dns-error"} ELSE {})) \ all

\* launchTagCount: how many tags RunInstances will get for the tags so far.
LaunchTagCount(all) ==
    Cardinality((all \cup {"local-username"}) \ Settings)
    + (IF all \cap Settings = {} THEN 0 ELSE 1)

\* buildSweepTags: the parameters that fit, in sorted order.
Carried(l, alias) ==
    LET rest == BuildLaunchTags(l.want \ {"sweep"}, alias)
        left == Limit - (LaunchTagCount(rest) + Cardinality(TagReserve(rest)) + Cardinality(SweepTags))
    IN IF "sweep" \notin l.want \/ left <= 0 THEN 0
       ELSE IF l.params <= left THEN l.params ELSE left

\* checkTagLimit.
OverLimit(sent, params) == Cardinality(sent) + params + Cardinality(TagReserve(sent)) > Limit

-----------------------------------------------------------------------------
BudgetInit ==
    /\ launch \in Launches /\ named \in BOOLEAN
    /\ stage = "asked" /\ tags = {} /\ carried = 0 /\ commanded = {}

\* Counted with a stand-in identity, which has an alias.
Preflight ==
    /\ stage = "asked"
    /\ stage' = IF OverLimit(SentTags(launch.want, TRUE), Carried(launch, TRUE))
                  THEN "refused" ELSE "passed"
    /\ UNCHANGED <<launch, named, tags, carried, commanded>>

\* Counted again with the identity that was looked up.
RunInstances ==
    /\ stage = "passed"
    /\ LET sent == SentTags(launch.want, named)
           params == Carried(launch, named)
       IN IF OverLimit(sent, params)
          THEN stage' = "refused late" /\ UNCHANGED <<tags, carried>>
          ELSE stage' = "running" /\ tags' = sent /\ carried' = params
    /\ UNCHANGED <<launch, named, commanded>>

\* External: spored writes one of its tags; over the limit the write fails.
SporedWrites(k) ==
    /\ stage = "running"
    /\ k \in TagReserve(tags)
    /\ Cardinality(tags \cup {k}) + carried <= Limit
    /\ tags' = tags \cup {k}
    /\ UNCHANGED <<launch, named, stage, carried, commanded>>

\* External: a command of `spawn`, which is told if its write fails.
CommandWrites(k) ==
    /\ stage = "running" /\ k \notin tags
    /\ Cardinality(tags \cup {k}) + carried <= Limit
    /\ tags' = tags \cup {k} /\ commanded' = commanded \cup {k}
    /\ UNCHANGED <<launch, named, stage, carried>>

SporedTags  == {"compute-seconds", "last-heartbeat", "spored-version", "logged-in-count",
                "cost-footprint", "dns-status", "dns-error"}
CommandTags == {"cost-limit", "last-stop-time"}

BudgetNext ==
    \/ Preflight \/ RunInstances
    \/ \E k \in SporedTags : SporedWrites(k)
    \/ \E k \in CommandTags : CommandWrites(k)

BudgetSpec == BudgetInit /\ [][BudgetNext]_budgetVars
-----------------------------------------------------------------------------
\* decodeConfigTags and its kin, on what a list shows: the options that are read back.
Decoded == {o \in Options : Brings(o) \subseteq tags}

\* The types of the variables.
BudgetTypeOK ==
    /\ named \in BOOLEAN
    /\ stage \in {"asked", "passed", "refused", "refused late", "running"}
    /\ carried \in 0 .. launch.params
    /\ commanded \subseteq tags \cap CommandTags
    /\ tags \cap Settings = {}

(***************************************************************************)
(* Whatever spored has yet to write fits, until a command has added tags:  *)
(* its heartbeat, the clock of the cost limit and the footprint are always *)
(* written (tags.ts:584).                                                  *)
(***************************************************************************)
SporedTagsFit ==
    stage = "running" /\ commanded = {} =>
        Cardinality(tags \cup TagReserve(tags)) + carried <= Limit

(***************************************************************************)
(* A launch that passes the count with stand-ins passes the count with the *)
(* identity: no call of AWS is made for one that is refused (ec2.ts:203).  *)
(***************************************************************************)
NeverRefusedLate == stage # "refused late"

(***************************************************************************)
(* "Sweep parameters are budgeted to fit, never refused" (tags.ts:637):    *)
(* what is refused would be without its parameters.                        *)
(***************************************************************************)
ParametersNeverRefuse ==
    stage = "refused" => OverLimit(SentTags(launch.want, TRUE), 0)

\* A parameter is dropped only when the limit is reached (tags.ts:77).
DroppedOnlyWhenFull ==
    stage = "running" /\ commanded = {} /\ carried < launch.params =>
        Cardinality(tags \cup TagReserve(tags)) + carried = Limit

(***************************************************************************)
(* What is listed is what was asked for, but for the settings that moved   *)
(* to the object, and what no option they need was asked for with          *)
(* (tags.ts:290, ec2.ts:253).                                              *)
(***************************************************************************)
ListedAsAsked ==
    stage = "running" /\ commanded = {} => Decoded = Written(launch.want) \ Settings

(***************************************************************************)
(* The tags of a launch leave room for those that come, are counted before *)
(* anything is asked of AWS, and tell what was asked for.                  *)
(***************************************************************************)
TagsFit ==
    /\ BudgetTypeOK /\ SporedTagsFit /\ NeverRefusedLate /\ ParametersNeverRefuse
    /\ DroppedOnlyWhenFull /\ ListedAsAsked
=============================================================================
