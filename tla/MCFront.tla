-------------------------------- MODULE MCFront --------------------------------
(***************************************************************************)
(* What stands between the user and the engine: the fan-outs' registry and *)
(* their members, the terminal and the cards, the instance picker, queues, *)
(* sweeps, plug-ins, the bounds that are typed, tags and the launch config *)
(* object, the bootstrap, command lines, durations, what status says, what *)
(* the direct page says of its account, and extensions at once.  They      *)
(* share no state here: a behaviour exercises one of them, `focus`, and    *)
(* the others rest in one of their initial states.                         *)
(***************************************************************************)
EXTENDS Registry, Members, Console, JobQueue, TagBudget, TagContract, LaunchObject,
        Sweep, Entries, Plugins, Args, Durations, Status, DirectAccount, ExtendRace

VARIABLE focus

\* Two instances of one name, one on each backend.
MCName == [i \in {"a", "b"} |-> "job"]
MCHost == [i \in {"a", "b"} |-> IF i = "a" THEN "mock" ELSE "aws"]
MCDone == [i \in {"a", "b"} |-> IF i = "a" THEN "stop" ELSE "exit"]

\* Three jobs whose lists of dependencies may repeat, contradict or miss a job.
Jobs    == {"a", "b", "c"}
DepSeqs == {<<>>, <<"x">>} \cup {<<k>> : k \in Jobs}
             \cup {<<"a", "a">>, <<"a", "b">>, <<"a", "c">>, <<"b", "b">>, <<"b", "c">>, <<"c", "c">>}
JobOf(j, deps) == [id |-> j, command |-> TRUE, timeout |-> "ok", dependsOn |-> deps, retry |-> "none"]
QueueOf(jobs)  == [jobs |-> jobs, globalTimeout |-> "none", onFailure |-> "stop"]
Pair           == QueueOf(<<JobOf("a", <<>>), JobOf("b", <<"a">>)>>)
MCConfigs ==
    {QueueOf(<<JobOf("a", d), JobOf("b", e), JobOf("c", f)>>) : d \in DepSeqs, e \in DepSeqs, f \in DepSeqs}
    \cup {QueueOf(<<>>), [Pair EXCEPT !.jobs[2].command = FALSE],
          [Pair EXCEPT !.onFailure = "odd"], [Pair EXCEPT !.globalTimeout = "bad"]}
    \cup {[Pair EXCEPT !.jobs[2].id = j] : j \in {"a", ""}}
    \cup {[Pair EXCEPT !.jobs[2].timeout = t] : t \in {"none", "bad"}}
    \cup {[Pair EXCEPT !.jobs[2].retry = r] : r \in {"thrice", "no count", "zero", "odd backoff", "not a number"}}

\* Options come in groups; together with a sweep of many parameters they pass the limit.
Groups == {{"dns-name"}, {"ttl", "idle-timeout", "hibernate-on-idle"}, {"idle-cpu", "spot-request-type"},
           {"on-complete", "completion-file", "completion-delay"},
           {"pre-stop-timeout", "spot-webhook-url", "webhook-timeout"}, {"job-array", "mpi-enabled"}}
MCLaunches ==
    {[want |-> UNION g, params |-> 0] : g \in SUBSET Groups}
    \cup {[want |-> UNION g \cup {"sweep"}, params |-> n] : g \in SUBSET Groups, n \in {0, 2, 20}}

SortedKeysOf == <<"a", "b", "key_name", "key_pair", "name", "ttl">>
MCFieldOf == [k \in {"key_name", "key_pair", "name", "ttl"} |-> IF k \in {"key_name", "key_pair"} THEN "keyPair" ELSE k]
MCSeeds   == {<<>>, <<<<"ttl", "9h">>>>}
MCSpecs ==
    [defaults  : {<<>>, <<<<"ttl", "1h">>>>, <<<<"key_pair", "k0">>>>,
                  <<<<"key_name", "k0">>, <<"key_pair", "k1">>>>, <<<<"name", "x">>>>},
     params    : {<<>>, <<<<>>>>, <<<<<<"ttl", "2h">>>>, <<<<"key_pair", "k2">>, <<"a", "v">>>>>>,
                  <<<<<<"key_name", "k3">>>>, <<<<"name", "y">>>>>>},
     shorthand : {<<>>, <<<<"b", <<"1", "2", "3">>>>, <<"a", <<"1", "2">>>>>>,
                  <<<<"a", <<"1", "", "2">>>>, <<"ttl", <<"1h">>>>>>, <<<<"a", <<"">>>>>>,
                  <<<<"b", <<"1">>>>, <<"a", <<"2", "3">>>>, <<"b", <<"4", "5">>>>>>}]
MCFallbacks == <<"s-0", "s-1", "s-2", "s-3", "s-4", "s-5", "s-6", "s-7", "s-8">>

Digits(form, th, unit) == [form |-> form, th |-> th, unit |-> unit]
MCSegments ==
    {Digits("4", 1000, "h"), Digits("4", 90000, "m"), Digits("4", 59000, "s"), Digits("4.5", 1750, "s"),
     Digits("4.5", 1750, "ms"), Digits(".5", 250, "ms"), Digits("4", 250000, "us"), Digits("4", 500000, "us"),
     Digits("4", 1000, "d"), Digits("4.", 1000, "h"), Digits("4.5.6", 1000, "s"), Digits("4", 5000, ""),
     Digits("4", 0, "s"), Digits("4", 0, "")}

\* What is typed into a form or a command line: a text of each field, of some class.
Req(door, t, i, c, cap, v, n, count, odd, toggles) ==
    [door |-> door, count |-> count, odd |-> odd, toggles |-> toggles,
     texts |-> [f \in {"ttl", "idle", "cost", "cap", "delay", "viable", "density"} |->
        CASE f = "ttl" -> t [] f = "idle" -> i [] f = "cost" -> c [] f \in {"cap", "delay"} -> cap
          [] f = "viable" -> v [] OTHER -> n]]
MCEntries ==
    {Req(d, t, i, c, "absent", "absent", "absent", 1, FALSE, s) :
        d \in {"launch", "form"}, t \in Classes, i \in {"absent", "good", "zero", "slip"},
        c \in {"absent", "good", "minus", "slip"}, s \in SUBSET {"no-timeout", "yes"}}
    \cup {Req("array", "good", "absent", "absent", c, v, n, k, FALSE, s) :
        c \in {"absent", "good", "minus"}, v \in Classes, n \in Classes, k \in {-1, 0, 1, 3}, s \in SUBSET {"mpi"}}
    \cup {Req(d, t, i, "absent", c, "absent", "absent", 2, o, {}) :
        d \in FanDoors, t \in Classes, i \in {"absent", "good", "slip"}, c \in {"absent", "good", "slip"}, o \in BOOLEAN}
AtRest == Req("launch", "good", "absent", "absent", "absent", "absent", "absent", 1, FALSE, {})

PartOf(k, v) == [key |-> k, val |-> v]
MCParts ==
    {PartOf("blank", "bare"), PartOf("build", "bare"), PartOf("build", "7"), PartOf("build", ""), PartOf("version", "v1"),
     PartOf("sha256", "(none)"), PartOf("commit", "ab"), PartOf("verify", "signature"), PartOf("verify", "none"), PartOf("verify", "odd"),
     PartOf("verify", "bare")}
MCValues ==
    {<<>>} \cup {<<p>> : p \in MCParts} \cup {<<p, q>> : p \in MCParts, q \in MCParts}
    \cup {<<p, q, r>> : p \in MCParts, q \in MCParts, r \in {PartOf("build", "bare"), PartOf("build", "7")}}
MCRefs ==
    {<<>>, <<<<"docker">>, <<"rstudio", "v1">>>>, <<<<"docker", "">>>>,
     <<<<"docker">>, <<"rclone", "v1">>, <<"sync">>, <<"", "docker">>>>, <<<<"docker", "v1", "v2">>>>}

\* NoticeTexts of one to three units: escaped, separators, halves of a pair alone and together.
CodeUnits == {"a", "quote", "nl", "US", "lt", "LS", "high", "low"}
NoticeTexts ==
    {<<>>} \cup {<<u>> : u \in CodeUnits} \cup {<<u, v>> : u \in CodeUnits, v \in CodeUnits}
    \cup {<<u, v, w>> : u \in CodeUnits, v \in {"high", "low"}, w \in {"high", "low", "a"}}
MCOrder == <<"idle-cpu", "notify", "pre-stop">>
MCSettings ==
    {<<>>, <<<<"odd", <<"a">>>>>>} \cup {<<<<"notify", t>>>> : t \in NoticeTexts}
    \cup {<<<<"pre-stop", t>>, <<"idle-cpu", u>>>> : t \in {<<>>, <<"a">>, <<"b", "lt">>}, u \in {<<>>, <<"high", "low">>}}

MCBoots == [username : {"valid", "odd"}, files : SUBSET Files, size : 10 .. 22]

\* Options that imply, exclude or encode each other; names of dashes that a slug empties.
OptionSets ==
    {{}, {"ttl"}, {"ttl", "idle-timeout", "idle-cpu", "cost-limit"},
     {"idle-cpu", "completion-delay", "webhook-timeout", "processes-per-node"},
     {"idle-timeout", "hibernate-on-idle", "on-complete", "completion-delay", "completion-file", "ttl"},
     {"sweep-id", "sweep-index", "pre-stop", "pre-stop-timeout"},
     {"mpi-enabled", "processes-per-node", "job-array-id", "job-array-index"},
     {"spot-webhook-url", "webhook-timeout", "notify-url", "ttl"}, {"session-timeout", "price-per-hour", "ttl"}}
ValueOf(o, over) == IF o \in FlagTags THEN 1 ELSE IF o = "ttl" THEN 3 ELSE IF over /\ o = "idle-cpu" THEN 101 ELSE 2
NoOptions == [o \in OptionTags |-> 0]
MCAsks ==
    {[name |-> <<"a", "-", "-", "b">>, alias |-> <<"-">>,
      opts |-> [o \in OptionTags |-> IF o \in s THEN ValueOf(o, over) ELSE 0]] : s \in OptionSets, over \in BOOLEAN}
    \cup {[name |-> n, alias |-> n, opts |-> NoOptions] : n \in UNION {[1 .. k -> {"a", "-"}] : k \in 0 .. 5}}

Box(s, born, ttl, end) ==
    [state |-> s, launch |-> born, ttl |-> ttl, deadline |-> end, idleTimeout |-> 0, lastActivity |-> 0,
     hibernates |-> FALSE, priced |-> TRUE, budget |-> 0, compute |-> 1, onComplete |-> "none",
     dns |-> "", eip |-> "none", version |-> <<0, 9>>]
MCBoxes ==
    {Box("running", 1, 2, 3), Box("running", 1, 1, 0), Box("stopped", 1, 2, 0), Box("running", 0, 2, 0),
     [Box("stopped", 1, 1, 2) EXCEPT !.eip = "classic"], Box("pending", 1, 1, 0),
     [Box("running", 1, 2, 0) EXCEPT !.budget = 1, !.idleTimeout = 1, !.onComplete = "stop"]}
MCBackings ==
    {[real |-> TRUE, reloads |-> r, addresses |-> TRUE] : r \in BOOLEAN}
    \cup {[real |-> FALSE, reloads |-> FALSE, addresses |-> FALSE]}
MCLatest == <<0, 10, 1>>

\* Moments on both sides of a turn of each id's clock.
MCMoments == {0, 1, 9, 10, 15, 21}
Wish(k, n, given) ==
    [kind |-> k, name |-> n, given |-> given, size |-> 2, baseName |-> "", onFailure |-> "", minViable |-> 0]
MCWishes ==
    {Wish(k, n, g) : k \in {"sweep", "queue", "jobarray"}, n \in {"", "queue"}, g \in BOOLEAN}
    \cup {[Wish("jobarray", "", FALSE) EXCEPT !.size = z, !.minViable = v] : z \in {0, 1}, v \in {1, 5}}
    \cup {[Wish(k, "", FALSE) EXCEPT !.baseName = "base", !.onFailure = "stop"] : k \in {"sweep", "queue", "jobarray"}}

\* One name that its slug leaves alone, one that it does not.
MCSlug == [n \in {"box", "my box"} |-> IF n = "box" THEN n ELSE "my-box"]

MCExtenders == 1 .. 3
MCGranted   == <<1, 1, 2>>

NoText == [sign |-> "", padded |-> FALSE, tail |-> "", segs |-> <<>>]

\* At rest a part has nothing to do: what was given to it has been refused, or was nothing.
RestingUnless ==
    /\ state \in (IF focus = "console" THEN {[a |-> "running", b |-> s] : s \in {"unborn", "running"}}
                  ELSE {[i \in Insts |-> "unborn"]})
    /\ late = {i \in Insts : state[i] = "running"}
    /\ IF focus = "sweep" THEN SweepInit
       ELSE spec = [defaults |-> <<>>, params |-> <<>>, shorthand |-> <<>>] /\ seed = <<>>
            /\ phase = "refused" /\ grid = <<>> /\ keys = {} /\ combos = <<>> /\ resolved = <<>> /\ sweepMembers = <<>>
    /\ focus # "tags" => launch = [want |-> {}, params |-> 0] /\ named = FALSE
    /\ focus # "args" => argv = <<>>
    /\ focus # "durations" => text = NoText
    /\ IF focus = "contract" THEN ContractInit
       ELSE ask = [name |-> <<>>, alias |-> <<>>, opts |-> NoOptions] /\ billed = FALSE
            /\ store = <<>> /\ spoiled = {} /\ reading = <<>> /\ told = "asked"
    /\ IF focus = "object" THEN ObjectInit ELSE settings = <<>> /\ object = NoObject /\ outcome = "asked"
    /\ focus # "boot" => bootstrap = [username |-> "odd", files |-> {}, size |-> 10]
    /\ focus # "plugins" => refs = <<>>
    /\ focus # "status" => backing = (CHOOSE b \in MCBackings : ~ b.real) /\ box = Box("running", 1, 2, 3)

FrontInit ==
    /\ focus \in {"registry", "console", "picker", "queue", "tags", "sweep", "args", "durations",
                "members", "contract", "object", "boot", "entries", "plugins", "status", "account", "extend"}
    /\ RestingUnless
    /\ RegistryInit /\ ConsoleInit /\ PickerInit /\ BudgetInit /\ ArgsInit /\ DurInit
    /\ MembersInit /\ UserDataInit /\ PluginInit /\ StatusInit /\ AccountInit /\ ExtendInit
    /\ IF focus = "queue" THEN QueueInit
       ELSE cfg = QueueOf(<<>>) /\ queueStage = "invalid" /\ inDegree = [j \in {} |-> 0]
            /\ ready = <<>> /\ order = <<>> /\ queueMembers = <<>>
    /\ IF focus = "entries" THEN EntriesInit
       ELSE request = AtRest /\ real = FALSE /\ intake = "typed" /\ input = NoBounds /\ fan = NoFan /\ runs = {}

\* Bound: of the two extensions that add the same, the first begins first.
BegunInTurn == extension'[2] # "idle" => extension'[1] # "idle"

\* The step of one part leaves the others as they are.
Only(part, step, vars) == IF focus = part THEN step ELSE UNCHANGED vars

FrontNext ==
    /\ UNCHANGED focus
    /\ Only("registry", RegistryNext, registryVars)
    /\ Only("console", ConsoleNext, consoleVars)
    /\ Only("picker", PickerNext, pickerVars)
    /\ Only("queue", QueueNext, queueVars)
    /\ Only("tags", BudgetNext, budgetVars)
    /\ Only("sweep", SweepNext, sweepVars)
    /\ Only("args", ArgsNext, argsVars)
    /\ Only("durations", DurNext, durVars)
    /\ Only("members", MembersNext, membersVars)
    /\ Only("contract", ContractNext, contractVars)
    /\ Only("object", ObjectNext, objectVars)
    /\ Only("boot", UserDataNext, userDataVars)
    /\ Only("entries", EntriesNext, entryVars)
    /\ Only("plugins", PluginNext, pluginVars)
    /\ Only("status", StatusNext, statusVars)
    /\ Only("account", AccountNext, accountVars)
    /\ Only("extend", ExtendNext /\ BegunInTurn, extendVars)

FrontVars == <<focus, registryVars, consoleVars, pickerVars, queueVars, budgetVars, sweepVars, argsVars, durVars,
               membersVars, contractVars, objectVars, userDataVars, entryVars, pluginVars, statusVars,
               accountVars, extendVars>>

\* The timer of a console that rests is not awaited.
FrontSpec ==
    /\ FrontInit /\ [][FrontNext]_FrontVars
    /\ RegistryFairness /\ PickerFairness
    /\ WF_consoleVars(focus = "console" /\ TickLists)
    /\ \A t \in Tasks : WF_consoleVars(TaskStep(t))
    /\ \A b \in Backends : WF_consoleVars(ListArrives(b))
    /\ WF_queueVars(QueueNext) /\ WF_sweepVars(SweepNext)

(***************************************************************************)
(* The two hands on the client do nothing but what was meant and           *)
(* confirmed, and the picker's list is of what stands in its field.        *)
(***************************************************************************)
HandsAreSafe == ConsoleTypeOK /\ HitsWhatWasMeant /\ DestructiveIsConfirmed /\ MatchesAreOfTheField

(***************************************************************************)
(* What is typed is taken as it was meant, or refused before anything is   *)
(* launched: command lines, durations, bounds and sweeps.                  *)
(***************************************************************************)
TypedIsTaken == LineIsReadAsTyped /\ DurationsAgree /\ EntriesAreHonoured /\ SweepIsSound

(***************************************************************************)
(* A fan-out is of what was asked for: a queue's jobs in an order that     *)
(* their dependencies allow, members and ids that are told apart.          *)
(***************************************************************************)
FanOutsAreWhole == QueueIsSound /\ MembersAreSound

(***************************************************************************)
(* What a launch hands on is read on the other side as it was meant: its   *)
(* tags within the limit, what list makes of them, the launch config       *)
(* object byte for byte, and the files of the bootstrap.                   *)
(***************************************************************************)
LaunchIsHandedOn == TagsFit /\ ContractHolds /\ ObjectIsCanonical /\ BootFindsItsFiles

(***************************************************************************)
(* What is shown is so: which plug-ins an instance was launched with, and  *)
(* on the direct page what became of the run, and whose quotas these are,  *)
(* but where answers for two accounts or two runs overlap: those the page  *)
(* cannot tell apart (DirectAccount!mixed; main.ts:277, 459, 489).         *)
(***************************************************************************)
ShownIsTrue == StatusTypeOK /\ PluginsAreTold /\ PageIsTruthful

(***************************************************************************)
(* When nobody types or presses any more, everything comes to rest where   *)
(* it should: fan-outs reported, commands over, queues and sweeps built or *)
(* refused, the list that of the backend in use, the picker's that of its  *)
(* query.                                                                  *)
(***************************************************************************)
FrontSettles ==
    <>[](EveryFanOutIsReported /\ EveryTaskEnds /\ ListFollowsBackend /\ LastQueryIsShown /\ QueueIsAnswered
        /\ SweepIsAnswered)
=============================================================================
