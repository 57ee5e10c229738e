------------------------------ MODULE TagContract ------------------------------
(***************************************************************************)
(* The tags of an instance as a contract (core/tags.ts): a launch writes   *)
(* what was asked for into them, other tools write there too, and every    *)
(* list of either provider reads the instance back out of them             *)
(* (mock.ts buildFromTags, ec2.ts toManaged).  How many tags fit is        *)
(* module TagBudget, how a duration is written module Durations.           *)
(*                                                                         *)
(* A value is a number, 0 where the option is not set; Odd is a text that  *)
(* the reader of a number or a duration cannot make out.  A name is a      *)
(* sequence of characters, "-" standing for whatever no label may hold.    *)
(***************************************************************************)
EXTENDS Integers, Sequences, SequencesExt, FiniteSets

CONSTANTS
    Asks,       \* what is asked for: [name, alias, opts], opts a function on Options
    MaxLabel,   \* the length of a DNS label, 63
    Spoilable   \* bound: the tags that another tool spoils or removes, one after the other

SpanTags   == {"ttl", "idle-timeout", "completion-delay", "session-timeout", "pre-stop-timeout", "webhook-timeout"}
CountTags  == {"idle-cpu", "cost-limit", "price-per-hour", "processes-per-node", "sweep-index", "job-array-index"}
WordTags   == {"on-complete", "completion-file", "pre-stop", "spot-webhook-url", "webhook-correlation", "notify-url"}
FlagTags   == {"hibernate-on-idle", "mpi-enabled", "sweep-id", "job-array-id"}
OptionTags == SpanTags \cup CountTags \cup WordTags \cup FlagTags

Hooks == {"pre-stop", "pre-stop-timeout", "spot-webhook-url", "webhook-correlation", "webhook-timeout", "notify-url"}

\* Those of them that a real launch writes to its object (launchconfig.ts).
InObject == {"idle-cpu", "spot-webhook-url", "webhook-correlation", "webhook-timeout", "notify-url"}

Odd        == -1
LaunchTime == 1

ASSUME ContractConstants ==
    /\ MaxLabel \in Nat \ {0}
    /\ \A a \in Asks : {a.name, a.alias} \subseteq Seq(STRING)
    /\ \A a \in Asks : a.opts \in [OptionTags -> Nat] /\ \A o \in FlagTags : a.opts[o] \in {0, 1}
    /\ Spoilable \subseteq OptionTags \cup {"managed", "ttl-deadline"}

VARIABLES
    ask, billed,   \* what is asked for, and whether the provider is EC2
    store,         \* the instance's tags
    spoiled,       \* history: those that another tool spoiled or removed
    reading,          \* the instance as the launch or the last list has it
    told           \* "asked", "refused", "launched", "listed", "missing"

contractVars == <<ask, billed, store, spoiled, reading, told>>

TagRules == INSTANCE Lifecycle WITH WarnWindow <- 0
-----------------------------------------------------------------------------
(* DNS labels.                                                             *)

TrimEnd(s) == IF s # <<>> /\ Last(s) = "-" THEN Front(s) ELSE s

\* Runs become one hyphen, and none leads.
Squeeze(out, ch) == IF ch # "-" THEN Append(out, ch)
                    ELSE IF out = <<>> \/ Last(out) = "-" THEN out ELSE Append(out, "-")

Squeezed(name) ==
    LET out[n \in 0 .. Len(name)] == IF n = 0 THEN <<>> ELSE Squeeze(out[n - 1], name[n])
    IN  out[Len(name)]

\* Variant: cut to size, and not trimmed again.
SlugifyDnsLabel_CutLast(name) ==
    LET s == TrimEnd(Squeezed(name)) IN IF Len(s) > MaxLabel THEN SubSeq(s, 1, MaxLabel) ELSE s

\* slugifyDnsLabel
SlugifyDnsLabel(name) ==
    LET s == TrimEnd(Squeezed(name))
    IN  IF Len(s) > MaxLabel THEN TrimEnd(SubSeq(s, 1, MaxLabel)) ELSE s

-----------------------------------------------------------------------------
(* Written.                                                                *)

\* An option that is written only beside another.
Beside(o) ==
    CASE o \in {"hibernate-on-idle", "idle-cpu"}              -> "idle-timeout"
      [] o \in {"completion-file", "completion-delay"}        -> "on-complete"
      [] o = "pre-stop-timeout"                               -> "pre-stop"
      [] o \in {"webhook-correlation", "webhook-timeout"}     -> "spot-webhook-url"
      [] o = "processes-per-node"                             -> "mpi-enabled"
      [] o = "sweep-index"                                    -> "sweep-id"
      [] o = "job-array-index"                                -> "job-array-id"
      [] OTHER                                                -> o

WrittenOf(opts) == {o \in OptionTags : opts[o] > 0 /\ opts[Beside(o)] > 0}

\* buildLaunchTags with buildIdentityTags: an empty label is no tag.
LaunchTags(a) ==
    LET keys  == WrittenOf(a.opts) \cup {"managed", "launch-time"} \cup (IF a.opts["ttl"] > 0 THEN {"ttl-deadline"} ELSE {})
        names == [k \in {"dns-name", "account-name"} |-> SlugifyDnsLabel(IF k = "dns-name" THEN a.name ELSE a.alias)]
    IN  [k \in keys \cup {k \in DOMAIN names : names[k] # <<>>} |->
            CASE k \in {"dns-name", "account-name"} -> names[k]
              [] k = "managed"      -> 1
              [] k = "launch-time"  -> LaunchTime
              [] k = "ttl-deadline" -> LaunchTime + a.opts["ttl"]
              [] OTHER              -> a.opts[k]]

-----------------------------------------------------------------------------
(* Read.                                                                   *)

Has(on, k) == k \in DOMAIN on

\* num and dur: what cannot be read is the default.
NumberTag(on, k) == IF Has(on, k) /\ on[k] # Odd THEN on[k] ELSE 0
WordTag(on, k)   == IF Has(on, k) THEN on[k] ELSE 0
TrueTag(on, k)   == IF Has(on, k) /\ on[k] = 1 THEN 1 ELSE 0

\* decodeConfigTags; session-timeout is written for spored alone.
DecodeConfigTags(on) ==
    [o \in {"ttl", "idle-timeout", "completion-delay", "idle-cpu", "cost-limit", "price-per-hour",
            "ttl-deadline", "launch-time", "on-complete", "completion-file", "hibernate-on-idle"} |->
        CASE o \in WordTags -> WordTag(on, o) [] o = "hibernate-on-idle" -> TrueTag(on, o) [] OTHER -> NumberTag(on, o)]

\* decodeSweepTags and decodeJobArrayTags: any id will do, and without one there is nothing.
DecodeMember(on, id, index) ==
    IF WordTag(on, id) = 0 THEN [o \in {id, index} |-> 0]
    ELSE [o \in {id, index} |-> IF o = id THEN on[id] ELSE NumberTag(on, index)]

\* decodeMpiTags
DecodeMpiTags(on) ==
    [o \in {"mpi-enabled", "processes-per-node"} |->
        IF TrueTag(on, "mpi-enabled") = 0 THEN 0
        ELSE IF o = "mpi-enabled" THEN 1 ELSE NumberTag(on, o)]

\* decodeHookTags
DecodeHookTags(on) ==
    [o \in Hooks |-> IF o \in SpanTags THEN NumberTag(on, o) ELSE WordTag(on, o)]

\* toManaged and buildFromTags: the same readers.
ToManaged(on) ==
    LET parts == <<DecodeConfigTags(on), DecodeMember(on, "sweep-id", "sweep-index"),
                   DecodeMember(on, "job-array-id", "job-array-index"), DecodeMpiTags(on), DecodeHookTags(on)>>
        part(o) == CHOOSE n \in 1 .. 5 : o \in DOMAIN parts[n]
    IN  [o \in UNION {DOMAIN parts[n] : n \in 1 .. 5} |-> parts[part(o)][o]]
-----------------------------------------------------------------------------
ContractInit ==
    /\ ask \in Asks /\ billed \in BOOLEAN
    /\ store = <<>> /\ spoiled = {} /\ reading = <<>> /\ told = "asked"

\* validateIdleCpu
ContractRefused ==
    /\ told = "asked" /\ ask.opts["idle-cpu"] > 100 /\ told' = "refused"
    /\ UNCHANGED <<ask, billed, store, spoiled, reading>>

Without(on, gone) == [k \in DOMAIN on \ gone |-> on[k]]

\* A launch: on EC2 the settings leave the tags, and the answer keeps what was asked for.
ContractLaunched ==
    /\ told = "asked" /\ ask.opts["idle-cpu"] <= 100 /\ told' = "launched"
    /\ store' = Without(LaunchTags(ask), IF billed THEN InObject ELSE {})
    /\ reading' = IF billed THEN [o \in DOMAIN ToManaged(store') |->
                                  IF o \in Hooks \cup {"idle-cpu"} THEN ask.opts[o] ELSE ToManaged(store')[o]]
                         ELSE ToManaged(store')
    /\ UNCHANGED <<ask, billed, spoiled>>

\* Another tool writes what this one cannot read, or removes a tag.
Spoils(k) ==
    /\ told \in {"launched", "listed"} /\ k \in Spoilable \cap DOMAIN store /\ k \notin spoiled
    /\ store' \in {Without(store, {k}), [store EXCEPT ![k] = Odd]}
    /\ spoiled' = spoiled \cup {k} /\ UNCHANGED <<ask, billed, reading, told>>

\* list: isManaged, then the tags alone.
ContractListed ==
    /\ told \in {"launched", "listed"}
    /\ IF TrueTag(store, "managed") = 1 THEN reading' = ToManaged(store) /\ told' = "listed"
       ELSE reading' = <<>> /\ told' = "missing"
    /\ UNCHANGED <<ask, billed, store, spoiled>>

ContractNext == ContractRefused \/ ContractLaunched \/ (\E k \in Spoilable : Spoils(k)) \/ ContractListed
ContractSpec == ContractInit /\ [][ContractNext]_contractVars
-----------------------------------------------------------------------------
\* What a list should show: what was asked for and takes effect.
Effective == [o \in OptionTags |-> IF o \in WrittenOf(ask.opts) /\ ~ (billed /\ o \in InObject) THEN ask.opts[o] ELSE 0]

\* The tags an option is read from.
Sources(o) == {o} \cup (IF o \in {"sweep-index", "job-array-index", "processes-per-node"} THEN {Beside(o)} ELSE {})

(***************************************************************************)
(* "Malformed values are ignored (left at their defaults), never fatal"    *)
(* (tags.ts:290-294): an instance stays listed as long as it is managed,   *)
(* and reads back as it was asked for in all that nobody spoiled.          *)
(***************************************************************************)
ReadsBack ==
    /\ told = "missing" => "managed" \in spoiled
    /\ told = "listed" => \A o \in DOMAIN reading \cap OptionTags :
           Sources(o) \cap spoiled = {} => reading[o] = Effective[o]

(***************************************************************************)
(* The deadline is written twice, and is still known, to the moment, when  *)
(* one of the two tags is spoiled (lifecycle.ts:51-55); nothing else makes *)
(* an instance read as one without a TTL.                                  *)
(***************************************************************************)
DeadlineIsKeptTwice ==
    told = "listed" /\ ~ ({"ttl", "ttl-deadline"} \subseteq spoiled) =>
        TagRules!TtlDeadline([launch |-> reading["launch-time"], ttl |-> reading["ttl"], deadline |-> reading["ttl-deadline"]])
            = IF ask.opts["ttl"] > 0 THEN LaunchTime + ask.opts["ttl"] ELSE 0

(***************************************************************************)
(* What is registered is a label: it neither begins nor ends with a        *)
(* hyphen, holds no two in a row, fits, is its own label, and is there     *)
(* whenever the name has a character that fits (tags.ts:33-37).            *)
(***************************************************************************)
LabelIsValid ==
    told \in {"launched", "listed"} =>
        LET label == IF Has(store, "dns-name") THEN store["dns-name"] ELSE <<>> IN
        /\ label # <<>> => Head(label) # "-" /\ Last(label) # "-" /\ Len(label) <= MaxLabel
        /\ \A n \in 1 .. Len(label) - 1 : label[n] # "-" \/ label[n + 1] # "-"
        /\ SlugifyDnsLabel(label) = label
        /\ label = <<>> => \A n \in DOMAIN ask.name : ask.name[n] = "-"

ContractHolds == ReadsBack /\ DeadlineIsKeptTwice /\ LabelIsValid
=============================================================================
