-------------------------------- MODULE Plugins --------------------------------
(***************************************************************************)
(* Plug-ins, declared and detected (core/plugins.ts).  Declarations are    *)
(* checked before a launch and travel in the user data; what is installed  *)
(* is known only from the spore:plugin: tags that the command line writes, *)
(* at its best effort, when it installs one itself.                        *)
(*                                                                         *)
(* A tag's value is a sequence of parts; a part is a key with a value, a   *)
(* bare word (no value) or blank.  A reference is its pieces between the @ *)
(* signs.                                                                  *)
(***************************************************************************)
EXTENDS Naturals, Sequences, FiniteSets, Functions, SequencesExt

Part == [key : STRING, val : STRING]

CONSTANTS
    Values,       \* the tag values that are found: sequences of parts [key, val]
    Bare,         \* the val of a bare word
    Refs,         \* the lists of references that are declared
    Declarable,   \* LAUNCH_DECLARABLE_PLUGINS
    PushDependent, CliOwned   \* the names that are refused for a reason of their own

ASSUME PluginConstants ==
    /\ Declarable \cap (PushDependent \cup CliOwned) = {} /\ PushDependent \cap CliOwned = {}
    /\ PushDependent \subseteq STRING /\ Bare \in STRING \ {""}
    /\ Refs \subseteq Seq(Seq(STRING) \ {<<>>})
    /\ Values \subseteq Seq(Part)
    /\ \A v \in Values : \A k \in DOMAIN v : v[k].key = "blank" => v[k].val = Bare

VARIABLES
    refs,        \* what the user declares
    launched,    \* "asked", "refused" or "launched"
    reasons,     \* why it was refused
    declared,    \* what /etc/spawn/plugins.json lists
    installed,   \* the plug-ins on the instance
    tagged,      \* the provenance tags: from the names to values
    pluginPage   \* what status --plugins last showed

pluginVars == <<refs, launched, reasons, declared, installed, tagged, pluginPage>>
-----------------------------------------------------------------------------
Tiers == {"signature", "manifest", "none"}
Unread == [version |-> "", content |-> "", commit |-> "", verify |-> "unknown",
           extra |-> <<>>, parsed |-> FALSE]

Digest(val) == IF val = "(none)" THEN "" ELSE val

Noted(extra, key, val) == [k \in DOMAIN extra \cup {key} |-> IF k = key THEN val ELSE extra[k]]

\* One part of the value; a later one of the same key takes the place of an earlier.
TakePart(out, part) ==
    IF part.key = "blank" THEN out
    ELSE IF part.val = Bare THEN [out EXCEPT !.extra = Noted(@, part.key, "")]
    ELSE CASE part.key = "version" -> [out EXCEPT !.version = part.val, !.parsed = TRUE]
           [] part.key = "sha256"  -> [out EXCEPT !.content = Digest(part.val), !.parsed = TRUE]
           [] part.key = "commit"  -> [out EXCEPT !.commit = Digest(part.val), !.parsed = TRUE]
           [] part.key = "verify"  -> [out EXCEPT !.verify = IF part.val \in Tiers THEN part.val ELSE "unknown",
                                                  !.parsed = TRUE]
           [] OTHER                -> [out EXCEPT !.extra = Noted(@, part.key, part.val), !.parsed = TRUE]

ParsePluginTag(value) ==
    LET after[n \in 0 .. Len(value)] == IF n = 0 THEN Unread ELSE TakePart(after[n - 1], value[n])
    IN  after[Len(value)]

\* A tag whose key has no name after the prefix names nothing.
DetectPlugins == [name \in DOMAIN tagged \ {""} |-> ParsePluginTag(tagged[name])]

\* status: the lines of one plug-in, each a claim about it.
LinesOf(name, p) ==
    {<<name, "version", p.version>>, <<name, "verify", p.verify>>}
    \cup {<<name, "sha256", p.content>> : x \in IF p.content = "" THEN {} ELSE {1}}
    \cup {<<name, "commit", p.commit>> : x \in IF p.commit = "" THEN {} ELSE {1}}
    \cup {<<name, IF p.extra[k] = "" THEN "unrecognised" ELSE k, IF p.extra[k] = "" THEN k ELSE p.extra[k]>>
             : k \in DOMAIN p.extra}
    \cup {<<name, "no readable provenance", "">> : x \in IF p.parsed THEN {} ELSE {1}}

\* describePluginState: with no tags, nothing is said of what is installed.
PluginLines ==
    IF DOMAIN DetectPlugins = {} THEN {<<"", "none reported, which does not mean none installed", "">>}
    ELSE UNION {LinesOf(name, DetectPlugins[name]) : name \in DOMAIN DetectPlugins}
-----------------------------------------------------------------------------
\* What stands before the last @, if anything does.
PluginRefName(ref) == IF Len(ref) = 1 \/ (Len(ref) = 2 /\ ref[1] = "") THEN ref ELSE Front(ref)

\* The reason it cannot be declared at launch, "" if it can.
Reason(ref) ==
    LET name == PluginRefName(ref) IN
    CASE Len(name) = 1 /\ name[1] \in Declarable    -> ""
      [] Len(name) = 1 /\ name[1] \in PushDependent -> "needs a pushed secret"
      [] Len(name) = 1 /\ name[1] \in CliOwned      -> "belongs to the command line"
      [] OTHER                                      -> "not a declarable plug-in"

AcceptedAt == {k \in DOMAIN refs : Reason(refs[k]) = ""}
RejectedAt == DOMAIN refs \ AcceptedAt

\* Some of the places, in their order.
InTurn(places) ==
    {s \in [1 .. Cardinality(places) -> places] :
        Range(s) = places /\ \A a, b \in DOMAIN s : a < b => s[a] < s[b]}

PluginInit ==
    /\ refs \in Refs
    /\ launched = "asked" /\ reasons = <<>> /\ declared = <<>>
    /\ installed = {} /\ tagged = <<>> /\ pluginPage = {}

\* Nothing is launched while one of them is rejected; each is answered with its reason.
LaunchRefuses ==
    /\ launched = "asked" /\ RejectedAt # {}
    /\ launched' = "refused"
    /\ \E s \in InTurn(RejectedAt) : reasons' = [k \in DOMAIN s |-> <<refs[s[k]], Reason(refs[s[k]])>>]
    /\ UNCHANGED <<refs, declared, installed, tagged, pluginPage>>

\* The provider writes the accepted ones, which are all of them, into the user data.
DeclaresThem ==
    /\ launched = "asked" /\ RejectedAt = {}
    /\ launched' = "launched"
    /\ \E s \in InTurn(AcceptedAt) : declared' = [k \in DOMAIN s |-> refs[s[k]]]
    /\ UNCHANGED <<refs, reasons, installed, tagged, pluginPage>>

\* spored installs what is declared, without a tag, or fails to.
SporedInstalls ==
    /\ launched = "launched" /\ installed = {}
    /\ installed' \in (SUBSET {PluginRefName(r)[1] : r \in Range(declared)}) \ {{}}
    /\ UNCHANGED <<refs, launched, reasons, declared, tagged, pluginPage>>

\* The command line installs one itself, and tries to tag the instance; a tag
\* may also be there with no name.
CliInstalls ==
    /\ launched = "launched" /\ tagged = <<>> /\ pluginPage = {}
    /\ \E name \in PushDependent \cup {""}, value \in Values :
         /\ installed' = installed \cup ({name} \ {""})
         /\ tagged' \in {[n \in {name} |-> value], tagged}
    /\ UNCHANGED <<refs, launched, reasons, declared, pluginPage>>

StatusAsked ==
    /\ launched = "launched" /\ pluginPage' = PluginLines
    /\ UNCHANGED <<refs, launched, reasons, declared, installed, tagged>>

PluginNext ==
    \/ LaunchRefuses \/ DeclaresThem
    \/ SporedInstalls \/ CliInstalls \/ StatusAsked

PluginSpec == PluginInit /\ [][PluginNext]_pluginVars
-----------------------------------------------------------------------------
\* The types of the variables.
PluginTypeOK ==
    /\ refs \in Refs /\ launched \in {"asked", "refused", "launched"}
    /\ Range(declared) \subseteq Range(refs)
    /\ installed \subseteq Declarable \cup PushDependent

(***************************************************************************)
(* What runs was declared in full: no launch drops a plug-in that was      *)
(* asked for, and one that is refused is refused with the reason of each   *)
(* that was in the way (client.ts:439-458, commands.ts:236-254).           *)
(***************************************************************************)
DeclaredInFull ==
    /\ launched = "launched" => declared = refs
    /\ launched = "refused" => reasons # <<>> /\ \A k \in DOMAIN reasons : reasons[k][2] # ""

\* What the last of some parts says.
LastOf(value, some) == value[CHOOSE i \in some : \A j \in some : j <= i].val

(***************************************************************************)
(* A plug-in with a tag is on the page, with the tier its tag names: a     *)
(* tier that the tag does not name is "unknown", which is not the finding  *)
(* "none"; and no field of the tag is hidden by this parser's not knowing  *)
(* it.  With no tag the page claims nothing (plugins.ts:36-70, 86-95).     *)
(***************************************************************************)
ProvenanceIsTrue ==
    pluginPage = PluginLines /\ DOMAIN tagged \ {""} # {} =>
      \A name \in DOMAIN tagged \ {""} :
        LET value   == tagged[name]
            at(k)   == {i \in DOMAIN value : value[i].key = k}
            valued  == {i \in DOMAIN value : value[i].val # Bare}
            tiers   == at("verify") \cap valued
            unknown == {p.key : p \in Range(value)} \ {"blank", "verify", "version", "sha256", "commit"}
            said(k) == LastOf(value, at(k))
        IN  /\ \A v \in Tiers : <<name, "verify", v>> \in pluginPage <=> tiers # {} /\ LastOf(value, tiers) = v
            /\ \A k \in unknown :
                 \/ <<name, k, said(k)>> \in pluginPage
                 \/ said(k) \in {"", Bare} /\ <<name, "unrecognised", k>> \in pluginPage
            /\ <<name, "no readable provenance", "">> \in pluginPage <=> valued = {}

PluginsAreTold == PluginTypeOK /\ DeclaredInFull /\ ProvenanceIsTrue
=============================================================================
