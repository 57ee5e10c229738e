------------------------------ MODULE LaunchObject ------------------------------
(***************************************************************************)
(* What a launch hands on beside its tags: an object and the user data.    *)
(*                                                                         *)
(* The launch config object: the settings that leave the tags, encoded as  *)
(* Go's encoding/json encodes them (core/gojson.ts), named by the hash of  *)
(* its bytes in the tag spawn:config (core/launchconfig.ts).  spored reads *)
(* the object only if it hashes to the tag, and Go's tool writes the same  *)
(* bytes for the same settings.                                            *)
(*                                                                         *)
(* A text is a sequence of UTF-16 units, of each kind the encoder tells    *)
(* apart one or two; what it writes is a sequence of units and escapes.    *)
(***************************************************************************)
EXTENDS Naturals, Sequences, FiniteSets, Functions, SequencesExt

CONSTANTS
    SettingLists,   \* the settings of launches: sequences of <<key, text>>, as inserted
    SettingOrder    \* LAUNCH_CONFIG_SETTINGS, sorted

VARIABLES
    settings,   \* what this launch sets
    object,     \* the bytes, NoObject when there is nothing to set
    outcome     \* "asked", "encoded" or "refused"

objectVars == <<settings, object, outcome>>

\* What stands for the units that are not written as they are.
Escapes  == [bs |-> "\\b", ff |-> "\\f", nl |-> "\\n", cr |-> "\\r", tab |-> "\\t",
             quote |-> "\\\"", slash |-> "\\\\", NUL |-> "\\u0000", US |-> "\\u001f",
             LS |-> "\\u2028", PS |-> "\\u2029", lt |-> "\\u003c", gt |-> "\\u003e", amp |-> "\\u0026"]
Html     == {"lt", "gt", "amp"}
NoObject == <<>>

ASSUME ObjectConstants ==
    /\ SettingOrder \in Seq(STRING)
    /\ \A list \in SettingLists : list \in Seq(STRING \X Seq(STRING))
    /\ \A list \in SettingLists : \A n \in DOMAIN list :
           Range(list[n][2]) \cap ({Escapes[u] : u \in DOMAIN Escapes} \cup {"\\ufffd"}) = {}
-----------------------------------------------------------------------------
\* A high surrogate with a low one behind it, which then belongs to it.
PairAt(s, i) == s[i] = "high" /\ i < Len(s) /\ s[i + 1] = "low"
Paired(s, i)  == s[i] = "low" /\ i > 1 /\ s[i - 1] = "high"

Escaped(escapeHTML) == DOMAIN Escapes \ (IF escapeHTML THEN {} ELSE Html)

\* goJsonString: each unit is escaped, half a pair without the other replaced, or written as it is.
UnitAt(s, i, escapeHTML) ==
    IF s[i] \in Escaped(escapeHTML) THEN Escapes[s[i]]
    ELSE IF s[i] \in {"high", "low"} /\ ~ PairAt(s, i) /\ ~ Paired(s, i) THEN "\\ufffd"
    ELSE s[i]

GoJsonString(s, escapeHTML) == [i \in DOMAIN s |-> UnitAt(s, i, escapeHTML)]

\* Of a sequence, what is in S.
Keep(s, S) ==
    LET kept[n \in 0 .. Len(s)] ==
            IF n = 0 THEN <<>> ELSE IF s[n] \in S THEN Append(kept[n - 1], s[n]) ELSE kept[n - 1]
    IN  kept[Len(s)]

\* goMarshal of a plain object: one member a key, the last value of it, keys sorted.
GoMarshal(pairs, escapeHTML) ==
    LET keys   == Keep(SettingOrder, {p[1] : p \in Range(pairs)})
        Of(k)  == pairs[CHOOSE i \in DOMAIN pairs : /\ pairs[i][1] = k
                                                    /\ \A j \in DOMAIN pairs : pairs[j][1] = k => j <= i][2]
    IN  [n \in DOMAIN keys |-> <<keys[n], GoJsonString(Of(keys[n]), escapeHTML)>>]

Known(k) == \E i \in DOMAIN SettingOrder : SettingOrder[i] = k

ObjectInit == settings \in SettingLists /\ object = NoObject /\ outcome = "asked"

\* A key no spored would read is an error.
EncodeRefuses ==
    /\ outcome = "asked" /\ \E i \in DOMAIN settings : ~ Known(settings[i][1])
    /\ outcome' = "refused" /\ UNCHANGED <<settings, object>>

\* encodeLaunchConfig: empty values are dropped; no settings, no object.
EncodeLaunchConfig ==
    /\ outcome = "asked" /\ \A i \in DOMAIN settings : Known(settings[i][1])
    /\ LET clean == Keep(settings, {p \in Range(settings) : p[2] # <<>>}) IN
         object' = IF clean = <<>> THEN NoObject ELSE <<1, GoMarshal(clean, FALSE)>>
    /\ outcome' = "encoded" /\ UNCHANGED settings

ObjectNext == EncodeRefuses \/ EncodeLaunchConfig

ObjectSpec == ObjectInit /\ [][ObjectNext]_objectVars
-----------------------------------------------------------------------------
\* A JSON reader's view of one written unit.
Read(token) ==
    IF token = "\\ufffd" THEN "FFFD"
    ELSE IF \E u \in DOMAIN Escapes : Escapes[u] = token THEN CHOOSE u \in DOMAIN Escapes : Escapes[u] = token
    ELSE token

\* The text, with what is no UTF-16 replaced, as Go replaces it.
Repaired(s) ==
    [i \in DOMAIN s |-> IF s[i] \in {"high", "low"} /\ ~ PairAt(s, i) /\ ~ Paired(s, i) THEN "FFFD" ELSE s[i]]

(***************************************************************************)
(* What a JSON reader finds in the object is what the launch set, to the   *)
(* last unit, whatever the texts hold, so that two launches that set       *)
(* different things are told apart by the hash; and the bytes do not       *)
(* depend on the order in which the settings were inserted: they are those *)
(* of the settings sorted, which is what Go hashes (gojson.ts:1-16,        *)
(* launchconfig.ts:97-108).                                                *)
(***************************************************************************)
ObjectIsCanonical ==
    outcome = "encoded" =>
      LET set  == {k \in Range(SettingOrder) : \E i \in DOMAIN settings : settings[i] # <<k, <<>>>> /\ settings[i][1] = k}
          read == IF object = NoObject THEN <<>> ELSE object[2]
      IN  /\ [n \in DOMAIN read |-> read[n][1]] = Keep(SettingOrder, set)
          /\ \A n \in DOMAIN read :
               <<read[n][1], [i \in DOMAIN read[n][2] |-> Read(read[n][2][i])]>>
                 \in {<<p[1], Repaired(p[2])>> : p \in Range(settings)}
          /\ \A n \in DOMAIN read : Range(read[n][2]) \cap Escaped(FALSE) = {}

-----------------------------------------------------------------------------
(***************************************************************************)
(* The user data of a real launch (aws/userdata.ts): what is refused       *)
(* before EC2 is asked, the blocks of the script in their order, and what  *)
(* the instance finds when spored starts.  The script runs under `set -e`; *)
(* from the block that defines the retirement on, whatever ends it before  *)
(* spored is up retires the instance.                                      *)
(*                                                                         *)
(* How a body is fetched and checked, and how an instance is retired, is   *)
(* module Ec2Launch; here a block either does its work or fails.           *)
(***************************************************************************)
CONSTANTS
    Bootstraps,   \* what is asked for: [username, files, size], size the bytes gzip leaves
    MaxBytes,     \* EC2's limit on the decoded bytes, 16384
    MaxEncoded    \* EC2's limit on the base64 text, 25600

Files == {"command", "config", "plugins"}

ASSUME UserDataConstants ==
    /\ {MaxBytes, MaxEncoded} \subseteq Nat /\ 4 * ((MaxBytes + 2) \div 3) <= MaxEncoded
    /\ \A b \in Bootstraps : b.files \subseteq Files /\ b.size \in Nat

VARIABLES
    bootstrap,   \* what is asked for
    stub,        \* "asked", "refused", "sent", then how the script ended
    script,      \* its blocks
    block,       \* the one that runs next
    written      \* the files on the instance: the blocks that did their work

userDataVars == <<bootstrap, stub, script, block, written>>
-----------------------------------------------------------------------------
\* Base64 of b bytes: its length and the padding at its end.
EncodedLength(b) == 4 * ((b + 2) \div 3)
PaddingOf(b)     == (3 - (b % 3)) % 3

\* userDataSize: both lengths, from the text alone.
UserDataSize(length, padding) == [decoded |-> (length \div 4) * 3 - padding, encoded |-> length]

\* checkUserDataSize
TooLarge(b) ==
    LET size == UserDataSize(EncodedLength(b), PaddingOf(b))
    IN  size.decoded > MaxBytes \/ size.encoded > MaxEncoded

\* commandBlock, launchConfigBlock, pluginsBlock: nothing of a file nobody asked for.
BlockOf(f, files) == IF f \in files THEN <<f>> ELSE <<>>

\* buildLinuxBootstrap: the guard before anything that depends on the launch,
\* and what spored reads before the body that starts it.
BuildLinuxBootstrap(files) ==
    <<"key", "pin", "guard">> \o BlockOf("command", files) \o BlockOf("config", files)
        \o BlockOf("plugins", files) \o <<"body">>

UserDataInit ==
    /\ bootstrap \in Bootstraps /\ stub = "asked"
    /\ script = <<>> /\ block = 1 /\ written = {}

\* validateUsername and checkUserDataSize throw before the first call of AWS.
StubRefused ==
    /\ stub = "asked" /\ (bootstrap.username # "valid" \/ TooLarge(bootstrap.size))
    /\ stub' = "refused"
    /\ UNCHANGED <<bootstrap, script, block, written>>

StubSent ==
    /\ stub = "asked" /\ bootstrap.username = "valid" /\ ~ TooLarge(bootstrap.size)
    /\ stub' = "sent" /\ script' = BuildLinuxBootstrap(bootstrap.files)
    /\ UNCHANGED <<bootstrap, block, written>>

\* EC2 refuses with an HTTP 400 what is over a limit, and runs the rest.
Ec2Answers ==
    /\ stub = "sent"
    /\ stub' = IF bootstrap.size > MaxBytes \/ EncodedLength(bootstrap.size) > MaxEncoded
               THEN "rejected" ELSE "booting"
    /\ UNCHANGED <<bootstrap, script, block, written>>

GuardIsUp == "guard" \in written

\* A block does its work; the body's is to start spored, which reads the files once.
BlockDone ==
    /\ stub = "booting" /\ block <= Len(script)
    /\ written' = written \cup {script[block]} /\ block' = block + 1
    /\ stub' = IF script[block] = "body" THEN "spored up" ELSE stub
    /\ UNCHANGED <<bootstrap, script>>

\* A block fails and ends the script.
BlockFails ==
    /\ stub = "booting" /\ block <= Len(script)
    /\ stub' = IF GuardIsUp THEN "retired" ELSE "left alone"
    /\ UNCHANGED <<bootstrap, script, block, written>>

UserDataNext == StubRefused \/ StubSent \/ Ec2Answers \/ BlockDone \/ BlockFails

UserDataSpec == UserDataInit /\ [][UserDataNext]_userDataVars
-----------------------------------------------------------------------------
(***************************************************************************)
(* When spored starts it finds every file the launch asked for, since it   *)
(* reads them once; an instance that boots without spored is retired,      *)
(* unless the script died before it could know how (the two blocks before  *)
(* the guard, userdata.ts:138-153); EC2 is never asked for what it would   *)
(* refuse, and nothing that it would take is refused (userdata.ts:355-402).*)
(***************************************************************************)
BootFindsItsFiles ==
    /\ stub = "spored up" => bootstrap.files \subseteq written /\ GuardIsUp
    /\ stub = "left alone" => written \subseteq {"key", "pin"}
    /\ stub # "rejected"
    /\ stub = "refused" => bootstrap.username # "valid" \/ bootstrap.size > MaxBytes
=============================================================================
