-------------------------------- MODULE Args --------------------------------
(***************************************************************************)
(* The terminal's command lines (cli/args.ts, cli/commands.ts): parseArgs  *)
(* goes through the words of a line and sorts them into the command, its   *)
(* positionals, flags with their values and what stands behind a --; the   *)
(* commands read numbers, durations and repeated flags out of the result.  *)
(* Words are short tokens here, quoting is left out.                       *)
(***************************************************************************)
EXTENDS Naturals, Sequences, FiniteSets, SequencesExt

CONSTANTS Words,      \* words that do not begin with a dash
          Toggles,    \* boolean flags, as registered in BOOLEAN_FLAGS
          Takers,     \* flags that are meant to have a value
          MaxWords    \* bound: of a line

Flags == Toggles \cup Takers

\* A word of a line: a plain word, --, a flag, or a flag with its value behind an equals sign.
Token == [kind : {"word"}, text : Words] \cup [kind : {"end"}] \cup [kind : {"flag"}, name : Flags]
           \cup [kind : {"pair"}, name : Takers, text : Words]

Lone   == ""          \* the value of a flag that stands without one: true
Absent == "absent"

ASSUME ArgsConstants == Toggles \cap Takers = {} /\ MaxWords \in Nat /\ {Lone, Absent} \cap Words = {}

VARIABLES argv, argAt,
    command, positionals, remote,
    flags,     \* each flag's last value, Lone or Absent
    lists,     \* each flag's values, in the order read
    parsed

argsVars == <<argv, argAt, command, positionals, remote, flags, lists, parsed>>

ArgsInit ==
    /\ argv \in BoundedSeq(Token, MaxWords) /\ argAt = 1 /\ parsed = FALSE
    /\ command = "" /\ positionals = <<>> /\ remote = <<>>
    /\ flags = [f \in Flags |-> Absent] /\ lists = [f \in Flags |-> <<>>]

Here    == argv[argAt]
HasNext == argAt < Len(argv)

BOOLEAN_FLAGS == Toggles

\* A flag is set to a value: the last wins in `flags`, all are in `lists`.
SetFlag(name, value) ==
    flags' = [flags EXCEPT ![name] = value] /\ lists' = [lists EXCEPT ![name] = Append(@, value)]

\* `--`: everything behind it is the remote command, context.rest.
ReadEnd ==
    /\ Here.kind = "end"
    /\ remote' = SubSeq(argv, argAt + 1, Len(argv)) /\ argAt' = Len(argv) + 1
    /\ UNCHANGED <<command, positionals, flags, lists>>

ReadPair ==
    /\ Here.kind = "pair"
    /\ SetFlag(Here.name, Here.text) /\ argAt' = argAt + 1
    /\ UNCHANGED <<command, positionals, remote>>

\* The value of a flag is the word behind it, unless that begins with a dash.
ReadFlag_AnyNext ==
    /\ Here.kind = "flag"
    /\ LET takes == Here.name \notin BOOLEAN_FLAGS /\ HasNext /\ argv[argAt + 1].kind \in {"word", "end"} IN
         /\ IF takes /\ argv[argAt + 1].kind = "word" THEN SetFlag(Here.name, argv[argAt + 1].text)
            ELSE flags' = [flags EXCEPT ![Here.name] = Lone] /\ UNCHANGED lists
         /\ argAt' = IF takes THEN argAt + 2 ELSE argAt + 1
    /\ UNCHANGED <<command, positionals, remote>>

TakesNext == Here.name \notin BOOLEAN_FLAGS /\ HasNext /\ argv[argAt + 1].kind = "word"

ReadFlag ==
    /\ Here.kind = "flag"
    /\ IF TakesNext THEN SetFlag(Here.name, argv[argAt + 1].text) /\ argAt' = argAt + 2
       ELSE flags' = [flags EXCEPT ![Here.name] = Lone] /\ UNCHANGED lists /\ argAt' = argAt + 1
    /\ UNCHANGED <<command, positionals, remote>>

ReadWord ==
    /\ Here.kind = "word" /\ argAt' = argAt + 1
    /\ IF command = "" THEN command' = Here.text /\ UNCHANGED positionals
                       ELSE positionals' = Append(positionals, Here.text) /\ UNCHANGED command
    /\ UNCHANGED <<remote, flags, lists>>

ReadToken == argAt <= Len(argv) /\ (ReadEnd \/ ReadPair \/ ReadFlag \/ ReadWord) /\ UNCHANGED <<argv, parsed>>

Parsed == argAt > Len(argv) /\ ~parsed /\ parsed' = TRUE /\ UNCHANGED <<argv, argAt, command, positionals, remote, flags, lists>>

ArgsNext == ReadToken \/ Parsed
ArgsSpec == ArgsInit /\ [][ArgsNext]_argsVars /\ WF_argsVars(ArgsNext)
-----------------------------------------------------------------------------
\* flagStr: "" where the flag stands alone; flagList: every value, in order.
FlagStr(name)  == IF flags[name] \in Words THEN flags[name] ELSE ""
FlagList(name) == lists[name]

NumFlag(name) ==
    IF flags[name] = Absent THEN "absent" ELSE IF flags[name] = Lone THEN "refused" ELSE "value"

\* A word of the line by its place: behind a --, the value of the flag before it, or plain.
Behind        == {n \in DOMAIN argv : \E m \in 1 .. n - 1 : argv[m].kind = "end"}
ValueOfFlag(n, names) == argv[n].kind = "word" /\ n > 1 /\ argv[n - 1].kind = "flag" /\ argv[n - 1].name \in names
PlainPlaces   == {n \in DOMAIN argv \ Behind : argv[n].kind = "word" /\ ~ ValueOfFlag(n, Takers)}
ValuePlaces(name) ==
    {n \in DOMAIN argv \ Behind : \/ argv[n].kind = "pair" /\ argv[n].name = name
                                  \/ ValueOfFlag(n, {name})}

\* What a list holds is the texts at these places, in the order of the line.
ListsTexts(list, places) ==
    /\ Len(list) = Cardinality(places)
    /\ \A n \in places : list[Cardinality({m \in places : m <= n})] = argv[n].text

PlainWords == IF command = "" THEN <<>> ELSE <<command>> \o positionals

(***************************************************************************)
(* The command and its positionals are the plain words in their order,     *)
(* wherever the toggles stand: --no-timeout before a name is not given the *)
(* name for its value (commands.ts:72).                                    *)
(***************************************************************************)
TogglesEatNothing == parsed => ListsTexts(PlainWords, PlainPlaces)

(***************************************************************************)
(* What stands behind -- is for the remote host: none of it is a flag of   *)
(* the command, and all of it is kept.                                     *)
(***************************************************************************)
RemoteCommandIsWhole ==
    parsed => LET first == {n \in DOMAIN argv : argv[n].kind = "end" /\ n \notin Behind}
            IN  \A n \in first : remote = SubSeq(argv, n + 1, Len(argv))

(***************************************************************************)
(* A flag that is given more than once has all its values, in their order, *)
(* and its last one is what a single-valued reading has, if it has one.    *)
(***************************************************************************)
RepeatsAreKept ==
    parsed => \A name \in Takers :
        /\ ListsTexts(FlagList(name), ValuePlaces(name))
        /\ FlagStr(name) # "" => FlagList(name) # <<>> /\ FlagStr(name) = Last(FlagList(name))

(***************************************************************************)
(* A threshold that is typed without its value is refused and never taken  *)
(* for one that was not typed (commands.ts:857).                           *)
(***************************************************************************)
ThresholdNeverDefaults ==
    parsed => \A name \in Takers :
        NumFlag(name) = "absent" =>
            \A n \in DOMAIN argv : argv[n].kind \in {"flag", "pair"} /\ argv[n].name = name => n \in Behind

(***************************************************************************)
(* A command gets the words, flags and values that were typed for it.      *)
(***************************************************************************)
LineIsReadAsTyped == TogglesEatNothing /\ RemoteCommandIsWhole /\ RepeatsAreKept /\ ThresholdNeverDefaults
=============================================================================
