-------------------------------- MODULE Sweep --------------------------------
(***************************************************************************)
(* From what a user types to the members of a sweep: the command's seeds   *)
(* for the defaults (cli/commands.ts), the grid shorthand, the expansion   *)
(* of a grid key by key, the merge of defaults and parameter sets          *)
(* (core/params.ts), and the mapping of each onto a launch (core/sweep.ts).*)
(*                                                                         *)
(* A JavaScript object is a sequence of <<key, value>>, in the order of    *)
(* insertion, which is the order Object.entries gives.                     *)
(***************************************************************************)
EXTENDS Naturals, Sequences, FiniteSets, SequencesExt

CONSTANTS
    Specs,       \* specifications typed: [defaults, params, shorthand]; shorthand is <<key, values>> pairs
    Seeds,       \* what --ttl and its like may add to the defaults: objects
    SortedKeys,  \* the keys a grid may have, as sort() leaves them
    FieldOf,     \* the launch field of each known key; two keys may be one field
    Fallbacks    \* <name>-0, <name>-1 ...

KeysOf(obj)     == {obj[n][1] : n \in DOMAIN obj}
Value(obj, key) == obj[CHOOSE n \in DOMAIN obj : obj[n][1] = key][2]

\* An object has no key twice.
IsObject(obj, T) == obj \in Seq(STRING \X T) /\ \A m, n \in DOMAIN obj : obj[m][1] = obj[n][1] => m = n

ASSUME SweepConstants ==
    /\ SortedKeys \in Seq(STRING) /\ IsInjective(SortedKeys)
    /\ Fallbacks \in Seq(STRING) /\ IsInjective(Fallbacks)
    /\ "name" \in DOMAIN FieldOf /\ \A k \in DOMAIN FieldOf : FieldOf[k] \in STRING /\ (FieldOf[k] = "name" <=> k = "name")
    /\ \A s \in Specs :
         /\ IsObject(s.defaults, STRING)
         /\ s.params \in Seq(Seq(STRING \X STRING)) /\ \A n \in DOMAIN s.params : IsObject(s.params[n], STRING)
         /\ s.shorthand \in Seq(Range(SortedKeys) \X Seq(STRING))
    \* What a flag sets is no name, and is spelled in one way only.
    /\ \A s \in Seeds :
         /\ IsObject(s, STRING)
         /\ \A k \in KeysOf(s) : k # "name" /\ \A l \in DOMAIN FieldOf : k \in DOMAIN FieldOf /\ FieldOf[l] = FieldOf[k] => l = k

VARIABLES phase, spec, seed,
    grid,      \* spec.grid
    keys,      \* of the grid, those still to be expanded
    combos,    \* parameter sets of the grid so far
    resolved,  \* defaults and set merged, by index
    sweepMembers    \* [fields, parameters] by index

sweepVars == <<phase, spec, seed, grid, keys, combos, resolved, sweepMembers>>

\* obj[key] = v: a key that is there keeps its place.
Put(obj, key, v) ==
    IF key \in KeysOf(obj) THEN [n \in DOMAIN obj |-> IF obj[n][1] = key THEN <<key, v>> ELSE obj[n]]
    ELSE Append(obj, <<key, v>>)

\* Entries assigned one after the other, each to what `to` calls its key, if it calls it anything.
Assign(obj, entries, to) ==
    LET done[n \in 0 .. Len(entries)] ==
          IF n = 0 THEN obj
          ELSE IF entries[n][1] \in DOMAIN to THEN Put(done[n - 1], to[entries[n][1]], entries[n][2])
          ELSE done[n - 1]
    IN  done[Len(entries)]

\* Every key called what it is.
AsIs(some) == [k \in some |-> k]

\* {...base, ...over}
Merge(base, over) == Assign(base, over, AsIs(KeysOf(over)))

\* seed(): a flag only fills what the specification's defaults leave open.
Seeded(defaults, flags) == Assign(defaults, flags, AsIs(KeysOf(flags) \ KeysOf(defaults)))

Dropping(s, v) ==
    LET kept[n \in 0 .. Len(s)] ==
          IF n = 0 THEN <<>> ELSE IF s[n] = v THEN kept[n - 1] ELSE Append(kept[n - 1], s[n])
    IN  kept[Len(s)]

\* parseGridShorthand: empty values are dropped, and a key of none is an error; a key given
\* twice has its last values.
GridOf(pairs) ==
    LET entries == [n \in DOMAIN pairs |-> <<pairs[n][1], Dropping(pairs[n][2], "")>>]
    IN  Assign(<<>>, entries, AsIs(KeysOf(entries)))
BadGrid(pairs) == \E n \in DOMAIN pairs : Dropping(pairs[n][2], "") = <<>>

\* Of some keys the one that sort() puts first.
FirstKey(some) ==
    SortedKeys[CHOOSE n \in DOMAIN SortedKeys : SortedKeys[n] \in some /\ \A m \in 1 .. n - 1 : SortedKeys[m] \notin some]

SweepInit ==
    /\ phase = "typed" /\ spec \in Specs /\ seed \in Seeds /\ grid = <<>>
    /\ keys = {} /\ combos = <<>> /\ resolved = <<>> /\ sweepMembers = <<>>

RefuseGrid ==
    /\ phase = "typed" /\ BadGrid(spec.shorthand) /\ phase' = "refused"
    /\ UNCHANGED <<spec, seed, grid, keys, combos, resolved, sweepMembers>>

BeginGrid ==
    /\ phase = "typed" /\ ~BadGrid(spec.shorthand) /\ phase' = "expanding"
    /\ grid' = GridOf(spec.shorthand)
    /\ keys' = KeysOf(grid')
    /\ combos' = IF grid' = <<>> THEN <<>> ELSE <<<<>>>>
    /\ UNCHANGED <<spec, seed, resolved, sweepMembers>>

ExpandKey ==
    /\ phase = "expanding" /\ keys # {} /\ keys' = keys \ {FirstKey(keys)}
    /\ LET k == FirstKey(keys) vs == Value(grid, k) IN
       combos' = FlattenSeq([c \in DOMAIN combos |-> [v \in DOMAIN vs |-> Append(combos[c], <<k, vs[v]>>)]])
    /\ UNCHANGED <<phase, spec, seed, grid, resolved, sweepMembers>>

\* resolveMembers: explicit sets first.
Resolve ==
    /\ phase = "expanding" /\ keys = {}
    /\ LET sets     == spec.params \o combos
           defaults == Seeded(spec.defaults, seed)
       IN  /\ phase' = IF sets = <<>> THEN "refused" ELSE "resolved"
           /\ resolved' = [n \in DOMAIN sets |-> Merge(defaults, sets[n])]
    /\ UNCHANGED <<spec, seed, grid, keys, combos, sweepMembers>>

\* mapMember: known keys in the order of the object, the last of a field wins; the rest are
\* parameters.
MapMember(values, fallback) ==
    [fields     |-> Assign(<<<<"name", fallback>>>>, values, FieldOf),
     parameters |-> [k \in KeysOf(values) \ DOMAIN FieldOf |-> Value(values, k)]]

\* Members are counted through, over the explicit sets and those of the grid.
MemberName(n) == Fallbacks[n]

BuildSweep ==
    /\ phase = "resolved" /\ Len(resolved) <= Len(Fallbacks) /\ phase' = "built"
    /\ sweepMembers' = [n \in DOMAIN resolved |-> MapMember(resolved[n], MemberName(n))]
    /\ UNCHANGED <<spec, seed, grid, keys, combos, resolved>>

SweepNext == RefuseGrid \/ BeginGrid \/ ExpandKey \/ Resolve \/ BuildSweep
SweepSpec == SweepInit /\ [][SweepNext]_sweepVars /\ WF_sweepVars(SweepNext)
-----------------------------------------------------------------------------
Explicit  == Len(spec.params)
Size(n)   == Len(Value(grid, SortedKeys[n]))
InGrid    == {n \in DOMAIN SortedKeys : SortedKeys[n] \in KeysOf(grid)}
Radices   == [m \in DOMAIN SortedKeys |-> IF m \in InGrid THEN Size(m) ELSE 1]
Products(radices, n) ==
    LET product[m \in n .. Len(radices)] == IF m = n THEN 1 ELSE product[m - 1] * radices[m] IN product
Weight(n) == Products(Radices, n)[Len(SortedKeys)]

(***************************************************************************)
(* Every combination has the one index the sorted keys give it, the last   *)
(* key running fastest, whatever order they were written in: a sweep that  *)
(* is run again numbers its members alike (params.ts:41).                  *)
(***************************************************************************)
IndexIsMixedRadix ==
    phase = "expanding" /\ keys = {} =>
        /\ Len(combos) = IF InGrid = {} THEN 0 ELSE Weight(0)
        /\ \A c \in DOMAIN combos : KeysOf(combos[c]) = KeysOf(grid)
        /\ \A c \in DOMAIN combos : \A n \in InGrid :
             Value(combos[c], SortedKeys[n]) = Value(grid, SortedKeys[n])[(((c - 1) \div Weight(n)) % Size(n)) + 1]

(***************************************************************************)
(* A member's own value of a field beats the defaults', and the defaults'  *)
(* beat the command line's, unless the defaults spell the field in two     *)
(* ways: then the second spelling's place decides (sweep.ts:95).           *)
(***************************************************************************)
Spelled(obj, f) == {k \in KeysOf(obj) : k \in DOMAIN FieldOf /\ FieldOf[k] = f}
OwnValueWins ==
    phase = "built" =>
        \A n \in 1 .. Explicit : \A f \in {FieldOf[k] : k \in DOMAIN FieldOf} :
            LET own == Spelled(spec.params[n], f) dflt == Spelled(spec.defaults, f)
                flag == Spelled(seed, f) has == f \in KeysOf(sweepMembers[n].fields)
            IN  /\ own # {} /\ (\A k, l \in dflt : k = l) =>
                       has /\ \E k \in own : Value(sweepMembers[n].fields, f) = Value(spec.params[n], k)
                /\ own = {} /\ dflt # {} =>
                       has /\ \E k \in dflt : Value(sweepMembers[n].fields, f) = Value(spec.defaults, k)
                /\ own = {} /\ dflt = {} /\ flag # {} =>
                       has /\ \E k \in flag : Value(sweepMembers[n].fields, f) = Value(seed, k)

(***************************************************************************)
(* Members that were not named are named apart: fan-outs, cards and        *)
(* commands go by name.                                                    *)
(***************************************************************************)
UnnamedDiffer ==
    phase = "built" =>
        \A m, n \in DOMAIN sweepMembers :
            m # n /\ Value(sweepMembers[m].fields, "name") = Value(sweepMembers[n].fields, "name") =>
                LET sets == spec.params \o combos IN
                "name" \in KeysOf(spec.defaults) \cup KeysOf(sets[m]) \cup KeysOf(sets[n])

(***************************************************************************)
(* What was typed either comes to be a sweep of all that was asked for, or *)
(* is refused: for a key without values, or for no set at all.             *)
(***************************************************************************)
AnsweredRightly ==
    /\ phase = "built" => sweepMembers # <<>> /\ Len(sweepMembers) = Explicit + Len(combos)
    /\ phase = "refused" => BadGrid(spec.shorthand) \/ (spec.params = <<>> /\ grid = <<>>)

\* Whatever was typed, in the end.
SweepIsAnswered == phase \in {"built", "refused"}

(***************************************************************************)
(* A sweep is every combination that was asked for, in an order that does  *)
(* not change, each with its own values and its own name.                  *)
(***************************************************************************)
SweepIsSound == IndexIsMixedRadix /\ OwnValueWins /\ UnnamedDiffer /\ AnsweredRightly
=============================================================================
