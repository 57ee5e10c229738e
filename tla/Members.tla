------------------------------- MODULE Members -------------------------------
(***************************************************************************)
(* What a fan-out is made of: buildJobArray, buildSweep and buildQueue     *)
(* (core/jobarray.ts, sweep.ts, queue.ts) give it an id out of its name    *)
(* and the clock, and each member a key, a name and its membership; the    *)
(* client hands some of the options on to the engine.                      *)
(*                                                                         *)
(* An id is a name, a date and six characters.  Those of a sweep are the   *)
(* decimal digits of the milliseconds modulo a million, those of an array  *)
(* hexadecimal digits modulo 0xffffff, those of a queue the time of day;   *)
(* here they are one digit, and times are scaled with it.                  *)
(***************************************************************************)
EXTENDS Integers, Sequences, FiniteSets, SequencesExt

CONSTANTS
    Moments,      \* when fan-outs are built, in milliseconds
    Second, Day,  \* in milliseconds
    SweepWheel,   \* 1,000,000
    ArrayWheel,   \* 0xffffff
    Wishes,       \* what callers ask for: [kind, name, given, size, baseName, onFailure,
                  \* minViable]; what is missing is "" or 0
    MaxBuilt      \* bound: fan-outs

ASSUME MembersConstants ==
    /\ Moments \cup {MaxBuilt} \subseteq Nat
    /\ \A w \in Wishes :
          /\ w.kind \in {"sweep", "queue", "jobarray"} /\ {w.size, w.minViable} \subseteq Nat
          /\ w.given \in BOOLEAN
          /\ w.size = 0 => w.kind = "jobarray"    \* an empty spec and a queue of no jobs are refused before
    /\ {Second, Day, SweepWheel, ArrayWheel} \subseteq Nat \ {0}
    /\ Day % Second = 0

VARIABLES
    fanOuts,   \* those that were built: [kind, id, at, given, named, size, members, engine]
    refused    \* a size was no positive integer

membersVars == <<fanOuts, refused>>

MembersInit == fanOuts = <<>> /\ refused = FALSE
-----------------------------------------------------------------------------
PrefixOf(w) ==
    IF w.name # "" THEN w.name
    ELSE CASE w.kind = "sweep" -> "sweep"
           [] w.kind = "queue" -> "queue"
           [] w.kind = "jobarray" -> IF w.baseName # "" THEN w.baseName ELSE "array"

\* Variant: an array's characters are those of the second, as a queue's are.
GenerateJobArrayId_Seconds(name, at) == <<name, at \div Day, (at % Day) \div Second>>

GenerateSweepId(name, at)    == <<name, at \div Day, at % SweepWheel>>
GenerateJobArrayId(name, at) == <<name, at \div Day, at % ArrayWheel>>
GenerateQueueId(at)          == <<"queue", at \div Day, (at % Day) \div Second>>

IdOf(w, at) ==
    IF w.given THEN <<"given">>
    ELSE CASE w.kind = "sweep" -> GenerateSweepId(PrefixOf(w), at)
           [] w.kind = "jobarray" -> GenerateJobArrayId(PrefixOf(w), at)
           [] w.kind = "queue" -> GenerateQueueId(at)

\* The defaults of a sweep or a queue may name its members, all alike; a queue's keys are its jobs.
SweepMember(w, id, n) ==
    [key |-> <<id, n>>, name |-> IF w.baseName # "" THEN <<w.baseName>> ELSE <<PrefixOf(w), n>>,
     index |-> n, of |-> w.size, sweep |-> id, jobArray |-> <<>>]
QueueMember(w, id, n) == [SweepMember(w, id, n) EXCEPT !.key = <<"job", n>>]

\* An array names and places its members itself, and takes them out of any sweep of the base.
ArrayMember(w, id, n) ==
    [key |-> <<id, n>>, name |-> <<PrefixOf(w), n>>,
     index |-> n, of |-> w.size, sweep |-> <<>>, jobArray |-> id]

MemberAt(w, id, n) ==
    CASE w.kind = "sweep" -> SweepMember(w, id, n)
      [] w.kind = "queue" -> QueueMember(w, id, n)
      [] w.kind = "jobarray" -> ArrayMember(w, id, n)

\* What the engine runs with: it stops on no failure and is viable with one unless told.
Engine(onFailure, minViable, size) ==
    [onFailure |-> IF onFailure = "" THEN "continue" ELSE onFailure,
     minViable |-> IF minViable < 1 THEN 1 ELSE IF minViable > size THEN size ELSE minViable]

StartSweep(w)    == Engine("", 0, w.size)
StartQueue(w)    == Engine(w.onFailure, 0, w.size)
StartJobArray(w) == Engine("", w.minViable, w.size)

Built(w, at) ==
    LET id == IdOf(w, at) IN
    [kind |-> w.kind, id |-> id, at |-> at, given |-> w.given, named |-> w.baseName, size |-> w.size,
     members |-> [n \in 1 .. w.size |-> MemberAt(w, id, n - 1)],
     engine |-> CASE w.kind = "sweep" -> StartSweep(w) [] w.kind = "queue" -> StartQueue(w)
                  [] w.kind = "jobarray" -> StartJobArray(w)]

SizeRefused(w) ==
    /\ w.size = 0 /\ fanOuts = <<>>    \* bound: at first only
    /\ refused' = TRUE /\ UNCHANGED fanOuts

\* One after the other, by the clock; what was refused leaves nothing to go on with.
Build(w, at) ==
    /\ w.size > 0 /\ Len(fanOuts) < MaxBuilt /\ ~ refused
    /\ \A k \in DOMAIN fanOuts : fanOuts[k].at <= at
    /\ fanOuts' = Append(fanOuts, Built(w, at)) /\ UNCHANGED refused

MembersNext == \E w \in Wishes : SizeRefused(w) \/ \E at \in Moments : Build(w, at)
MembersSpec == MembersInit /\ [][MembersNext]_membersVars
-----------------------------------------------------------------------------
\* The time over which the characters of an id do not come again.
Turn(kind) == IF kind = "sweep" THEN SweepWheel ELSE IF kind = "jobarray" THEN ArrayWheel ELSE Day
Tick(f)    == IF f.kind = "queue" THEN f.at \div Second ELSE f.at

(***************************************************************************)
(* Two fan-outs of a kind share an id, under which the later would replace *)
(* the earlier in the client's registry, only if it was given to them, or  *)
(* they were built in one tick of the id's clock, a millisecond or for a   *)
(* queue a second, or a whole turn of it apart (jobarray.ts:80,            *)
(* sweep.ts:117, queue.ts:170).                                            *)
(***************************************************************************)
IdsAreApart ==
    \A k, n \in DOMAIN fanOuts :
        LET f == fanOuts[k]  g == fanOuts[n] IN
        (k < n /\ f.kind = g.kind /\ f.id = g.id /\ ~ f.given) =>
            Tick(f) = Tick(g) \/ g.at - f.at >= Turn(f.kind)

Whole(f) ==
    LET tag(m) == IF f.kind = "jobarray" THEN m.jobArray ELSE m.sweep IN
    /\ {m.index : m \in ToSet(f.members)} = 0 .. f.size - 1
    /\ Cardinality({m.key : m \in ToSet(f.members)}) = f.size
    /\ (f.kind = "jobarray" \/ f.named = "") => Cardinality({m.name : m \in ToSet(f.members)}) = f.size
    /\ \A m \in ToSet(f.members) :
          m.of = f.size /\ tag(m) = f.id /\ (m.sweep = <<>>) # (m.jobArray = <<>>)

(***************************************************************************)
(* Whoever groups instances by an id that is not shared finds each index   *)
(* below the size once, under a key of its own and, unless the defaults    *)
(* named them all, a name of its own, and no member in two groups.         *)
(***************************************************************************)
GroupsAreWhole == \A k \in DOMAIN fanOuts : Whole(fanOuts[k])

\* Only an array is wound down for its threshold, and one that its members can reach.
ThresholdCanBeMet ==
    \A k \in DOMAIN fanOuts :
        LET f == fanOuts[k] IN
        f.engine.minViable \in 1 .. f.size /\ (f.kind # "jobarray" => f.engine.minViable = 1)

MembersAreSound == refused \in BOOLEAN /\ IdsAreApart /\ GroupsAreWhole /\ ThresholdCanBeMet
=============================================================================
