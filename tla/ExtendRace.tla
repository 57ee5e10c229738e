----------------------------- MODULE ExtendRace -----------------------------
(***************************************************************************)
(* SpawnClient.extend (core/client.ts) on a real provider: read the        *)
(* instance, compute the new deadline, write both tags, ask spored to read *)
(* them again (EC2Provider.reloadAgent, which never throws), list.  Two    *)
(* tabs, or the command line and the dashboard, extend at the same time.   *)
(*                                                                         *)
(* Monitor has extensions against a monitor's ticks; this module has them  *)
(* against each other, and what each of them reports.  Nothing looks at    *)
(* the state of the instance: one that is overdue is extended too.         *)
(***************************************************************************)
EXTENDS Naturals, FiniteSets, FiniteSetsExt

CONSTANTS
    Extenders,    \* calls of extend
    Granted,      \* Granted[e]: the duration e asks for
    FirstTtl,     \* the TTL of the launch, at time 0
    LastTick      \* bound: how far time goes

ASSUME ExtendConstants ==
    /\ IsFiniteSet(Extenders) /\ Granted \in [Extenders -> Nat \ {0}]
    /\ FirstTtl \in Nat \ {0} /\ LastTick \in Nat

VARIABLES
    now,
    deadline,     \* spawn:ttl-deadline; spawn:ttl is written with it
    extension,    \* each call: "idle", "resolved", "tagged", "listing", "done", "failed",
                  \* or "lost": failed for its caller, though the tags were written
    computed,     \* the deadline each computed, and will report
    advice,       \* each call's event: "none", "requested", or "reload by hand"
    crossing,     \* history: calls that were between their read and their write together
    lapsed        \* history: how long the instance each read had been overdue

extendVars == <<now, deadline, extension, computed, advice, crossing, lapsed>>

ExtendInit ==
    /\ now = 0 /\ deadline = FirstTtl
    /\ extension = [e \in Extenders |-> "idle"]
    /\ computed = [e \in Extenders |-> 0]
    /\ advice = [e \in Extenders |-> "none"] /\ crossing = {}
    /\ lapsed = [e \in Extenders |-> 0]

UnderWay == {e \in Extenders : extension[e] = "resolved"}
Moves(e, to) == extension' = [extension EXCEPT ![e] = to]

\* The extension counts from now.
ComputeExtension_FromNow(d, by) == now + by

\* computeExtension, for the deadline that was read: never less than `by` from now.
ComputeExtension(d, by) == (IF d < now THEN now ELSE d) + by

\* resolve() has answered: what follows uses the instance as it was.
ExtendReads(e) ==
    /\ extension[e] = "idle"
    /\ Moves(e, "resolved")
    /\ computed' = [computed EXCEPT ![e] = ComputeExtension(deadline, Granted[e])]
    /\ crossing' = IF UnderWay = {} THEN crossing ELSE crossing \cup UnderWay \cup {e}
    /\ lapsed' = [lapsed EXCEPT ![e] = IF deadline < now THEN now - deadline ELSE 0]
    /\ UNCHANGED <<now, deadline, advice>>

\* setTags: CreateTags writes both tags at once; its answer may be lost, and the
\* call then rejects as it does when nothing was written.
CreateTags(e, to) ==
    /\ extension[e] = "resolved"
    /\ deadline' = computed[e]
    /\ Moves(e, to)
    /\ UNCHANGED <<now, computed, advice, crossing, lapsed>>

TagsWritten(e) == CreateTags(e, "tagged")
TagsLost(e) == CreateTags(e, "lost")

TagsRefused(e) ==
    /\ extension[e] = "resolved"
    /\ Moves(e, "failed")
    /\ UNCHANGED <<now, deadline, computed, advice, crossing, lapsed>>

\* reloadAgent: accepted, or not, which the event says; the extension stands either way.
ReloadAnswered(e) ==
    /\ extension[e] = "tagged"
    /\ \E what \in {"requested", "reload by hand"} : advice' = [advice EXCEPT ![e] = what]
    /\ Moves(e, "listing")
    /\ UNCHANGED <<now, deadline, computed, crossing, lapsed>>

\* refresh(), which may fail after all the rest.
ExtendListed(e) ==
    /\ extension[e] = "listing"
    /\ Moves(e, "done") \/ Moves(e, "failed")
    /\ UNCHANGED <<now, deadline, computed, advice, crossing, lapsed>>

ExtendTick ==
    /\ now < LastTick
    /\ now' = now + 1
    /\ UNCHANGED <<deadline, extension, computed, advice, crossing, lapsed>>

ExtendNext ==
    \/ \E e \in Extenders : ExtendReads(e) \/ TagsWritten(e) \/ TagsLost(e) \/ TagsRefused(e)
                            \/ ReloadAnswered(e) \/ ExtendListed(e)
    \/ ExtendTick

ExtendSpec == ExtendInit /\ [][ExtendNext]_extendVars
-----------------------------------------------------------------------------
\* The types of the variables.
ExtendTypeOK ==
    /\ now \in Nat /\ deadline \in Nat
    /\ extension \in [Extenders -> {"idle", "resolved", "tagged", "listing", "done", "failed", "lost"}]
    /\ computed \in [Extenders -> Nat]
    /\ advice \in [Extenders -> {"none", "requested", "reload by hand"}]
    /\ crossing \subseteq Extenders /\ lapsed \in [Extenders -> Nat]

\* The extensions that were written: under way, reported, failed in what came
\* after, or failed for their caller alone.
Counted == {e \in Extenders : \/ extension[e] \in {"tagged", "listing", "done", "lost"}
                              \/ extension[e] = "failed" /\ advice[e] # "none"}

\* What an extension adds: its duration, from the deadline or from now if that is later.
Added(e) == Granted[e] + lapsed[e]

(***************************************************************************)
(* Extensions that are not between read and write at the same time all     *)
(* count, and each for all of its time from now on an overdue instance,    *)
(* whatever fails: the deadline is the sum of those that were written.     *)
(* One whose answer was lost is among them, although its caller was told   *)
(* that it failed (client.ts:538-567, lifecycle.ts:103-106).               *)
(***************************************************************************)
AddsUpUnlessCrossed ==
    crossing = {} => deadline = FirstTtl + MapThenSumSet(Added, Counted)

(***************************************************************************)
(* Extensions that cross lose at most each other: the deadline holds one   *)
(* in full, and never falls below the one of the launch.                   *)
(***************************************************************************)
CrossedKeepsOne ==
    Counted # {} => \E e \in Counted : deadline >= FirstTtl + Added(e)

(***************************************************************************)
(* Extensions add up, and those that cross lose no more than each other.   *)
(***************************************************************************)
ExtensionsAddUp == ExtendTypeOK /\ AddsUpUnlessCrossed /\ CrossedKeepsOne
=============================================================================
