-------------------------------- MODULE Status --------------------------------
(***************************************************************************)
(* What the terminal tells of an instance (cli/commands.ts: list, status,  *)
(* connect, extend): the lines drawn from its tags, the notices after them *)
(* (core/notices.ts), the look for an Elastic IP that still bills          *)
(* (aws/eip.ts) and the word on whether spored was made to read a new      *)
(* deadline.  The instance lives on while a command waits for its answers. *)
(*                                                                         *)
(* A page is the set of lines that make a claim; times are abstract, and   *)
(* 0 is "not set" as in the tags.  The providers return managed instances  *)
(* only.                                                                   *)
(***************************************************************************)
EXTENDS Integers, Sequences

CONSTANTS
    Boxes,       \* the instances that are asked about, as they are at first
    Backings,    \* the backends: [real, reloads, addresses], each a BOOLEAN
    Latest,      \* ctx.latestSporedVersion, a sequence of numbers, or <<>>
    LastMoment,  \* bound: of the clock
    MaxAsked,    \* bound: commands
    MaxMoves     \* bound: what happens to the instance meanwhile

\* An instance as it is asked about.
Asked ==
    [state : {"pending", "running", "stopped", "gone"}, launch : Nat, ttl : Nat, deadline : Nat,
     idleTimeout : Nat, lastActivity : Nat, hibernates : BOOLEAN, priced : BOOLEAN, budget : Nat, compute : Nat,
     onComplete : {"none", "terminate", "exit", "stop", "hibernate"},
     dns : {"", "registered", "failed"}, eip : {"none", "held", "classic"}, version : Seq(Nat)]

ASSUME StatusConstants ==
    /\ Boxes \subseteq Asked
    /\ Backings \subseteq [real : BOOLEAN, reloads : BOOLEAN, addresses : BOOLEAN]
    /\ {LastMoment, MaxAsked, MaxMoves} \subseteq Nat /\ LastMoment > 0

VARIABLES
    backing,   \* the backend in use
    box,       \* the instance: its state, tags and address
    moment,    \* now
    known,     \* the deadline that spored holds in memory
    replying,  \* the command under way, "none" when there is none
    seen,      \* what it read: [inst, at]; for extend, whether the floor engaged
    page,      \* the lines it showed
    asks,      \* commands given so far
    moves      \* what happened to the instance so far

statusVars == <<backing, box, moment, known, replying, seen, page, asks, moves>>

BoxRules == INSTANCE Lifecycle WITH WarnWindow <- 0
DeadlineOf(i) == BoxRules!TtlDeadline(i)
Up(i) == i.state \in {"pending", "running"}
Line(test, line) == IF test THEN {line} ELSE {}
-----------------------------------------------------------------------------
(* core/notices.ts: one operator a notice, the set of what it claims.      *)

\* Variant: the deadline is the tag's alone.
LifecycleProtection_TagOnly(i, at) ==
    IF ~ Up(i) THEN {}
    ELSE {"protected"} \cup Line(i.deadline > at, "deadline ahead")
                       \cup Line(i.deadline > 0 /\ i.deadline <= at, "past due")

\* The deadline, the most it can cost until then, or a lifetime from no known start.
LifecycleProtection(i, at) ==
    LET d == DeadlineOf(i) IN
    IF ~ Up(i) THEN {}
    ELSE {"protected"}
         \cup Line(d > at, "deadline ahead") \cup Line(d > 0 /\ d <= at, "past due")
         \cup Line(d > 0 /\ i.priced /\ i.launch > 0 /\ d > i.launch, "cost ceiling")
         \cup Line(d = 0 /\ i.ttl > 0, "hard lifetime")
         \cup Line(i.idleTimeout > 0, "idle timeout")

\* An absent tag is "not known", and says nothing.
DnsNotice(i) == Line(i.dns \notin {"", "registered"}, "dns failed")

\* Three numbers; those that are missing are 0, those after them are not looked at.
NumberAt(v, k) == IF k <= Len(v) THEN v[k] ELSE 0
Newer(v, w) ==
    \E k \in 1 .. 3 : /\ NumberAt(v, k) > NumberAt(w, k)
                      /\ \A j \in 1 .. k - 1 : NumberAt(v, j) = NumberAt(w, j)

SporedUpgrade(i) ==
    Line(i.version # <<>> /\ Latest # <<>> /\ Newer(Latest, i.version), "upgrade available")

ElasticIpNotice(i, look) ==
    Line(look = "failed", "address not checked")
    \cup Line(look = "held" /\ Up(i), "address free while up")
    \cup Line(look = "held" /\ ~ Up(i), "address bills")

StatusNotices(i, at, look) ==
    LifecycleProtection(i, at) \cup DnsNotice(i) \cup ElasticIpNotice(i, look) \cup SporedUpgrade(i)

\* The address DescribeAddresses names; one with no allocation is passed over.
FirstAssociated(i) == IF i.eip = "held" THEN "held" ELSE "none"
-----------------------------------------------------------------------------
\* status: what it says before the notices, from what the instance was configured with.
StatusLines(i, at) ==
    {i.state} \cup Line(i.deadline > at, "ttl left") \cup Line(i.deadline > 0 /\ i.deadline <= at, "ttl expired")
              \cup Line(i.idleTimeout > 0, "idle rule") \cup Line(i.priced, "cost so far")
              \cup Line(i.budget > 0, "cost limit") \cup Line(i.onComplete # "none", "on complete")

\* list: one row, with the time left of the deadline tag, or a dash.
ListRow(i, at) ==
    {i.state, IF i.deadline = 0 THEN "no ttl shown" ELSE IF i.deadline > at THEN "ttl left" ELSE "ttl expired"}

ConnectLines(i) ==
    IF i.state = "running" THEN {i.state, "how to connect"} ELSE {i.state, "start it first"}

Nothing == [inst |-> [state |-> "none"], at |-> 0, clamped |-> FALSE]

StatusInit ==
    /\ backing \in Backings /\ box \in Boxes /\ moment = 1
    /\ known = DeadlineOf(box)
    /\ replying = "none" /\ seen = Nothing /\ page = {}
    /\ asks = 0 /\ moves = 0

Shows(lines) == page' = lines /\ replying' = "none" /\ seen' = Nothing /\ UNCHANGED asks
World == <<backing, box, moment, known, moves>>

\* A command of one answer: the page is of the instance as the provider has it now.
Answers(lines) ==
    /\ replying = "none" /\ box.state # "gone"
    /\ asks < MaxAsked /\ asks' = asks + 1
    /\ page' = lines /\ UNCHANGED <<World, replying, seen>>

ListShown    == Answers(ListRow(box, moment))
ConnectShown == Answers(ConnectLines(box))

\* requireInstance: one with more to ask goes on with the instance as it was read.
Reads(verb) ==
    /\ replying = "none" /\ box.state # "gone"
    /\ asks < MaxAsked /\ asks' = asks + 1
    /\ replying' = verb /\ seen' = [Nothing EXCEPT !.inst = box, !.at = moment]
    /\ page' = {} /\ UNCHANGED World

\* lookupElasticIp, which never throws.  A backend without addresses is not asked.
AddressAnswer ==
    IF backing.addresses THEN {FirstAssociated(box), "failed"} ELSE {"not asked"}

\* The address is looked for after the instance was read, and the clock read with it.
StatusShown ==
    /\ replying = "status"
    /\ \E look \in AddressAnswer :
         Shows(StatusLines(seen.inst, seen.at) \cup StatusNotices(seen.inst, seen.at, look))
    /\ UNCHANGED World

\* extend: no TTL, no extension.
ExtendRefused ==
    /\ replying = "extend" /\ DeadlineOf(seen.inst) = 0
    /\ Shows({"no ttl to extend"}) /\ UNCHANGED World

\* extend: the deadline is computed from what was read, and both tags are written.
WritesTags(next) ==
    /\ replying = "extend" /\ DeadlineOf(seen.inst) > 0
    /\ box' = [box EXCEPT !.deadline = next.deadline, !.ttl = next.ttl]
    /\ UNCHANGED <<backing, moment, known, moves>>

ExtendWrites(by) ==
    LET next == BoxRules!Extended(seen.inst, by, seen.at) IN
    /\ WritesTags(next) /\ replying' = "reload"
    /\ seen' = [seen EXCEPT !.clamped = next.deadline > DeadlineOf(seen.inst) + by]
    /\ UNCHANGED <<page, asks>>

\* setTags throws, although the tags were written: the answer was lost.
ExtendLost(by) == WritesTags(BoxRules!Extended(seen.inst, by, seen.at)) /\ Shows({"error"})

\* setTags throws: the command fails.
ExtendFails ==
    /\ replying = "extend" /\ DeadlineOf(seen.inst) > 0
    /\ Shows({"error"}) /\ UNCHANGED World

ReloadNotes ==
    IF ~ backing.real THEN {{}}
    ELSE IF ~ backing.reloads THEN {{"spored reads it within 5 minutes"}}
    ELSE {{"reload requested"}, {"spored may act on the old one"}}

\* extend: the reload is asked for on a real backend, and which of the two happened is said.
ExtendShown ==
    /\ replying = "reload"
    /\ \E notes \in ReloadNotes : Shows({"extended"} \cup Line(seen.clamped, "had expired") \cup notes)
    /\ UNCHANGED World
-----------------------------------------------------------------------------
\* spored reads the tags anew, on its own or because it was asked.
SporedReads ==
    /\ backing.real /\ box.state = "running" /\ known # DeadlineOf(box)
    /\ known' = DeadlineOf(box) /\ UNCHANGED <<backing, box, moment, replying, seen, page, asks, moves>>

\* What is beyond the client: stops, starts, addresses taken and given back, DNS, time.
BoxChanges(b) ==
    /\ box' = b /\ moves < MaxMoves /\ moves' = moves + 1
    /\ UNCHANGED <<backing, moment, known, replying, seen, page, asks>>

BoxMoves ==
    \/ box.state = "running" /\ BoxChanges([box EXCEPT !.state = "stopped"])
    \/ box.state \in {"pending", "stopped"} /\ BoxChanges([box EXCEPT !.state = "running"])
    \/ \E eip \in {"none", "held"} : box.eip # eip /\ BoxChanges([box EXCEPT !.eip = eip])
    \/ box.state = "running" /\ box.dns = "" /\ BoxChanges([box EXCEPT !.dns = "failed"])

\* spored terminates what it believes is due.
SporedEnds ==
    /\ backing.real /\ box.state = "running" /\ known > 0 /\ known <= moment
    /\ BoxChanges([box EXCEPT !.state = "gone"])

MomentPasses ==
    /\ moment < LastMoment /\ moment' = moment + 1
    /\ UNCHANGED <<backing, box, known, replying, seen, page, asks, moves>>

StatusNext ==
    \/ ListShown \/ ConnectShown
    \/ \E verb \in {"status", "extend"} : Reads(verb)
    \/ StatusShown
    \/ ExtendRefused \/ ExtendFails \/ (\E by \in 1 .. 2 : ExtendWrites(by) \/ ExtendLost(by)) \/ ExtendShown
    \/ SporedReads \/ BoxMoves \/ SporedEnds \/ MomentPasses

StatusSpec == StatusInit /\ [][StatusNext]_statusVars
-----------------------------------------------------------------------------
\* The types of the variables.
StatusTypeOK ==
    /\ backing \in Backings /\ moment \in 1 .. LastMoment /\ known \in Nat
    /\ box.state \in {"pending", "running", "stopped", "gone"}
    /\ replying \in {"none", "status", "extend", "reload"}

\* The line of status that tells of each rule.
TellsOf(rule) ==
    CASE rule = "completion" -> "on complete"
      [] rule = "ttl"        -> "past due"
      [] rule = "cost-limit" -> "cost limit"
      [] rule = "idle"       -> "idle rule"

\* The rules that the next check may end or stop the instance by, signalled or not, idle or not.
RulesDue(i, at) ==
    {rule \in {"completion", "ttl", "cost-limit", "idle"} :
        \E signal, idle \in BOOLEAN : BoxRules!Decision(i, at, signal, idle).rule = rule}

(***************************************************************************)
(* Nothing the next check of the lifecycle rules (evaluate) may do to the  *)
(* instance that was read is passed over by its status: each rule has its  *)
(* line, and what the TTL is about to end is called past due, whichever of *)
(* the two tags says so.  What is called past due is ended by the TTL, or  *)
(* is not running yet: then the check ends nothing (notices.ts:89, 104;    *)
(* lifecycle.ts:127).  An Elastic IP held by a stopped instance is never   *)
(* passed over either, even when the look for it fails (notices.ts:220).   *)
(***************************************************************************)
StatusIsTruthful ==
    [][replying = "status" /\ replying' = "none" =>
         /\ \A rule \in RulesDue(seen.inst, seen.at) : TellsOf(rule) \in page'
         /\ "past due" \in page' => "ttl" \in RulesDue(seen.inst, seen.at) \/ seen.inst.state = "pending"
         /\ backing.addresses /\ box.eip = "held" /\ ~ Up(seen.inst) =>
               page' \cap {"address bills", "address not checked"} # {}]_statusVars
=============================================================================
