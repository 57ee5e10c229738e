------------------------------- MODULE JobQueue -------------------------------
(***************************************************************************)
(* From a queue's configuration to the members of its fan-out              *)
(* (core/queue.ts): validateQueue, topologicalSort (Kahn's algorithm) and  *)
(* buildQueue.  What the engine does with the members is module FanOut.    *)
(***************************************************************************)
EXTENDS Naturals, Sequences, FiniteSets, Functions

CONSTANTS
    Configs,   \* the configurations users write
    NoId       \* the id of a job that has none

Job == [id : STRING, command : BOOLEAN, timeout : {"none", "ok", "bad"}, dependsOn : Seq(STRING),
        retry : {"none", "no count", "once", "thrice", "zero", "odd backoff", "not a number"}]

Config == [jobs : Seq(Job), globalTimeout : {"none", "ok", "bad"}, onFailure : {"continue", "stop", "odd"}]

ASSUME QueueConstants == Configs \subseteq Config

VARIABLES
    cfg,       \* [jobs, globalTimeout, onFailure]; a job is [id, command, timeout, dependsOn, retry]
    queueStage,     \* "given", "sorting", "built", "invalid", "circular"
    inDegree,  \* the dependencies each job still waits for, as often as it lists them
    ready,     \* jobs that wait for nothing, first in, first out
    order,     \* jobs taken from `ready`
    queueMembers    \* the fan-out's members, in that order

queueVars == <<cfg, queueStage, inDegree, ready, order, queueMembers>>

Declared == 1 .. Len(cfg.jobs)
Id(n)    == cfg.jobs[n].id
JobIds      == {Id(n) : n \in Declared}
DeclaredAt(j) == CHOOSE n \in Declared : Id(n) = j
DepsOf(j) == cfg.jobs[DeclaredAt(j)].dependsOn

\* The places at which j lists k.
Listings(j, k) == {i \in DOMAIN DepsOf(j) : DepsOf(j)[i] = k}

\* Some of the declared jobs, in the order of their declaration.
InOrder(some) ==
    {s \in [1 .. Cardinality(some) -> some] :
        /\ Range(s) = some
        /\ \A a, b \in DOMAIN s : a < b => DeclaredAt(s[a]) < DeclaredAt(s[b])}

-----------------------------------------------------------------------------
(***************************************************************************)
(* validateQueue, but for the cycles: the first problem throws.            *)
(***************************************************************************)
JobProblem(n) ==
    LET job == cfg.jobs[n] IN
    \/ job.id = NoId \/ \E m \in 1 .. n - 1 : Id(m) = job.id
    \/ ~job.command
    \/ job.timeout # "ok"

DependencyProblem(n) ==
    \E i \in DOMAIN cfg.jobs[n].dependsOn :
        LET dep == cfg.jobs[n].dependsOn[i] IN dep = Id(n) \/ dep \notin JobIds

Problem ==
    \/ Declared = {}
    \/ \E n \in Declared : JobProblem(n) \/ DependencyProblem(n)
                           \/ cfg.jobs[n].retry \in {"zero", "odd backoff"}
    \/ cfg.globalTimeout = "bad" \/ cfg.onFailure = "odd"

\* Keys are read in either spelling, what is missing is empty, and a retry without a count
\* is one attempt.
NormalizeQueueConfig(raw) ==
    [raw EXCEPT !.jobs = [n \in DOMAIN raw.jobs |->
        [raw.jobs[n] EXCEPT !.retry = IF @ = "no count" THEN "once" ELSE @]]]

QueueInit ==
    /\ \E raw \in Configs : cfg = NormalizeQueueConfig(raw)
    /\ queueStage = "given"
    /\ inDegree = [j \in {} |-> 0] /\ ready = <<>> /\ order = <<>> /\ queueMembers = <<>>

Refuse ==
    /\ queueStage = "given" /\ Problem
    /\ queueStage' = "invalid"
    /\ UNCHANGED <<cfg, inDegree, ready, order, queueMembers>>

\* A dependency that is listed twice counts twice.
Degree(j) == Len(DepsOf(j))

\* The degrees, and the first jobs that are ready.
Seed ==
    /\ queueStage = "given" /\ ~Problem
    /\ queueStage' = "sorting"
    /\ inDegree' = [j \in JobIds |-> Degree(j)]
    /\ ready' \in InOrder({j \in JobIds : Degree(j) = 0})
    /\ UNCHANGED <<cfg, order, queueMembers>>

Freed(taken) == {j \in JobIds : Listings(j, taken) # {} /\ inDegree'[j] = 0}

\* One turn of the loop: the first that is ready is taken, and frees its dependents.
Shift ==
    /\ queueStage = "sorting" /\ ready # <<>>
    /\ LET taken == Head(ready) IN
         /\ order' = Append(order, taken)
         /\ inDegree' = [j \in JobIds |-> inDegree[j] - Cardinality(Listings(j, taken))]
         /\ \E freed \in InOrder(Freed(taken)) : ready' = Tail(ready) \o freed
    /\ UNCHANGED <<cfg, queueStage, queueMembers>>

Circular ==
    /\ queueStage = "sorting" /\ ready = <<>> /\ Len(order) # Len(cfg.jobs)
    /\ queueStage' = "circular"
    /\ UNCHANGED <<cfg, inDegree, ready, order, queueMembers>>

Attempts(retry) == IF retry = "thrice" THEN 3 ELSE 1

\* One member a job: its own timeout is its TTL, its policy and dependencies go along.
Member(j) == [key |-> j, dependsOn |-> Range(DepsOf(j)), maxAttempts |-> Attempts(cfg.jobs[DeclaredAt(j)].retry)]

BuildQueue ==
    /\ queueStage = "sorting" /\ ready = <<>> /\ Len(order) = Len(cfg.jobs)
    /\ queueStage' = "built"
    /\ queueMembers' = [n \in 1 .. Len(order) |-> Member(order[n])]
    /\ UNCHANGED <<cfg, inDegree, ready, order>>

QueueNext == Refuse \/ Seed \/ Shift \/ Circular \/ BuildQueue

QueueSpec == QueueInit /\ [][QueueNext]_queueVars /\ WF_queueVars(QueueNext)
-----------------------------------------------------------------------------
\* The types of the variables; in particular no degree falls below zero.
QueueTypeOK ==
    /\ queueStage \in {"given", "sorting", "built", "invalid", "circular"}
    /\ queueStage = "sorting" => inDegree \in [JobIds -> Nat]
    /\ Range(ready) \cup Range(order) \subseteq JobIds
    /\ \A n \in DOMAIN queueMembers : queueMembers[n].key \in JobIds

(***************************************************************************)
(* No job is taken before every job it depends on, none twice: as far as   *)
(* it goes the order is a schedule of the jobs in it (queue.ts:126).       *)
(***************************************************************************)
OrderRespectsDependencies ==
    /\ \A a, b \in DOMAIN order : order[a] = order[b] => a = b
    /\ \A n \in DOMAIN order :
           Range(DepsOf(order[n])) \subseteq {order[m] : m \in 1 .. n - 1}

(***************************************************************************)
(* What is refused as circular has a cycle: jobs each of which waits for   *)
(* another of them.                                                        *)
(***************************************************************************)
CircularHasCycle ==
    queueStage = "circular" =>
        \E knot \in SUBSET JobIds :
            /\ knot # {}
            /\ \A j \in knot : \E k \in knot : Listings(j, k) # {}

(***************************************************************************)
(* A queue that is built can run to its end: every job is a member, after  *)
(* the members it depends on, so that even an engine that takes them in    *)
(* turn never waits for one to come (queue.ts:193).                        *)
(***************************************************************************)
BuiltIsRunnable ==
    queueStage = "built" =>
        /\ Len(queueMembers) = Cardinality(JobIds)
        /\ \A n \in DOMAIN queueMembers :
              queueMembers[n].dependsOn \subseteq {queueMembers[m].key : m \in 1 .. n - 1}

(***************************************************************************)
(* Nothing that the checks name is built: ids that are empty or not        *)
(* unique, no command, a timeout that does not parse, dependencies on      *)
(* itself or on nobody, retries that are none, an odd policy.              *)
(***************************************************************************)
BuiltIsSound ==
    queueStage \in {"built", "circular"} =>
        /\ Cardinality(JobIds) = Len(cfg.jobs) /\ NoId \notin JobIds
        /\ cfg.onFailure # "odd"
        /\ \A n \in Declared : LET job == cfg.jobs[n] IN
              /\ job.command /\ job.timeout = "ok" /\ job.retry \in {"none", "once", "thrice", "not a number"}
              /\ Range(job.dependsOn) \subseteq JobIds \ {job.id}

(***************************************************************************)
(* Jobs that depend on the same jobs keep the order of their declaration,  *)
(* run after run (queue.ts:130).                                           *)
(***************************************************************************)
PeersStayInOrder ==
    queueStage = "built" =>
        \A a, b \in DOMAIN order :
            DepsOf(order[a]) = DepsOf(order[b]) /\ a < b => DeclaredAt(order[a]) < DeclaredAt(order[b])

(***************************************************************************)
(* In the end no configuration is left half sorted: the loop ends in a     *)
(* queue that is built or in a refusal, whatever its dependencies repeat   *)
(* or lack.                                                                *)
(***************************************************************************)
QueueIsAnswered == queueStage \in {"built", "invalid", "circular"}

(***************************************************************************)
(* What is built of a queue can run to its end as it was written, and what *)
(* is refused could not.                                                   *)
(***************************************************************************)
QueueIsSound ==
    /\ QueueTypeOK /\ OrderRespectsDependencies /\ CircularHasCycle /\ BuiltIsRunnable
    /\ BuiltIsSound /\ PeersStayInOrder
=============================================================================
