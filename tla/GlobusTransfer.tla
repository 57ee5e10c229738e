---------------------------- MODULE GlobusTransfer ----------------------------
(***************************************************************************)
(* The client of Globus Transfer (transfer/globus.ts): submissions, the    *)
(* watch over a task, and its cancellation, over HTTP calls whose request  *)
(* or answer may be lost or, by whatever carries it, repeated.             *)
(*                                                                         *)
(* Globus is external: it starts one task for each submission id it sees,  *)
(* moves tasks as it likes, and knows statuses this client does not.       *)
(***************************************************************************)
EXTENDS Naturals

CONSTANTS
    Submissions,  \* calls of submitTransfer, numbered
    Limits        \* what callers pass as timeoutMs: "none", "some"

ASSUME TransferConstants == Submissions \subseteq Nat /\ Limits \subseteq {"none", "some"}

Ended == {"SUCCEEDED", "FAILED"}

VARIABLES
    submission,   \* each call: "idle", "id", "post", "done", "rejected"
    items,        \* the calls that name something to transfer
    seen,         \* Globus: the submission ids it has seen
    task,         \* Globus: the task of each call, "none" if it has none
    watching,     \* awaitTask of each call: "off", "getting", "answered", "sleeping",
                  \* "finished", "timeout", "rejected"
    observed,     \* the status the last answer held, after toTask
    limit,        \* timeoutMs of each watch
    due,          \* the watches whose timeoutMs has passed
    cancelling    \* cancelTask of each call: "no", "asked", "cancelled", "complete", "rejected"

transferVars == <<submission, items, seen, task, watching, observed, limit, due, cancelling>>

TransferInit ==
    /\ submission = [c \in Submissions |-> "idle"] /\ items = {}
    /\ seen = {} /\ task = [c \in Submissions |-> "none"]
    /\ watching = [c \in Submissions |-> "off"]
    /\ observed = [c \in Submissions |-> "ACTIVE"]
    /\ limit = [c \in Submissions |-> "none"] /\ due = {}
    /\ cancelling = [c \in Submissions |-> "no"]

IsTerminal(status) == status \in Ended

\* What the client does not know is taken for a transfer under way.
NormalizeStatus(status) ==
    IF status \in {"SUCCEEDED", "FAILED", "INACTIVE", "ACTIVE"} THEN status ELSE "ACTIVE"

\* Each call fetches an id of its own.
SubmissionId(c) == c

-----------------------------------------------------------------------------
Submits(c, to) == submission' = [submission EXCEPT ![c] = to]
Watches(c, to) == watching' = [watching EXCEPT ![c] = to]

Submit(c, some) ==
    /\ submission[c] = "idle"
    /\ items' = IF some THEN items \cup {c} ELSE items
    /\ Submits(c, IF some THEN "id" ELSE "rejected")
    /\ UNCHANGED <<seen, task, watching, observed, limit, due, cancelling>>

\* The answer holds an id, or none, or there is none.
IdAnswered(c) ==
    /\ submission[c] = "id"
    /\ Submits(c, "post") \/ Submits(c, "rejected")
    /\ UNCHANGED <<items, seen, task, watching, observed, limit, due, cancelling>>

\* The submission arrives, once or again.
PostDelivered(c) ==
    /\ submission[c] = "post"
    /\ LET id == SubmissionId(c) IN
         /\ seen' = seen \cup {id}
         /\ task' = IF id \in seen THEN task ELSE [task EXCEPT ![c] = "ACTIVE"]
    /\ UNCHANGED <<submission, items, watching, observed, limit, due, cancelling>>

\* Its answer names the task, or does not (requireTaskId), or is lost.
PostAnswered(c) ==
    /\ submission[c] = "post"
    /\ \/ SubmissionId(c) \in seen /\ Submits(c, "done")
       \/ Submits(c, "rejected")
    /\ UNCHANGED <<items, seen, task, watching, observed, limit, due, cancelling>>

\* External.
TaskMoves(c) ==
    /\ task[c] \in {"ACTIVE", "INACTIVE", "PAUSED"}
    /\ task' = [task EXCEPT ![c] = CASE @ = "ACTIVE" -> "INACTIVE" [] @ = "INACTIVE" -> "PAUSED"
                                     [] OTHER -> "ACTIVE"]
    /\ UNCHANGED <<submission, items, seen, watching, observed, limit, due, cancelling>>

TaskEnds(c) ==
    /\ task[c] \in {"ACTIVE", "INACTIVE", "PAUSED"}
    /\ \E how \in Ended : task' = [task EXCEPT ![c] = how]
    /\ UNCHANGED <<submission, items, seen, watching, observed, limit, due, cancelling>>

-----------------------------------------------------------------------------
AwaitTask(c, for) ==
    /\ submission[c] = "done" /\ watching[c] = "off"
    /\ Watches(c, "getting")
    /\ limit' = [limit EXCEPT ![c] = for]
    /\ UNCHANGED <<submission, items, seen, task, observed, due, cancelling>>

\* What the answer holds may be old when it arrives.
GetServed(c) ==
    /\ watching[c] = "getting"
    /\ Watches(c, "answered")
    /\ observed' = [observed EXCEPT ![c] = NormalizeStatus(task[c])]
    /\ UNCHANGED <<submission, items, seen, task, limit, due, cancelling>>

\* What an iteration saw is forgotten with it, and the limit with the watch.
Concludes(c, how) ==
    /\ Watches(c, how)
    /\ observed' = IF how = "sleeping" THEN [observed EXCEPT ![c] = "ACTIVE"] ELSE observed
    /\ due' = IF how = "sleeping" THEN due ELSE due \ {c}
    /\ limit' = IF how = "sleeping" THEN limit ELSE [limit EXCEPT ![c] = "none"]
    /\ UNCHANGED <<submission, items, seen, task, cancelling>>

\* Only after an answer is the limit looked at: a task that has ended is never timed out.
GetAnswered(c) ==
    /\ watching[c] = "answered"
    /\ Concludes(c, IF IsTerminal(observed[c]) THEN "finished"
                    ELSE IF c \in due THEN "timeout" ELSE "sleeping")

GetFailed(c) == watching[c] = "getting" /\ Concludes(c, "rejected")

WatchWakes(c) ==
    /\ watching[c] = "sleeping"
    /\ Watches(c, "getting")
    /\ UNCHANGED <<submission, items, seen, task, observed, limit, due, cancelling>>

LimitPasses(c) ==
    /\ watching[c] \in {"getting", "answered", "sleeping"} /\ limit[c] = "some" /\ c \notin due
    /\ due' = due \cup {c}
    /\ UNCHANGED <<submission, items, seen, task, watching, observed, limit, cancelling>>

CancelTask(c) ==
    /\ submission[c] = "done" /\ cancelling[c] = "no"
    /\ cancelling' = [cancelling EXCEPT ![c] = "asked"]
    /\ UNCHANGED <<submission, items, seen, task, watching, observed, limit, due>>

\* Any answer is taken for a cancellation.
CancelAnswered_AnyOk(c) ==
    /\ cancelling[c] = "asked"
    /\ \E lost \in BOOLEAN :
         cancelling' = [cancelling EXCEPT ![c] = IF lost THEN "rejected" ELSE "cancelled"]
    /\ task' = [task EXCEPT ![c] = IF @ \in Ended THEN @ ELSE "FAILED"]
    /\ UNCHANGED <<submission, items, seen, watching, observed, limit, due>>

\* Globus cancels a task, which fails it, or says it is complete; the answer may be lost.
CancelAnswered(c) ==
    /\ cancelling[c] = "asked"
    /\ \E lost \in BOOLEAN :
         cancelling' = [cancelling EXCEPT ![c] = IF lost THEN "rejected"
                                                 ELSE IF task[c] \in Ended THEN "complete" ELSE "cancelled"]
    /\ task' = [task EXCEPT ![c] = IF @ \in Ended THEN @ ELSE "FAILED"]
    /\ UNCHANGED <<submission, items, seen, watching, observed, limit, due>>

CancelFailed(c) ==
    /\ cancelling[c] = "asked"
    /\ cancelling' = [cancelling EXCEPT ![c] = "rejected"]
    /\ UNCHANGED <<submission, items, seen, task, watching, observed, limit, due>>

Watch(c) == GetServed(c) \/ GetFailed(c) \/ GetAnswered(c) \/ WatchWakes(c)

TransferNext == \E c \in Submissions :
    \/ \E some \in BOOLEAN : Submit(c, some)
    \/ IdAnswered(c) \/ PostDelivered(c) \/ PostAnswered(c)
    \/ TaskMoves(c) \/ TaskEnds(c)
    \/ \E for \in Limits : AwaitTask(c, for)
    \/ Watch(c) \/ LimitPasses(c)
    \/ CancelTask(c) \/ CancelAnswered(c) \/ CancelFailed(c)

\* Calls are answered or fail, timers fire.
TransferFairness == \A c \in Submissions : WF_transferVars(Watch(c)) /\ WF_transferVars(LimitPasses(c))

TransferSpec == TransferInit /\ [][TransferNext]_transferVars /\ TransferFairness
-----------------------------------------------------------------------------
\* The types of the variables.
TransferTypeOK ==
    /\ submission \in [Submissions -> {"idle", "id", "post", "done", "rejected"}]
    /\ items \subseteq Submissions /\ seen \subseteq Submissions
    /\ task \in [Submissions -> {"none", "ACTIVE", "INACTIVE", "PAUSED"} \cup Ended]
    /\ watching \in [Submissions -> {"off", "getting", "answered", "sleeping", "finished",
                                     "timeout", "rejected"}]
    /\ observed \in [Submissions -> {"ACTIVE", "INACTIVE"} \cup Ended]
    /\ limit \in [Submissions -> {"none", "some"}] /\ due \subseteq Submissions
    /\ cancelling \in [Submissions -> {"no", "asked", "cancelled", "complete", "rejected"}]

(***************************************************************************)
(* A submission that is reported has a task, which is its own and          *)
(* transfers something, however often its POST arrived (globus.ts:220).    *)
(***************************************************************************)
EachSubmissionHasItsTask ==
    \A c \in Submissions : submission[c] = "done" => task[c] # "none" /\ c \in items

(***************************************************************************)
(* A watch ends with a task that has ended, as it has ended; it is never   *)
(* an unknown or a stuck status that ends it (globus.ts:418).              *)
(***************************************************************************)
FinishedIsFinal ==
    \A c \in Submissions : watching[c] = "finished" => task[c] \in Ended /\ observed[c] = task[c]

\* What is reported cancelled has not been transferred (globus.ts:301).
CancelledIsTrue == \A c \in Submissions : cancelling[c] = "cancelled" => task[c] = "FAILED"

(***************************************************************************)
(* A watch with a limit ends, whatever the task does; one without a limit  *)
(* ends with its task: in the end this holds for good.                     *)
(***************************************************************************)
EveryWatchEnds ==
    \A c \in Submissions :
        watching[c] \in {"getting", "answered", "sleeping"} => limit[c] = "none" /\ task[c] \notin Ended

(***************************************************************************)
(* What the client says of a transfer is so: that it was submitted, how it *)
(* ended, that it was cancelled.                                           *)
(***************************************************************************)
TransferIsTruthful == TransferTypeOK /\ EachSubmissionHasItsTask /\ FinishedIsFinal /\ CancelledIsTrue
=============================================================================
