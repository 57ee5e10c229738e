---------------------------- MODULE PortalService ----------------------------
(***************************************************************************)
(* The portal's service (demo/portal/server.ts, its twin lambda.ts, and    *)
(* portal/portal-core.ts): each request assumes the role in the user's     *)
(* account, makes one call there and answers; nothing is kept between      *)
(* requests.  What the page does with the answers is module Portal.        *)
(*                                                                         *)
(* AWS may refuse, answer in part, or do what it is asked and have its     *)
(* answer lost.                                                            *)
(***************************************************************************)
EXTENDS Naturals, FiniteSets

CONSTANTS
    MaxServed   \* bound: requests, one after the other

ASSUME ServedBound == MaxServed \in Nat

\* A body is no JSON, or has fields that are missing, of another type, or a text: of a TTL,
\* a duration, 0 or neither; of an id, any.
Bodies == {b \in [form : {"none", "garbled", "json"}, ttl : {"missing", "other", "good", "zero", "slip"}, id : {"missing", "text"}] :
              b.form # "json" => b.ttl = "missing" /\ b.id = "missing"}
PostPaths == {"launch", "terminate", "session", "session/terminate"}
HttpRequests == [method : {"GET", "POST"}, path : PostPaths \cup {"instances", "index.html"}, body : Bodies]
NoEffect   == [does |-> "nothing", ttl |-> "none"]

VARIABLES
    front,     \* "server" or "lambda"
    env,       \* what of the configuration is set: "role", "externalId"
    serving,   \* "down", "idle", "received", "assumed"
    requested,     \* the request that is served
    effect,    \* what was done in the user's account for it
    reply,     \* [status, body], the last answer; status 0 while there is none
    served     \* history: how many requests came

serviceVars == <<front, env, serving, requested, effect, reply, served>>

Quiet == [status |-> 0, body |-> "none"]

ServiceInit ==
    /\ front \in {"server", "lambda"} /\ env \in SUBSET {"role", "externalId"}
    /\ serving = "down" /\ requested \in {r \in HttpRequests : r.body.form = "none" /\ r.path = "index.html" /\ r.method = "GET"}
    /\ effect = NoEffect /\ reply = Quiet /\ served = 0

\* portalConfigFromEnv: without both the service does not come up.
ComesUp ==
    /\ serving = "down" /\ {"role", "externalId"} \subseteq env /\ serving' = "idle"
    /\ UNCHANGED <<front, env, requested, effect, reply, served>>

Requested(r) ==
    /\ serving = "idle" /\ served < MaxServed /\ served' = served + 1
    /\ serving' = "received" /\ requested' = r /\ effect' = NoEffect /\ reply' = Quiet
    /\ UNCHANGED <<front, env>>

-----------------------------------------------------------------------------
\* The server takes a body it cannot parse for an empty one, and reads none but a POST's; the
\* Lambda parses every body, before it catches anything.
Throws == front = "lambda" /\ requested.body.form = "garbled"

IsApi ==
    \/ requested.method = "POST" /\ requested.path \in PostPaths
    \/ requested.method = "GET" /\ requested.path = "instances"

\* An empty id names nobody.
NamesNobody == requested.path \in PostPaths \ {"launch"} /\ requested.body.id = "missing"

\* A TTL that is not a text, or is empty, is five minutes.
TtlOf(body) == IF body.ttl \in {"missing", "other"} THEN "5m" ELSE body.ttl

Answers200(body) == serving' = "idle" /\ reply' = [status |-> 200, body |-> body]
ServiceFails(status)    == serving' = "idle" /\ reply' = [status |-> status, body |-> "error"]

\* What needs no role: a file of the page, a refusal, a body that throws.
AnsweredHere ==
    /\ serving = "received"
    /\ \/ Throws /\ ServiceFails(502)
       \/ ~ Throws /\ ~ IsApi /\ (IF requested.path = "index.html" THEN Answers200("file") ELSE ServiceFails(404))
       \/ ~ Throws /\ IsApi /\ NamesNobody /\ ServiceFails(400)
    /\ UNCHANGED <<front, env, requested, effect, served>>

\* assumeUserAccount: refused, or without all three credentials.
AssumesRole ==
    /\ serving = "received" /\ ~ Throws /\ IsApi /\ ~ NamesNobody
    /\ \/ serving' = "assumed" /\ UNCHANGED reply
       \/ ServiceFails(500)
    /\ UNCHANGED <<front, env, requested, effect, served>>

\* client.launch, which refuses a TTL it cannot read and, on EC2, none at all.
LaunchTakes == TtlOf(requested.body) \in {"5m", "good"}

\* A call in the user's account is answered, or refused, or its answer is lost.
Calls(does, body) ==
    \/ effect' = does /\ (Answers200(body) \/ ServiceFails(500))
    \/ ServiceFails(500) /\ UNCHANGED effect

ApiLaunch ==
    /\ serving = "assumed" /\ requested.path = "launch"
    /\ IF LaunchTakes THEN Calls([does |-> "launch", ttl |-> TtlOf(requested.body)], "view") ELSE ServiceFails(500) /\ UNCHANGED effect
    /\ UNCHANGED <<front, env, requested, served>>

ApiInstances ==
    /\ serving = "assumed" /\ requested.path = "instances" /\ Calls(NoEffect, "views")
    /\ UNCHANGED <<front, env, requested, served>>

ApiTerminate ==
    /\ serving = "assumed" /\ requested.path = "terminate" /\ Calls([does |-> "terminate", ttl |-> "none"], "ok")
    /\ UNCHANGED <<front, env, requested, served>>

\* startBrokeredSession: a session whose answer lacks a part is an error, and open.
ApiSession ==
    /\ serving = "assumed" /\ requested.path = "session" /\ Calls([does |-> "session", ttl |-> "none"], "session")
    /\ UNCHANGED <<front, env, requested, served>>

ApiSessionTerminate ==
    /\ serving = "assumed" /\ requested.path = "session/terminate" /\ Calls([does |-> "end", ttl |-> "none"], "ok")
    /\ UNCHANGED <<front, env, requested, served>>

ServiceNext ==
    \/ ComesUp \/ (\E r \in HttpRequests : Requested(r))
    \/ AnsweredHere \/ AssumesRole
    \/ ApiLaunch \/ ApiInstances \/ ApiTerminate \/ ApiSession \/ ApiSessionTerminate

ServiceSpec == ServiceInit /\ [][ServiceNext]_serviceVars
-----------------------------------------------------------------------------
\* What a request asks to be done.
Wanted ==
    IF ~ IsApi \/ requested.path = "instances" THEN "nothing"
    ELSE IF requested.path \in {"launch", "terminate", "session"} THEN requested.path ELSE "end"

(***************************************************************************)
(* An answer of 200 is for something done, one below 500 otherwise for     *)
(* nothing, and no request does more than it asks; whatever the page sends *)
(* and the service defaults, an instance it launches has a TTL, the one    *)
(* that was asked for if it can be read (server.ts:100-154).               *)
(***************************************************************************)
ServiceIsTruthful ==
    /\ serving \in {"down", "idle", "received", "assumed"} /\ served \in 0 .. MaxServed
    /\ effect.does \in {"nothing", Wanted}
    /\ reply.status = 200 => effect.does = Wanted
    /\ reply.status \in {400, 404, 502} => effect = NoEffect
    /\ effect.does = "launch" => effect.ttl = IF requested.body.ttl = "good" THEN "good" ELSE "5m"
=============================================================================
