------------------------------- MODULE Portal -------------------------------
(***************************************************************************)
(* The portal (demo/portal): a page that never holds AWS credentials, and  *)
(* a service that assumes a role in the user's account for every request   *)
(* (portal/portal-core.ts, demo/portal/lambda.ts).  The page launches and  *)
(* terminates instances and opens shells into them; the service keeps      *)
(* nothing between requests, so what is opened only the page can end.      *)
(*                                                                         *)
(* Opening number k, if the service grants it, is session k.               *)
(***************************************************************************)
EXTENDS ShellChannel, FiniteSets

CONSTANTS
    None,         \* no session
    MaxAsks       \* bound: unanswered requests of the cards

ASSUME PortalBound == MaxAsks \in Nat /\ None \notin Sessions

VARIABLES
    ssm,          \* SSM's sessions: "none", "live", "ended"
    requests,     \* requests to the service that are not answered
    cards,        \* the page shows a running instance
    launchBusy,   \* the launch button is disabled
    opening,      \* each call of openPortalTerminal: "no", "closing", "asking",
                  \* "attaching", "done", "failed"
    active,       \* the session the page can close
    crossed,      \* history: openings under way at a click on open or close
    unheard       \* history: sessions whose end was asked for and not obtained

portalVars == <<channelVars, ssm, requests, cards, launchBusy, opening,
                active, crossed, unheard>>

(***************************************************************************)
(* A request is sent, then answered; `by` is the opening that waits for a  *)
(* session's end, or the button that asked.  The user does not press a     *)
(* button of the cards while MaxAsks requests of theirs are unanswered.    *)
(***************************************************************************)
Asking(k, a, b) == [kind |-> k, arg |-> a, by |-> b, at |-> "sent", ok |-> TRUE]
EndRequest(s, b) == Asking("end", s, b)
InFlight == {k \in Sessions : opening[k] \in {"closing", "asking", "attaching"}}

PortalInit ==
    /\ ChannelInit
    /\ ssm = [s \in Sessions |-> "none"]
    /\ requests = {Asking("list", None, None)}
    /\ cards = FALSE /\ launchBusy = FALSE
    /\ opening = [s \in Sessions |-> "no"]
    /\ active = None /\ crossed = {} /\ unheard = {}

MayAsk == Cardinality({r \in requests : r.kind \in {"launch", "list", "terminate"}}) < MaxAsks

Step(r, next) == requests' = (requests \ {r}) \cup next

-----------------------------------------------------------------------------
(***************************************************************************)
(* The service, for POST /api/session and /api/session/terminate.  What    *)
(* /api/launch, /api/terminate and /api/instances do is EC2's state, which *)
(* is not kept here: only their answers are.                               *)
(***************************************************************************)
\* The role is not granted, or AWS refuses: status 500, and nothing was done.  How an
\* "end" went the page does not look at.
RoleRefused(r) ==
    /\ r.kind \in {"session", "end"} /\ r.at = "sent"
    /\ Step(r, {[r EXCEPT !.at = "answered", !.ok = (r.kind = "end")]})
    /\ UNCHANGED <<channelVars, ssm, cards, launchBusy, opening, active, crossed, unheard>>

\* AWS does it; an answer that is lost on its way is an error for what was done.
SessionGranted(r) ==
    /\ r.kind = "session" /\ r.at = "sent"
    /\ \E ok \in BOOLEAN : Step(r, {[r EXCEPT !.at = "answered", !.ok = ok]})
    /\ ssm' = [ssm EXCEPT ![r.arg] = "live"]
    /\ UNCHANGED <<channelVars, cards, launchBusy, opening, active, crossed, unheard>>

EndGranted(r) ==
    /\ r.kind = "end" /\ r.at = "sent"
    /\ Step(r, {[r EXCEPT !.at = "answered"]})
    /\ ssm' = [ssm EXCEPT ![r.arg] = "ended"]
    /\ UNCHANGED <<channelVars, cards, launchBusy, opening, active, crossed, unheard>>

-----------------------------------------------------------------------------
(***************************************************************************)
(* The page's cards and buttons (portal.js).                               *)
(***************************************************************************)
\* refresh() empties the page; the list it asks for fills it.  The instances are EC2's:
\* any list may show a running one, and a launch, a terminate or a list is answered by success
\* or by an error, in which case the page shows none.
Refresh(r, by) == Step(r, {Asking("list", None, by)}) /\ cards' = FALSE

LaunchClicked ==
    /\ MayAsk /\ ~launchBusy /\ launchBusy' = TRUE
    /\ requests' = requests \cup {Asking("launch", None, None)}
    /\ UNCHANGED <<channelVars, ssm, cards, opening, active, crossed, unheard>>

LaunchAnswered(r) ==
    /\ r.kind = "launch"
    /\ \/ Refresh(r, "launch") /\ UNCHANGED launchBusy
       \/ Step(r, {}) /\ launchBusy' = FALSE /\ UNCHANGED cards
    /\ UNCHANGED <<channelVars, ssm, opening, active, crossed, unheard>>

RefreshClicked ==
    /\ MayAsk
    /\ cards' = FALSE
    /\ requests' = requests \cup {Asking("list", None, None)}
    /\ UNCHANGED <<channelVars, ssm, launchBusy, opening, active, crossed, unheard>>

ListAnswered(r) ==
    /\ r.kind = "list"
    /\ Step(r, {})
    /\ cards' \in BOOLEAN
    /\ launchBusy' = (launchBusy /\ r.by # "launch")
    /\ UNCHANGED <<channelVars, ssm, opening, active, crossed, unheard>>

TerminateClicked ==
    /\ MayAsk /\ cards
    /\ requests' = requests \cup {Asking("terminate", None, None)}
    /\ UNCHANGED <<channelVars, ssm, cards, launchBusy, opening, active, crossed, unheard>>

TerminateAnswered(r) ==
    /\ r.kind = "terminate"
    /\ \/ Refresh(r, None)
       \/ Step(r, {}) /\ UNCHANGED cards
    /\ UNCHANGED <<channelVars, ssm, launchBusy, opening, active, crossed, unheard>>

-----------------------------------------------------------------------------
\* The session is ended under the terminal that still shows it.
CloseActive_NoDispose(by) ==
    /\ active' = None
    /\ requests' = requests \cup {EndRequest(active, by)}
    /\ UNCHANGED channel

(***************************************************************************)
(* The shells (portal-terminal.ts).  closePortalTerminal forgets the       *)
(* active session, disposes of its terminal and asks for its end; whoever  *)
(* called waits for the answer.                                            *)
(***************************************************************************)
CloseActive(by) ==
    /\ active' = None
    /\ channel' = [channel EXCEPT ![active] = IF @ = "closed" THEN @ ELSE "closing"]
    /\ requests' = requests \cup {EndRequest(active, by)}

OpenClicked(k) ==
    /\ cards
    /\ opening[k] = "no" /\ \A j \in 1 .. k - 1 : opening[j] # "no"
    /\ \/ /\ active # None
          /\ CloseActive(k)
          /\ opening' = [opening EXCEPT ![k] = "closing"]
       \/ /\ active = None
          /\ requests' = requests \cup {Asking("session", k, None)}
          /\ opening' = [opening EXCEPT ![k] = "asking"]
          /\ UNCHANGED <<active, channel>>
    /\ crossed' = crossed \cup InFlight \cup (IF InFlight = {} THEN {} ELSE {k})
    /\ UNCHANGED <<reported, ssm, cards, launchBusy, unheard>>

CloseClicked ==
    /\ \/ active # None /\ CloseActive(None)
       \/ active = None /\ UNCHANGED <<active, channel, requests>>
    /\ crossed' = crossed \cup InFlight
    /\ UNCHANGED <<reported, ssm, cards, launchBusy, opening, unheard>>

\* The answer to /api/session/terminate, whatever it is, is not looked at.
EndAnswered(r) ==
    /\ r.kind = "end" /\ r.at = "answered"
    /\ IF r.by \in Sessions
       THEN /\ Step(r, {Asking("session", r.by, None)})
            /\ opening' = [opening EXCEPT ![r.by] = "asking"]
       ELSE Step(r, {}) /\ UNCHANGED opening
    /\ unheard' = IF ssm[r.arg] = "ended" THEN unheard ELSE unheard \cup {r.arg}
    /\ UNCHANGED <<channelVars, ssm, cards, launchBusy, active, crossed>>

\* An error is dropped.
SessionAnswered_NoCatch(r) ==
    /\ r.kind = "session" /\ r.at = "answered"
    /\ Step(r, {})
    /\ \/ r.ok /\ Connects(r.arg) /\ opening' = [opening EXCEPT ![r.arg] = "attaching"]
       \/ ~r.ok /\ UNCHANGED <<channelVars, opening>>
    /\ UNCHANGED <<ssm, cards, launchBusy, active, crossed, unheard>>

SessionAnswered(r) ==
    /\ r.kind = "session" /\ r.at = "answered"
    /\ Step(r, {})
    /\ \/ r.ok /\ Connects(r.arg) /\ opening' = [opening EXCEPT ![r.arg] = "attaching"]
       \/ ~r.ok /\ opening' = [opening EXCEPT ![r.arg] = "failed"] /\ UNCHANGED channelVars
    /\ UNCHANGED <<ssm, cards, launchBusy, active, crossed, unheard>>

\* attachTerminal returns.
Attached(k) ==
    /\ ssm[k] = "live" /\ Opens(k)
    /\ opening' = [opening EXCEPT ![k] = "done"]
    /\ active' = k
    /\ UNCHANGED <<ssm, requests, cards, launchBusy, crossed, unheard>>

\* onClosed, which the channel calls at each report, asks for the session's end.
OnClosed(s) ==
    /\ Fails(s) \/ Announces(s) \/ Ends(s)
    /\ requests' = requests \cup {EndRequest(s, None)}
    /\ UNCHANGED <<ssm, cards, launchBusy, opening, active, crossed, unheard>>

Answered(r) == LaunchAnswered(r) \/ ListAnswered(r) \/ TerminateAnswered(r)
               \/ EndAnswered(r) \/ SessionAnswered(r)
Served(kind, a, by) ==
    \E r \in requests : /\ r.kind = kind /\ r.arg = a /\ r.by = by
                         /\ (SessionGranted(r) \/ EndGranted(r) \/ RoleRefused(r) \/ Answered(r))
Shells == \E s \in Sessions : OpenClicked(s) \/ Attached(s) \/ OnClosed(s)

PortalNext ==
    \/ \E r \in requests : SessionGranted(r) \/ EndGranted(r) \/ RoleRefused(r) \/ Answered(r)
    \/ Shells
    \/ LaunchClicked \/ RefreshClicked \/ TerminateClicked \/ CloseClicked

(***************************************************************************)
(* Every request is answered, and a channel that connects or closes does   *)
(* so.                                                                     *)
(***************************************************************************)
PortalFairness ==
    /\ WF_portalVars(Served("launch", None, None))
    /\ WF_portalVars(Served("list", None, "launch"))
    /\ \A s \in Sessions : /\ WF_portalVars(Served("session", s, None))
                           /\ \A b \in Sessions \cup {None} : WF_portalVars(Served("end", s, b))
    /\ \A s \in Sessions : /\ WF_portalVars(Attached(s) \/ (channel[s] = "connecting" /\ OnClosed(s)))
                           /\ WF_portalVars(channel[s] = "closing" /\ OnClosed(s))

PortalSpec == PortalInit /\ [][PortalNext]_portalVars /\ PortalFairness
-----------------------------------------------------------------------------
\* The types of the variables.
PortalTypeOK ==
    /\ channel \in [Sessions -> {"none", "connecting", "open", "closing", "closed"}]
    /\ reported \subseteq Sessions
    /\ ssm \in [Sessions -> {"none", "live", "ended"}]
    /\ opening \in [Sessions -> {"no", "closing", "asking", "attaching", "done", "failed"}]
    /\ active \in Sessions \cup {None}
    /\ cards \in BOOLEAN /\ launchBusy \in BOOLEAN
    /\ crossed \subseteq Sessions /\ unheard \subseteq Sessions

(***************************************************************************)
(* The page never ends a session whose shell is still connecting or open:  *)
(* disposing and asking for the end are in that order, and both onClosed   *)
(* and the close button ask (portal-terminal.ts:26, 45).                   *)
(***************************************************************************)
NeverEndsAShellInUse ==
    \A r \in requests : r.kind = "end" => channel[r.arg] \in {"closing", "closed"}

(***************************************************************************)
(* A shell that is open and that the page cannot close any more was being  *)
(* opened while another was, or when close was clicked; one that is opened *)
(* by itself stays the active one.                                         *)
(***************************************************************************)
LostOnlyWhenCrossed ==
    \A s \in Sessions : channel[s] = "open" /\ active # s => s \in crossed

(***************************************************************************)
(* A shell that has closed, however it did, is ended in SSM too, unless    *)
(* the service could not (portal-terminal.ts:33): in the end this holds    *)
(* for good.                                                               *)
(***************************************************************************)
EveryClosedShellIsEnded ==
    \A s \in Sessions : channel[s] = "closed" => ssm[s] = "ended" \/ s \in unheard

(***************************************************************************)
(* The launch button comes back, whatever the service answers              *)
(* (portal.js:34): again and again this holds.                             *)
(***************************************************************************)
LaunchButtonReturns == ~launchBusy

(***************************************************************************)
(* An opening ends, except one whose connection fails: its promise is      *)
(* never settled (session.ts:80) and its button stays "Opening": in the    *)
(* end this holds for good.                                                *)
(***************************************************************************)
EveryOpeningEnds == \A k \in InFlight : channel[k] = "closed"
=============================================================================
