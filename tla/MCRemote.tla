------------------------------- MODULE MCRemote -------------------------------
(***************************************************************************)
(* The parts that hold a shell or talk to a remote service: the session    *)
(* and its frames, the portal's page and its service, the direct page, the *)
(* launch on EC2, Globus Transfer and the Globus sign-in.  They share no   *)
(* state: a behaviour exercises one of them, `part`, and the others rest   *)
(* in an initial state, in which none of their fair actions is enabled.    *)
(***************************************************************************)
EXTENDS SsmSession, Frames, Portal, PortalService, DirectPage,
        Ec2Launch, GlobusTransfer, SignIn

VARIABLE part

MCSessions == 1 .. 2

Plain == [ttl |-> TRUE, idle |-> FALSE, cost |-> FALSE, onComplete |-> "none", spot |-> FALSE,
          nested |-> FALSE, flaw |-> "none", ami |-> TRUE, allow |-> FALSE, keep |-> FALSE]

\* Every combination of bounds, market and completion; each flaw; and the other choices.
MCRequests ==
    {[Plain EXCEPT !.ttl = t, !.idle = i, !.cost = c, !.onComplete = o, !.spot = s, !.allow = a] :
        t \in BOOLEAN, i \in BOOLEAN, c \in BOOLEAN, o \in {"none", "terminate", "stop"},
        s \in BOOLEAN, a \in BOOLEAN}
    \cup {[Plain EXCEPT !.flaw = f] : f \in {"plugin", "username", "userdata", "tags"}}
    \cup {[Plain EXCEPT !.ttl = t, !.cost = TRUE, !.nested = TRUE] : t \in BOOLEAN}
    \cup {[Plain EXCEPT !.ami = FALSE, !.keep = k] : k \in BOOLEAN}

MCSubmissions == 1 .. 2
MCLimits == {"none", "some"}

\* Numbers on both sides of a word, texts that fill their field and that do not.
Edges == {0, 1, Word - 1, Word, Word + 1, Word * Word - 1}
MCMessages ==
    {[type |-> t, schema |-> 1, created |-> Word + 5, seq |-> s, flags |-> f,
      id |-> [n \in 1 .. 16 |-> (n * n + n \div 3) % Base], ptype |-> p, payload |-> b] :
        t \in {<<2, 3>>, [n \in 1 .. 32 |-> 2]}, s \in Edges, f \in {0, 3}, p \in {1, 11},
        b \in {<<>>, <<3>>, <<1, 2, 0>>}}
FirstMessage == CHOOSE m \in MCMessages : m.payload = <<>>

RemoteInit ==
    /\ part \in {"session", "portal", "direct", "launch", "transfer", "signin",
               "frames", "service"}
    /\ IF part = "frames" THEN FrameInit    \* at rest: a frame of which nothing arrived
       ELSE message = FirstMessage /\ wire = <<>> /\ got = <<>> /\ acked = <<>> /\ received = "cut"
    /\ part # "service" => front = "server" /\ env = {}
    /\ ServiceInit
    /\ SessionInit /\ PortalInit /\ DirectInit /\ TransferInit /\ SignInInit
    /\ Ec2Init /\ (part # "launch" => request = Plain)

\* Bound: no instance moves on while its poll is being answered.  The page has no other
\* sight of it than the next poll, for which it may move on in between.
PollIsQuick == \A n \in Runs : polled[n] # "none" => inst'[n] = inst[n]

\* Bound: of two sign-ins of the direct page one is through Globus, whose credentials lapse.
OneLapses == client' = 2 => TRUE \in {federated, federated'}

\* Bound: of two submissions one is watched and cancelled.  Watches share nothing.
OneIsWatched == watching'[2] = "off" /\ cancelling'[2] = "no"

\* The step of one part leaves the others as they are.
Only(name, taken, vars) == IF part = name THEN taken ELSE UNCHANGED vars

RemoteNext ==
    /\ UNCHANGED part
    /\ Only("session", SessionNext, sessionVars)
    /\ Only("portal", PortalNext, portalVars)
    /\ Only("direct", DirectNext /\ PollIsQuick /\ OneLapses, directVars)
    /\ Only("launch", Ec2Next, ec2Vars)
    /\ Only("transfer", TransferNext /\ OneIsWatched, transferVars)
    /\ Only("signin", SignInNext, signInVars)
    /\ Only("frames", FrameNext, frameVars)
    /\ Only("service", ServiceNext, serviceVars)

RemoteVars == <<part, sessionVars, portalVars, directVars, ec2Vars, transferVars, signInVars,
                frameVars, serviceVars>>

RemoteSpec ==
    /\ RemoteInit /\ [][RemoteNext]_RemoteVars
    /\ SessionFairness /\ PortalFairness /\ DirectFairness
    /\ Ec2Fairness /\ TransferFairness /\ WF_signInVars(Answers)

(***************************************************************************)
(* No page ends a shell in use, polls with credentials that have lapsed,   *)
(* or loses the handle of a shell that is open, except where two of its    *)
(* own steps crossed (portal-terminal.ts:30, main.ts:412).                 *)
(***************************************************************************)
ShellsAreKept ==
    /\ PortalTypeOK /\ NeverEndsAShellInUse /\ LostOnlyWhenCrossed
    /\ DirectTypeOK /\ ExpiredIsQuiet /\ LostOnlyWhenOvertaken

(***************************************************************************)
(* What the pages and the services behind them say is so, and what is sent *)
(* is what was written: how transfers end, the portal's answers, the       *)
(* frames of a session.                                                    *)
(***************************************************************************)
AnswersAreTrue == TransferIsTruthful /\ ServiceIsTruthful /\ FramesAreFaithful

(***************************************************************************)
(* The launch button comes back and every run comes to offer its reset,    *)
(* whatever is refused, lost or expires on the way.  A shell that closes   *)
(* is ended in SSM too, unless the service could not, and an opening ends, *)
(* unless its connection failed: nothing settles that one (session.ts:80), *)
(* and its button stays on "Opening".  Shells that crossed on the page,    *)
(* and sessions whose answer was lost, may stay live; nothing here says    *)
(* that they end.                                                          *)
(***************************************************************************)
PagesSettle ==
    /\ <>[](EveryClosedShellIsEnded /\ EveryOpeningEnds)
    /\ []<>LaunchButtonReturns /\ []<>EveryRunOffersReset

(***************************************************************************)
(* Whoever asks a service is told in the end: a session that is opened, a  *)
(* launch, a watch of a transfer, a page back from the sign-in.            *)
(***************************************************************************)
EveryRequestIsAnswered ==
    /\ EverySessionAnswers
    /\ <>[](EveryLaunchIsAnswered /\ EveryWatchEnds)
    /\ EverySignInIsAnswered
=============================================================================
