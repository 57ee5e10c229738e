---------------------------- MODULE ShellChannel ----------------------------
(***************************************************************************)
(* What the pages rely on: shell channels that are connecting, open,       *)
(* closing or closed, and that report their end by calling onClose: when   *)
(* the WebSocket closes, and once before that when the agent announces it. *)
(* SsmSession implements it for one session.                               *)
(***************************************************************************)
EXTENDS Naturals

CONSTANT Sessions    \* the sessions, in the order in which they are asked for

VARIABLES
    channel,    \* each session's channel
    reported    \* those that have called onClose

channelVars == <<channel, reported>>

ChannelInit ==
    /\ channel = [s \in Sessions |-> "none"]
    /\ reported = {}

Goes(s, to) == channel' = [channel EXCEPT ![s] = to]
Reports(s)  == reported' = reported \cup {s}

\* open() is called, and the connection is made or not.
Connects(s) == channel[s] = "none" /\ Goes(s, "connecting") /\ UNCHANGED reported
Opens(s)    == channel[s] = "connecting" /\ Goes(s, "open") /\ UNCHANGED reported
Fails(s)    == channel[s] = "connecting" /\ Goes(s, "closed") /\ Reports(s)

\* The agent announces the end; the page asks for it; it comes.
Announces(s) == channel[s] = "open" /\ Goes(s, "closing") /\ Reports(s)
IsAsked(s)   == channel[s] \in {"connecting", "open"} /\ Goes(s, "closing") /\ UNCHANGED reported
Ends(s)      == channel[s] \in {"open", "closing"} /\ Goes(s, "closed") /\ Reports(s)

ChannelNext == \E s \in Sessions :
    Connects(s) \/ Opens(s) \/ Fails(s) \/ Announces(s) \/ IsAsked(s) \/ Ends(s)

\* A connection attempt is answered, and a close is completed.
ChannelFairness == \A s \in Sessions :
    /\ WF_channelVars(Opens(s) \/ Fails(s))
    /\ WF_channelVars(channel[s] = "closing" /\ Ends(s))

ChannelSpec == ChannelInit /\ [][ChannelNext]_channelVars /\ ChannelFairness
=============================================================================
