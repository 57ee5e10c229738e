----------------------------- MODULE SsmSession -----------------------------
(***************************************************************************)
(* The browser's client of an SSM shell session (ssm/session.ts): one      *)
(* WebSocket, a handshake with the agent on the instance, input that waits *)
(* for the shell, and an acknowledgement for every message of the agent.   *)
(*                                                                         *)
(* Every frame is digested (SHA-256, by WebCrypto) before it is sent, and  *)
(* nothing orders two digests that are under way at once: `digests` holds  *)
(* the frames whose `await serialize(..)` has not returned.  An input is   *)
(* its place in the order of typing; keystrokes and sizes are alike.       *)
(*                                                                         *)
(* The agent, and the browser's half of the WebSocket, are external.       *)
(***************************************************************************)
EXTENDS Naturals, Sequences, FiniteSets, SequencesExt

CONSTANTS
    MaxInputs,    \* bound: calls of sendInput and resize
    MaxOutputs    \* bound: outputs of the agent

ASSUME SessionBounds == MaxInputs \in Nat /\ MaxOutputs \in Nat

VARIABLES
    socket,     \* the WebSocket: "none", "connecting", "open", "closing", "closed"
    opened,     \* the promise of open(): "pending", "resolved", "rejected"
    detached,   \* close() has set this.ws to null
    seq,        \* the next sequence number
    ready,      \* handshakeDone
    pending,    \* the inputs queued until the shell is live
    flushing,   \* what flushPending has taken and not yet handed to sendData
    digests,    \* frames whose digest is being computed
    sent,       \* frames sent; their numbers order the data for the agent
    fromAgent,  \* messages of the agent that have not been received
    shown,      \* outputs given to onOutput
    closeReports,  \* calls of onClose
    errors,     \* onError was called
    typed,      \* the number of inputs so far
    queued,     \* history: the inputs that were queued
    agent,      \* the agent: "waiting", "requested", "live", "gone"
    written     \* outputs the agent has written

sessionClientVars == <<opened, detached, seq, ready, pending, flushing, digests, shown,
                closeReports, errors, typed, queued>>
sessionVars == <<socket, sent, fromAgent, agent, written, sessionClientVars>>

(***************************************************************************)
(* Frames and messages.                                                    *)
(***************************************************************************)
Input(i, n) == [kind |-> "input", id |-> i, number |-> n]
Response(n) == [kind |-> "response", id |-> 0, number |-> n]
Ack(m)      == [kind |-> "ack", id |-> m.id, number |-> 0, of |-> m]
IsData(f)   == f.kind # "ack"

\* The messages of the agent; each has a messageId of its own.
Request   == [kind |-> "request", id |-> 0]
Complete  == [kind |-> "complete", id |-> 1]
Output(k) == [kind |-> "output", id |-> k + 1]
Malformed == [kind |-> "malformed", id |-> 0]
Closed    == [kind |-> "channel_closed", id |-> 0]
IsStream(m) == m.kind \in {"request", "complete", "output"}

DataSent  == {f \in sent : IsData(f)}
InputsOf(S) == {f.id : f \in {g \in S : g.kind = "input"}}

(***************************************************************************)
(* sendData for the inputs in q, one after the other: the first gets its   *)
(* number and is being digested when the call returns; the others wait for *)
(* it.  Without a socket nothing is digested or sent, but the numbers are  *)
(* used up.                                                                *)
(***************************************************************************)
SendAll(q, s, D) ==
    CASE q = <<>>  -> [seq |-> s, digests |-> D, rest |-> <<>>]
      [] detached  -> [seq |-> s + Len(q), digests |-> D, rest |-> <<>>]
      [] OTHER     -> [seq |-> s + 1, digests |-> D \cup {Input(Head(q), s)},
                       rest |-> Tail(q)]

\* The digest is finished: the frame goes out if the socket still takes it.
Transmit(f) ==
    sent' = IF socket = "open" THEN sent \cup {f} ELSE sent

SessionInit ==
    /\ socket = "none" /\ opened = "pending" /\ detached = FALSE
    /\ seq = 0 /\ ready = FALSE /\ pending = <<>> /\ flushing = <<>>
    /\ digests = {} /\ sent = {} /\ fromAgent = <<>> /\ shown = <<>>
    /\ closeReports = 0 /\ errors = FALSE /\ typed = 0 /\ queued = {}
    /\ agent = "waiting" /\ written = 0

(***************************************************************************)
(* open(): the token goes out as text when the socket opens.  An address   *)
(* no socket can be made for is refused at once.                           *)
(***************************************************************************)
Open ==
    /\ socket = "none" /\ opened = "pending"
    /\ \/ socket' = "connecting" /\ UNCHANGED opened
       \/ opened' = "rejected" /\ UNCHANGED socket
    /\ UNCHANGED <<sent, written, fromAgent, agent, detached, seq, ready, pending, flushing,
                   digests, shown, closeReports, errors, typed, queued>>

SocketOpens ==
    /\ socket = "connecting"
    /\ socket' = "open"
    /\ opened' = "resolved"
    /\ UNCHANGED <<sent, written, fromAgent, agent, detached, seq, ready, pending, flushing,
                   digests, shown, closeReports, errors, typed, queued>>

\* onerror only.
SocketFails_Silent ==
    /\ socket = "connecting"
    /\ socket' = "closed"
    /\ errors' = TRUE
    /\ UNCHANGED <<sent, written, fromAgent, agent, opened, detached, seq, ready, pending,
                   flushing, digests, closeReports, shown, typed, queued>>

\* onerror, then onclose: the promise of open() is neither kept nor broken.
SocketFails ==
    /\ socket = "connecting"
    /\ socket' = "closed"
    /\ errors' = TRUE
    /\ closeReports' = closeReports + 1
    /\ UNCHANGED <<sent, written, fromAgent, agent, opened, detached, seq, ready, pending,
                   flushing, digests, shown, typed, queued>>

\* onclose, once the socket was asked to close, or because the connection is lost.
SocketCloses ==
    /\ socket \in {"open", "closing"}
    /\ socket' = "closed"
    /\ closeReports' = closeReports + 1
    /\ UNCHANGED <<sent, written, fromAgent, agent, opened, detached, seq, ready, pending,
                   flushing, digests, shown, errors, typed, queued>>

(***************************************************************************)
(* onMessage, to its first await or its return.                            *)
(***************************************************************************)
Receive ==
    /\ socket = "open" /\ fromAgent # <<>>
    /\ LET m == Head(fromAgent) IN
       /\ fromAgent' = Tail(fromAgent)
       /\ \/ /\ IsStream(m)
             /\ digests' = digests \cup {Ack(m)}
             /\ UNCHANGED <<socket, errors, closeReports>>
          \/ /\ m = Malformed
             /\ errors' = TRUE
             /\ UNCHANGED <<socket, digests, closeReports>>
          \/ /\ m = Closed
             /\ closeReports' = closeReports + 1
             /\ socket' = "closing"
             /\ UNCHANGED <<digests, errors>>
    /\ UNCHANGED <<sent, written, agent, opened, detached, seq, ready, pending, flushing,
                   shown, typed, queued>>

\* markReady and its flush, up to the first digest.
MarkReady(D) ==
    IF ready
    THEN digests' = D /\ UNCHANGED <<ready, seq, pending, flushing>>
    ELSE LET r == SendAll(pending, seq, D) IN
         /\ ready' = TRUE
         /\ pending' = <<>>
         /\ seq' = r.seq /\ digests' = r.digests /\ flushing' = r.rest

\* The handshake response does not count.
AckDigested_SeqKept(f) ==
    /\ f \in digests /\ f.kind = "ack"
    /\ Transmit(f)
    /\ LET D == digests \ {f} IN
       \/ /\ f.of.kind = "request"
          /\ digests' = IF detached THEN D ELSE D \cup {Response(seq)}
          /\ UNCHANGED <<seq, ready, pending, flushing, shown>>
       \/ /\ f.of.kind \in {"complete", "output"}
          /\ MarkReady(D)
          /\ UNCHANGED shown
    /\ UNCHANGED <<socket, written, fromAgent, agent, opened, detached, closeReports, errors,
                   typed, queued>>

(***************************************************************************)
(* The acknowledgement is sent, and handleOutput deals with the message.   *)
(***************************************************************************)
AckDigested(f) ==
    /\ f \in digests /\ f.kind = "ack"
    /\ Transmit(f)
    /\ LET D == digests \ {f} IN
       \/ /\ f.of.kind = "request"
          /\ seq' = seq + 1
          /\ digests' = IF detached THEN D ELSE D \cup {Response(seq)}
          /\ UNCHANGED <<ready, pending, flushing, shown>>
       \/ /\ f.of.kind = "complete"
          /\ MarkReady(D)
          /\ UNCHANGED shown
       \/ /\ f.of.kind = "output"
          /\ MarkReady(D)
          /\ shown' = Append(shown, f.of.id)
    /\ UNCHANGED <<socket, written, fromAgent, agent, opened, detached, closeReports, errors,
                   typed, queued>>

\* sendData of the handshake response goes on.
ResponseDigested(f) ==
    /\ f \in digests /\ f.kind = "response"
    /\ Transmit(f)
    /\ digests' = digests \ {f}
    /\ UNCHANGED <<socket, written, fromAgent, agent, opened, detached, seq, ready, pending,
                   flushing, shown, closeReports, errors, typed, queued>>

(***************************************************************************)
(* sendData of an input goes on; if it is the one flushPending waits for,  *)
(* the next queued input follows.                                          *)
(***************************************************************************)
InputDigested(f) ==
    /\ f \in digests /\ f.kind = "input"
    /\ Transmit(f)
    /\ LET D == digests \ {f}
           r == IF f.id \in queued THEN SendAll(flushing, seq, D)
                ELSE [seq |-> seq, digests |-> D, rest |-> flushing]
       IN seq' = r.seq /\ digests' = r.digests /\ flushing' = r.rest
    /\ UNCHANGED <<socket, written, fromAgent, agent, opened, detached, ready, pending, shown,
                   closeReports, errors, typed, queued>>

(***************************************************************************)
(* sendInput and resize: enqueueOrSend.                                    *)
(***************************************************************************)
Type ==
    /\ typed < MaxInputs
    /\ typed' = typed + 1
    /\ \/ /\ ready
          /\ LET r == SendAll(<<typed + 1>>, seq, digests) IN
             seq' = r.seq /\ digests' = r.digests
          /\ UNCHANGED <<pending, queued>>
       \/ /\ ~ready
          /\ pending' = Append(pending, typed + 1)
          /\ queued' = queued \cup {typed + 1}
          /\ UNCHANGED <<seq, digests>>
    /\ UNCHANGED <<socket, sent, written, fromAgent, agent, opened, detached, ready, flushing,
                   shown, closeReports, errors>>

Close ==
    /\ ~detached /\ socket # "none"
    /\ detached' = TRUE
    /\ socket' = IF socket = "closed" THEN "closed" ELSE "closing"
    /\ UNCHANGED <<sent, written, fromAgent, agent, opened, seq, ready, pending, flushing,
                   digests, shown, closeReports, errors, typed, queued>>

(***************************************************************************)
(* The agent: it asks for the handshake when the token has come, starts    *)
(* the shell on the response, may or may not say so, and writes output.    *)
(***************************************************************************)
AgentSays(m) == fromAgent' = Append(fromAgent, m)

AgentRequests ==
    /\ socket = "open" /\ agent = "waiting"
    /\ agent' = "requested"
    /\ AgentSays(Request)
    /\ UNCHANGED <<socket, sent, written, sessionClientVars>>

AgentStartsShell ==
    /\ agent = "requested" /\ socket = "open"
    /\ \E f \in sent : f.kind = "response"
    /\ agent' = "live"
    /\ \/ AgentSays(Complete)
       \/ MaxOutputs > 0 /\ UNCHANGED fromAgent
    /\ UNCHANGED <<socket, sent, written, sessionClientVars>>

AgentWrites ==
    /\ agent = "live" /\ socket = "open" /\ written < MaxOutputs
    /\ written' = written + 1
    /\ AgentSays(Output(written + 1))
    /\ UNCHANGED <<socket, sent, agent, sessionClientVars>>

AgentGarbles ==
    /\ agent = "requested" /\ socket = "open" /\ ~errors
    /\ Malformed \notin Range(fromAgent)
    /\ AgentSays(Malformed)
    /\ UNCHANGED <<socket, sent, written, agent, sessionClientVars>>

AgentLeaves ==
    /\ agent \in {"requested", "live"} /\ socket = "open"
    /\ agent' = "gone"
    /\ AgentSays(Closed)
    /\ UNCHANGED <<socket, sent, written, sessionClientVars>>

AgentActs == AgentRequests \/ AgentStartsShell \/ AgentWrites \/ AgentGarbles \/ AgentLeaves
Digested(f) == AckDigested(f) \/ ResponseDigested(f) \/ InputDigested(f)
SomeDigested == \E f \in digests : Digested(f)
SocketSettles == SocketOpens \/ SocketFails

SessionNext == \/ Open \/ SocketSettles \/ SocketCloses \/ Receive \/ SomeDigested
        \/ Type \/ Close \/ AgentActs

(***************************************************************************)
(* The browser finishes its digests, delivers what has arrived, answers a  *)
(* connection attempt and completes a close.  The user need not type, nor  *)
(* the agent do anything.                                                  *)
(***************************************************************************)
SessionFairness == /\ WF_sessionVars(SomeDigested)
            /\ WF_sessionVars(Receive)
            /\ WF_sessionVars(SocketSettles)
            /\ WF_sessionVars(socket = "closing" /\ SocketCloses)

SessionSpec == SessionInit /\ [][SessionNext]_sessionVars /\ SessionFairness
-----------------------------------------------------------------------------
Working == socket = "open" /\ ~detached

\* The types of the variables.
SessionTypeOK ==
    /\ socket \in {"none", "connecting", "open", "closing", "closed"}
    /\ opened \in {"pending", "resolved", "rejected"}
    /\ agent \in {"waiting", "requested", "live", "gone"}
    /\ detached \in BOOLEAN /\ ready \in BOOLEAN /\ errors \in BOOLEAN
    /\ seq \in 0 .. MaxInputs + 1
    /\ typed \in 0 .. MaxInputs /\ queued \subseteq 1 .. typed
    /\ pending \in Seq(1 .. typed) /\ flushing \in Seq(1 .. typed)
    /\ closeReports \in 0 .. 2
    /\ \A f \in DataSent \cup {g \in digests : IsData(g)} : f.number \in 0 .. seq - 1

(***************************************************************************)
(* While the session works, the numbers handed out are 0 .. seq - 1, each  *)
(* to one frame that is sent or on its way: the agent, which reorders by   *)
(* number and waits at a gap, is never stuck (session.ts:163).             *)
(***************************************************************************)
NumberedOnce ==
    LET data == DataSent \cup {f \in digests : IsData(f)} IN
    Working => /\ {f.number : f \in data} = 0 .. seq - 1
               /\ Cardinality(data) = seq

(***************************************************************************)
(* While the session works every input is in exactly one place: queued,    *)
(* in the flush, being digested or sent (session.ts:181-193).              *)
(***************************************************************************)
NothingTypedIsLost ==
    LET places == <<Range(pending), Range(flushing), InputsOf(digests), InputsOf(sent)>> IN
    Working => /\ UNION Range(places) = 1 .. typed
               /\ \A a, b \in DOMAIN places : a # b => places[a] \cap places[b] = {}
               /\ IsInjective(pending) /\ IsInjective(flushing)

(***************************************************************************)
(* "Input/size sent before the handshake completes never reaches the       *)
(* shell" (session.ts:177): so none is numbered before the agent, having   *)
(* our response, has started the shell.                                    *)
(***************************************************************************)
InputWaitsForShell ==
    InputsOf(digests \cup sent) # {} =>
        /\ ready
        /\ \E f \in sent : f.kind = "response" /\ f.number = 0

(***************************************************************************)
(* Numbers follow the order of typing among the inputs that were queued    *)
(* and among those that were not.  Only an input typed while the queue is  *)
(* being flushed overtakes, and only inputs that were queued.              *)
(***************************************************************************)
OnlyTheFlushReorders ==
    \A f, g \in digests \cup sent :
        (f.kind = "input" /\ g.kind = "input" /\ f.id < g.id /\ f.number > g.number)
            => f.id \in queued /\ g.id \notin queued

(***************************************************************************)
(* After the WebSocket's own close event nothing else is reported, and an  *)
(* end is reported twice only when the agent announced it.                 *)
(***************************************************************************)
TwiceOnlyIfAnnounced ==
    closeReports = 2 => socket = "closed" /\ agent = "gone"

(***************************************************************************)
(* What is typed is sent, once the shell is live, unless the session ends: *)
(* a flush and the inputs typed beside it always catch up.  This and the   *)
(* next two hold for good in the end (EverySessionAnswers).                *)
(***************************************************************************)
EveryInputIsSent == ready => InputsOf(sent) = 1 .. typed \/ ~Working

(***************************************************************************)
(* "Every inbound data/handshake message must be acknowledged"             *)
(* (session.ts:98), and the output among them shown.                       *)
(***************************************************************************)
EveryMessageIsAcknowledged ==
    LET outputs == {Output(k) : k \in 1 .. written}
        said    == outputs \cup {m \in {Request} : agent # "waiting"}
    IN Working => /\ {Ack(m) : m \in said} \subseteq sent
                  /\ {m.id : m \in outputs} \subseteq Range(shown)

(***************************************************************************)
(* Whoever waits for open() learns how it ended: by its promise or, when   *)
(* the connection fails, only by a call of onClose.                        *)
(***************************************************************************)
EveryOpenIsAnswered == socket = "none" \/ opened # "pending" \/ closeReports > 0

(***************************************************************************)
(* What is typed is numbered once and without gaps, waits for its shell,   *)
(* and is not lost before the session ends.  Its order is kept but for one *)
(* case: the flush awaits a digest for each queued input (session.ts:182), *)
(* and one typed meanwhile is numbered before those that still wait, so    *)
(* that the agent gets it first.  The end is reported once, or, if the     *)
(* agent announces it, twice (session.ts:81, 103).                         *)
(***************************************************************************)
InputIsKept ==
    /\ SessionTypeOK /\ NumberedOnce /\ NothingTypedIsLost
    /\ InputWaitsForShell /\ OnlyTheFlushReorders /\ TwiceOnlyIfAnnounced

(***************************************************************************)
(* The session leaves nobody waiting: not the user for an input to go out, *)
(* nor the agent for its acknowledgement, nor the page for the end of a    *)
(* connection that fails.                                                  *)
(***************************************************************************)
EverySessionAnswers == <>[](EveryInputIsSent /\ EveryMessageIsAcknowledged /\ EveryOpenIsAnswered)

-----------------------------------------------------------------------------
(***************************************************************************)
(* What a page is promised: one channel of module ShellChannel.            *)
(***************************************************************************)
Channel == INSTANCE ShellChannel WITH
    Sessions <- {1},
    channel  <- [s \in {1} |-> socket],
    reported <- {s \in {1} : closeReports > 0}

\* The session behaves as a channel, whatever the agent and the user do.
ImplementsChannel == Channel!ChannelSpec
=============================================================================
