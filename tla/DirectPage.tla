----------------------------- MODULE DirectPage -----------------------------
(***************************************************************************)
(* The page of the direct demo (demo/direct/main.ts): the user's own       *)
(* credentials, which may expire, one launch at a time, a poll that        *)
(* watches the instance until it ends itself, a shell into it, and a reset *)
(* for another run.                                                        *)
(*                                                                         *)
(* Credentials that came through Globus are "fresh", "late" in their last  *)
(* five minutes and then "lapsed"; pasted ones stay fresh.  Timers fire    *)
(* any time after they are due (a sleeping laptop).                        *)
(***************************************************************************)
EXTENDS Naturals, FiniteSets

CONSTANTS
    DirectSessions,  \* the sessions, in the order in which they are asked for
    MaxClients,   \* bound: sign-ins
    MaxRuns       \* bound: launches

ASSUME DirectBounds == MaxClients \in Nat /\ MaxRuns \in Nat /\ DirectSessions \subseteq Nat \ {0}

Runs == 1 .. MaxRuns

VARIABLES
    shell,       \* the channel of each session, as module ShellChannel has it
    shellReported,  \* the sessions that have called onClose
    client,      \* the SpawnClient in use, numbered; 0 is none
    monitors,    \* the clients whose monitor runs
    age,         \* of the credentials: "fresh", "late", "lapsed"
    arriving,    \* Globus may still complete a sign-in of this page: at most one a load
    federated,   \* the credentials came through Globus
    banner,      \* class of the expiry banner: "none", "ok", "warn", "expired"
    timer,       \* expiryTimer: "none", "warning", "expired"
    ticking,     \* expiryTick
    enabled,     \* the buttons "go" and "shell" that are not disabled
    visible,     \* the buttons "shell" and "reset" that are not hidden
    inst,        \* each run's instance: "none", "launching", "failed", "running",
                 \* "winding", "terminated", "gone"
    current,     \* the run whose instance is currentInstanceId; 0 is none
    watch,       \* each run's poll: "off", "on", "announced" once the end was seen
    polled,      \* what the get under way of each poll has read; "none" when there is none
    connecting,  \* each press of "connect terminal": "no", "starting", "attaching",
                 \* "done", "failed"
    terminal,    \* the session whose handles the page holds; 0 is none
    sessionId,   \* the session the page would end; 0 is none
    service,         \* SSM's sessions: "none", "live", "ended"
    ending,      \* TerminateSession calls under way
    overtaken    \* history: sessions that a cleanup overtook while they were set up, or
                 \* a new sign-in before they were done

accessVars == <<client, monitors, age, arriving, federated, banner, timer, ticking>>
runVars    == <<inst, current, watch, polled>>
buttons    == <<enabled, visible>>
shellVars  == <<shell, shellReported, connecting, terminal, sessionId, service, ending, overtaken>>
directVars == <<accessVars, buttons, runVars, shellVars>>

Shell == INSTANCE ShellChannel
         WITH Sessions <- DirectSessions, channel <- shell, reported <- shellReported

Lapsed == federated /\ age = "lapsed"
BeingSetUp == {s \in DirectSessions : connecting[s] \in {"starting", "attaching"}}

DirectInit ==
    /\ Shell!ChannelInit
    /\ client = 0 /\ monitors = {} /\ age = "fresh" /\ arriving = TRUE /\ federated = FALSE
    /\ banner = "none" /\ timer = "none" /\ ticking = FALSE
    /\ enabled = {"go", "shell"} /\ visible = {}
    /\ inst = [n \in Runs |-> "none"] /\ current = 0 /\ watch = [n \in Runs |-> "off"]
    /\ polled = [n \in Runs |-> "none"]
    /\ connecting = [s \in DirectSessions |-> "no"] /\ terminal = 0 /\ sessionId = 0
    /\ service = [s \in DirectSessions |-> "none"] /\ ending = {} /\ overtaken = {}

-----------------------------------------------------------------------------
(***************************************************************************)
(* cleanupTerminal: dispose of the terminal, and end the session; the name *)
(* of the session is forgotten when the answer comes.                      *)
(***************************************************************************)
CleanupTerminal ==
    /\ terminal' = 0
    /\ shell' = IF terminal # 0 /\ shell[terminal] # "closed"
                  THEN [shell EXCEPT ![terminal] = "closing"] ELSE shell
    /\ ending' = ending \cup ({sessionId} \ {0})
    /\ overtaken' = overtaken \cup BeingSetUp
    /\ UNCHANGED <<shellReported, connecting, sessionId, service>>

ForgetsSession(s) ==
    /\ s \in ending
    /\ ending' = ending \ {s}
    /\ sessionId' = 0
    /\ \/ service' = [service EXCEPT ![s] = "ended"]
       \/ UNCHANGED service
    /\ UNCHANGED <<accessVars, buttons, runVars, shell, shellReported, connecting, terminal, overtaken>>

(***************************************************************************)
(* onExpiryExpired, reached from the timer, the tick and every guarded     *)
(* click: it announces once.                                               *)
(***************************************************************************)
OnExpired ==
    IF banner = "expired" THEN UNCHANGED <<timer, ticking, banner, monitors, shellVars>>
    ELSE /\ timer' = "none" /\ ticking' = FALSE
         /\ banner' = "expired"
         /\ monitors' = monitors \ {client}
         /\ CleanupTerminal

\* The buttons it leaves enabled.
EnabledExpired == IF banner = "expired" THEN enabled ELSE {}

(***************************************************************************)
(* connectWithCreds and armExpiry.  Through Globus at most once for a page *)
(* that is loaded; keys may be pasted at any time.                         *)
(***************************************************************************)
Connect(globus) ==
    /\ client < MaxClients /\ (globus => arriving)
    /\ arriving' = (arriving /\ ~globus)
    /\ client' = client + 1
    /\ monitors' = monitors \cup {client + 1}
    /\ federated' = globus
    /\ age' = "fresh"
    /\ timer' = IF globus THEN "warning" ELSE "none"
    /\ ticking' = globus
    /\ banner' = IF globus THEN "ok" ELSE banner
    /\ enabled' = {"go", "shell"}
    /\ overtaken' = overtaken \cup BeingSetUp \cup ({terminal} \ {0})
    /\ UNCHANGED <<visible, runVars, shell, shellReported, connecting, terminal, sessionId, service, ending>>

Ages ==
    /\ federated /\ age # "lapsed"
    /\ age' = IF age = "fresh" THEN "late" ELSE "lapsed"
    /\ UNCHANGED <<client, monitors, arriving, federated, banner, timer, ticking, buttons, runVars, shellVars>>

\* The timer set for five minutes before the end, then for the end.
WarningFires ==
    /\ timer = "warning" /\ age # "fresh"
    /\ banner' = "warn"
    /\ timer' = "expired"
    /\ UNCHANGED <<client, monitors, age, arriving, federated, ticking, buttons, runVars, shellVars>>

ExpiryFires ==
    /\ timer = "expired" /\ Lapsed
    /\ OnExpired
    /\ enabled' = EnabledExpired
    /\ UNCHANGED <<client, age, arriving, federated, visible, runVars>>

\* Every 30 s; it notices a deadline that the timers slept through.
ExpiryTicks ==
    /\ ticking
    /\ \/ /\ Lapsed
          /\ OnExpired
          /\ enabled' = EnabledExpired
       \/ /\ ~Lapsed
          /\ banner' = IF age = "fresh" THEN "ok" ELSE "warn"
          /\ UNCHANGED <<monitors, timer, ticking, enabled, shellVars>>
    /\ UNCHANGED <<client, age, arriving, federated, visible, runVars>>

-----------------------------------------------------------------------------
(***************************************************************************)
(* A run: launch, poll every 15 s until it is over, offer a reset.         *)
(***************************************************************************)
NextRun(n) == inst[n] = "none" /\ \A m \in 1 .. n - 1 : inst[m] # "none"

GoClicked(n) ==
    /\ client # 0 /\ "go" \in enabled /\ NextRun(n)
    /\ \/ /\ Lapsed
          /\ OnExpired
          /\ enabled' = EnabledExpired
          /\ UNCHANGED inst
       \/ /\ ~Lapsed
          /\ enabled' = enabled \ {"go"}
          /\ inst' = [inst EXCEPT ![n] = "launching"]
          /\ UNCHANGED <<timer, ticking, banner, monitors, shellVars>>
    /\ UNCHANGED <<client, age, arriving, federated, visible, current, watch, polled>>

Launched(n) ==
    /\ inst[n] = "launching"
    /\ inst' = [inst EXCEPT ![n] = "running"]
    /\ current' = n
    /\ watch' = [watch EXCEPT ![n] = "on"]
    /\ UNCHANGED <<polled, accessVars, buttons, shellVars>>

LaunchFailed(n) ==
    /\ inst[n] = "launching"
    /\ inst' = [inst EXCEPT ![n] = "failed"]
    /\ visible' = visible \cup {"reset"}
    /\ UNCHANGED <<accessVars, enabled, current, watch, polled, shellVars>>

\* External: spored ends the instance on its TTL, and EC2 forgets it.
WindsDown(n) ==
    /\ inst[n] \in {"running", "winding", "terminated"}
    /\ inst' = [inst EXCEPT ![n] = CASE @ = "running" -> "winding"
                                     [] @ = "winding" -> "terminated"
                                     [] OTHER -> "gone"]
    /\ UNCHANGED <<accessVars, buttons, current, watch, polled, shellVars>>

\* A tick of the poll asks, and its answer is used as it was read, whatever became of the
\* page and of the credentials meanwhile.  Bound: it is there before the next tick.
PollAsks(n) ==
    /\ watch[n] # "off" /\ polled[n] = "none" /\ ~Lapsed
    /\ polled' = [polled EXCEPT ![n] = inst[n]]
    /\ UNCHANGED <<accessVars, buttons, inst, current, watch, shellVars>>

PollAnswered(n) == polled' = [polled EXCEPT ![n] = "none"]

PollSeesRunning(n) ==
    /\ polled[n] = "running" /\ PollAnswered(n)
    /\ visible' = IF terminal = 0 THEN visible \cup {"shell"} ELSE visible \ {"shell"}
    /\ UNCHANGED <<accessVars, enabled, inst, current, watch, shellVars>>

\* The end is announced, and the shell cleaned up, the first time it is seen.
PollSeesEnd(n) ==
    /\ polled[n] \in {"winding", "terminated"} /\ PollAnswered(n)
    /\ IF watch[n] = "on" THEN CleanupTerminal ELSE UNCHANGED shellVars
    /\ IF polled[n] = "winding"
       THEN /\ watch' = [watch EXCEPT ![n] = "announced"]
            /\ visible' = visible \ {"shell"}
       ELSE /\ watch' = [watch EXCEPT ![n] = "off"]
            /\ visible' = (visible \ {"shell"}) \cup {"reset"}
    /\ UNCHANGED <<accessVars, enabled, inst, current>>

PollSeesNothing(n) ==
    /\ polled[n] = "gone" /\ PollAnswered(n)
    /\ watch' = [watch EXCEPT ![n] = "off"]
    /\ visible' = visible \cup {"reset"}
    /\ UNCHANGED <<accessVars, enabled, inst, current, shellVars>>

PollExpired(n) ==
    /\ watch[n] # "off" /\ polled[n] = "none" /\ Lapsed
    /\ watch' = [watch EXCEPT ![n] = "off"]
    /\ OnExpired
    /\ enabled' = EnabledExpired
    /\ visible' = visible \cup {"reset"}
    /\ UNCHANGED <<client, age, arriving, federated, inst, current, polled>>

ResetClicked ==
    /\ "reset" \in visible
    /\ CleanupTerminal
    /\ current' = 0
    /\ visible' = {}
    /\ enabled' = {"go", "shell"}
    /\ UNCHANGED <<accessVars, inst, watch, polled>>

-----------------------------------------------------------------------------
(***************************************************************************)
(* The shell: StartSession, then attachTerminal.                           *)
(***************************************************************************)
ShellClicked(s) ==
    /\ "shell" \in enabled \cap visible /\ current # 0
    /\ connecting[s] = "no" /\ \A t \in 1 .. s - 1 : connecting[t] # "no"
    /\ \/ /\ Lapsed
          /\ OnExpired
          /\ enabled' = EnabledExpired
       \/ /\ ~Lapsed
          /\ enabled' = enabled \ {"shell"}
          /\ connecting' = [connecting EXCEPT ![s] = "starting"]
          /\ UNCHANGED <<timer, ticking, banner, monitors, shell, shellReported, terminal, sessionId,
                         service, ending, overtaken>>
    /\ UNCHANGED <<client, age, arriving, federated, visible, runVars>>

SessionStarted(s) ==
    /\ connecting[s] = "starting"
    /\ Shell!Connects(s)
    /\ connecting' = [connecting EXCEPT ![s] = "attaching"]
    /\ service' = [service EXCEPT ![s] = "live"]
    /\ sessionId' = s
    /\ visible' = visible \ {"shell"}
    /\ UNCHANGED <<accessVars, enabled, runVars, terminal, ending, overtaken>>

SessionRefused(s) ==
    /\ connecting[s] = "starting"
    /\ connecting' = [connecting EXCEPT ![s] = "failed"]
    /\ enabled' = enabled \cup {"shell"}
    /\ UNCHANGED <<accessVars, visible, runVars, shell, shellReported, terminal, sessionId, service, ending, overtaken>>

ShellAttached(s) ==
    /\ connecting[s] = "attaching" /\ service[s] = "live"
    /\ Shell!Opens(s)
    /\ connecting' = [connecting EXCEPT ![s] = "done"]
    /\ terminal' = s
    /\ UNCHANGED <<accessVars, buttons, runVars, sessionId, service, ending, overtaken>>

\* onClosed only writes a line to the log.
ChannelEnds(s) ==
    /\ Shell!Fails(s) \/ Shell!Announces(s) \/ Shell!Ends(s)
    /\ UNCHANGED <<accessVars, buttons, runVars, connecting, terminal, sessionId, service, ending,
                   overtaken>>

Poll(n) == PollAsks(n) \/ PollSeesRunning(n) \/ PollSeesEnd(n) \/ PollSeesNothing(n) \/ PollExpired(n)
RunActs(n) == Launched(n) \/ LaunchFailed(n) \/ WindsDown(n) \/ Poll(n)
ShellActs(s) == SessionStarted(s) \/ SessionRefused(s) \/ ShellAttached(s) \/ ChannelEnds(s)
                \/ ForgetsSession(s)
Clicks == \/ \E g \in BOOLEAN : Connect(g)
          \/ \E n \in Runs : GoClicked(n)
          \/ \E s \in DirectSessions : ShellClicked(s)
          \/ ResetClicked

DirectNext ==
    \/ Ages \/ WarningFires \/ ExpiryFires \/ ExpiryTicks \/ Clicks
    \/ \E n \in Runs : RunActs(n)
    \/ \E s \in DirectSessions : ShellActs(s)

(***************************************************************************)
(* Timers fire in the end, calls are answered, instances wind down.  The   *)
(* user need do nothing.                                                   *)
(***************************************************************************)
DirectFairness ==
    /\ WF_directVars(ExpiryFires) /\ WF_directVars(WarningFires) /\ WF_directVars(ExpiryTicks)
    /\ \A n \in Runs : /\ WF_directVars(Launched(n) \/ LaunchFailed(n))
                       /\ WF_directVars(WindsDown(n))
                       /\ WF_directVars(Poll(n))

DirectSpec == DirectInit /\ [][DirectNext]_directVars /\ DirectFairness
-----------------------------------------------------------------------------
\* The types of the variables.
DirectTypeOK ==
    /\ client \in 0 .. MaxClients /\ monitors \subseteq 1 .. client
    /\ age \in {"fresh", "late", "lapsed"} /\ {arriving, federated} \subseteq BOOLEAN
    /\ banner \in {"none", "ok", "warn", "expired"}
    /\ timer \in {"none", "warning", "expired"} /\ ticking \in BOOLEAN
    /\ enabled \subseteq {"go", "shell"} /\ visible \subseteq {"shell", "reset"}
    /\ LET stages == {"none", "launching", "failed", "running", "winding", "terminated", "gone"}
       IN inst \in [Runs -> stages] /\ polled \in [Runs -> stages]
    /\ current \in {0} \cup Runs /\ watch \in [Runs -> {"off", "on", "announced"}]
    /\ connecting \in [DirectSessions -> {"no", "starting", "attaching", "done", "failed"}]
    /\ {terminal, sessionId} \subseteq {0} \cup DirectSessions
    /\ service \in [DirectSessions -> {"none", "live", "ended"}]
    /\ ending \subseteq DirectSessions /\ overtaken \subseteq DirectSessions

(***************************************************************************)
(* Once the expiry of the credentials in use is announced, nothing polls   *)
(* with them: the monitor is stopped ("every tick would now be a failing   *)
(* DescribeInstances", main.ts:249), and no timer is left to announce it   *)
(* again.                                                                  *)
(***************************************************************************)
ExpiredIsQuiet ==
    federated /\ banner = "expired" => client \notin monitors /\ timer = "none" /\ ~ticking

(***************************************************************************)
(* The page holds the handles of every session that is open, unless a      *)
(* cleanup went by while one was being set up, or credentials were entered *)
(* again, which gives the connect button back.                             *)
(***************************************************************************)
LostOnlyWhenOvertaken ==
    overtaken = {} => \A s \in DirectSessions : shell[s] = "open" => terminal = s

(***************************************************************************)
(* A run comes to offer the reset, however it ends: terminated, gone,      *)
(* failed to launch, or with credentials that expire on the way.  A page   *)
(* is never for ever without it while a run is launching, watched or the   *)
(* current one.                                                            *)
(***************************************************************************)
EveryRunOffersReset ==
    \A n \in Runs :
        inst[n] = "launching" \/ watch[n] # "off" \/ current = n => "reset" \in visible
=============================================================================
