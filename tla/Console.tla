------------------------------- MODULE Console -------------------------------
(***************************************************************************)
(* The two hands on one client: the terminal's commands (ui/terminal.ts,   *)
(* cli/commands.ts) and the dashboard's cards and orphan banner            *)
(* (ui/dashboard.ts), over whatever backend main.ts's picker last chose.   *)
(* A command keeps the backend it was typed against; a card acts by name   *)
(* on the backend that is there when each of its requests is sent; a list  *)
(* that was asked of one backend may arrive after another was chosen.      *)
(***************************************************************************)
EXTENDS Naturals, FiniteSets

CONSTANTS
    Insts,        \* instances, present and to be launched
    NameOf,       \* the Name tag of each
    HostOf,       \* the backend each is on; "mock" bills nothing
    Unbounded,    \* those launched with no TTL or other bound
    OnComplete,   \* what each is to do when its job is complete; "" is nothing
    Ops,          \* bound: the operations tried
    MaxSwaps,     \* bound: swaps of the backend
    MaxGestures   \* bound: commands typed and buttons pressed

Backends == {HostOf[i] : i \in Insts}
Names    == {NameOf[i] : i \in Insts}
Tasks    == 1 .. MaxGestures

ASSUME ConsoleConstants ==
    /\ DOMAIN NameOf = Insts /\ DOMAIN HostOf = Insts /\ Unbounded \subseteq Insts
    /\ OnComplete \in [Insts -> {"", "terminate", "exit", "stop", "hibernate"}]
    /\ "mock" \in Backends
    /\ Ops \subseteq {"terminate", "stop", "start", "extend", "complete", "reap", "launch"}
    /\ {MaxSwaps, MaxGestures} \subseteq Nat

States == {"unborn", "running", "stopped", "ended"}
Steps  == {"off", "get", "confirm", "call", "list", "found"}
Off    == [at |-> "off"]

VARIABLES
    provider,   \* client.activeProvider
    swaps, gestures,
    state,      \* external: each instance
    late,       \* external: those past their deadline and the grace
    shown,      \* what the client lists: [on, insts (with states), late]
    asked,      \* list calls under way outside any task: the backends asked
    task,       \* each task: [at, by, op, on, name, yes, goal, todo]
    hit         \* what last reached an instance by hand: [by, op, does, goal, inst, sure]

consoleVars == <<provider, swaps, gestures, state, late, shown, asked, task, hit>>

On(b)       == {i \in Insts : HostOf[i] = b /\ state[i] # "unborn"}
Snapshot(b) == [on |-> b, insts |-> [i \in On(b) |-> state[i]], late |-> late \cap On(b)]

\* client.findOrphans over the list that is held.
FindOrphans == {i \in shown.late : shown.insts[i] = "running"}

ConsoleInit ==
    /\ provider = "mock" /\ swaps = 0 /\ gestures = 0
    /\ state \in [Insts -> {"unborn", "running"}]
    /\ late \in SUBSET {i \in Insts : state[i] = "running"}
    /\ shown = Snapshot("mock") /\ asked = {}
    /\ task = [t \in Tasks |-> Off] /\ hit = {}

-----------------------------------------------------------------------------
(* The world.                                                              *)

SetProvider(b) ==
    /\ swaps < MaxSwaps /\ b # provider
    /\ provider' = b /\ swaps' = swaps + 1 /\ asked' = asked \cup {b}
    /\ UNCHANGED <<gestures, state, late, shown, task, hit>>

\* A tick of the monitor (module Monitor has the rest of it).
TickLists ==
    /\ provider \notin asked /\ asked' = asked \cup {provider}
    /\ UNCHANGED <<provider, swaps, gestures, state, late, shown, task, hit>>

ListArrives(b) ==
    /\ b \in asked /\ asked' = asked \ {b}
    /\ shown' = Snapshot(b)
    /\ UNCHANGED <<provider, swaps, gestures, state, late, task, hit>>

-----------------------------------------------------------------------------
(* Commands and clicks begin.                                              *)

Begins(t, record) ==
    /\ t = gestures + 1 /\ gestures' = t
    /\ task' = [task EXCEPT ![t] = record]
    /\ UNCHANGED <<provider, swaps, state, late, shown, asked, hit>>

Record(at, by, op, name, yes, goal) ==
    [at |-> at, by |-> by, op |-> op, on |-> provider, name |-> name, yes |-> yes,
     goal |-> goal, todo |-> goal]

\* terminate, stop (hibernate is alike), start, extend <name>; orphans --reap.
TypeCommand(t, op, name, yes) ==
    /\ yes => op \in {"terminate", "reap"}
    /\ Begins(t, Record(IF op = "reap" THEN "list" ELSE "get", "cli", op, name, yes, {}))

\* launch: a real instance without a bound wants --no-timeout, and then -y or a dialog.
TypeLaunch(t, i, yes) ==
    /\ "launch" \in Ops /\ HostOf[i] = provider
    /\ LET refuse == HostOf[i] # "mock" /\ i \in Unbounded IN
         Begins(t, Record(IF refuse /\ ~yes THEN "confirm" ELSE "call", "cli", "launch", NameOf[i], yes, {i}))

\* What a card offers in each state; "signal complete" is a button of its own.
Offers(i, st) ==
    {"terminate"} \cup (IF st = "running" THEN {"stop", "extend"} ELSE {"start"})
        \cup (IF st = "running" /\ OnComplete[i] # "" THEN {"complete"} ELSE {})

\* A dialog comes first, for terminate alone; what it named is a card, not an instance.
ClickCard(t, op, i) ==
    /\ i \in DOMAIN shown.insts /\ shown.insts[i] # "ended" /\ op \in Offers(i, shown.insts[i])
    /\ Begins(t, Record(IF op = "terminate" THEN "confirm" ELSE "get", "card", op, NameOf[i], FALSE, {i}))

ClickReap(t) ==
    /\ "reap" \in Ops /\ FindOrphans # {}
    /\ Begins(t, Record("confirm", "card", "reap", "", FALSE, FindOrphans))

-----------------------------------------------------------------------------
(* And go on.                                                              *)

Goes(t, record) ==
    /\ task' = [task EXCEPT ![t] = record]
    /\ UNCHANGED <<provider, swaps, gestures, state, late, shown, asked, hit>>

At(t, at) == task[t].at = at

\* A refresh ends what was done, and any command that did not throw.
Lists(t) == [task[t] EXCEPT !.at = "list", !.on = provider, !.op = "none"]
Stopped(t) == IF task[t].by = "cli" THEN Lists(t) ELSE Off

\* Where the request after this one goes: a command's context holds its backend.
NextOn(t) == IF task[t].by = "cli" /\ task[t].op # "reap" THEN task[t].on ELSE provider

\* After orphans --reap confirmed, the list is looked through again.
Yes_FindsAgain(t) ==
    /\ At(t, "confirm")
    /\ LET found == IF task[t].op = "reap" THEN FindOrphans ELSE task[t].todo
           next == IF task[t].by = "card" /\ task[t].op # "reap" THEN "get" ELSE "call"
       IN  Goes(t, [task[t] EXCEPT !.at = next, !.on = NextOn(t), !.todo = found, !.yes = TRUE])

\* The user answers; a card's request is sent only then.
Yes(t) ==
    /\ At(t, "confirm")
    /\ LET next == IF task[t].by = "card" /\ task[t].op # "reap" THEN "get" ELSE "call"
       IN  Goes(t, [task[t] EXCEPT !.at = next, !.on = NextOn(t), !.yes = TRUE])

\* Closed beside its buttons, the dialog tells nobody.
No_Silent(t) == At(t, "confirm") /\ Goes(t, [task[t] EXCEPT !.at = "gone"])
No(t) == At(t, "confirm") /\ Goes(t, Stopped(t))

\* provider.get(name) answers with any instance of that name, one that has ended included;
\* signalComplete throws for one that has nothing to do on completion.
GetAnswered(t) ==
    /\ At(t, "get")
    /\ LET named == {i \in On(task[t].on) : NameOf[i] = task[t].name}
           asks == task[t].by = "cli" /\ task[t].op = "terminate" /\ ~task[t].yes
           throws == {i \in named : task[t].op = "complete" /\ OnComplete[i] = ""}
       IN \/ \E i \in named \ throws :
               Goes(t, [task[t] EXCEPT !.at = IF asks THEN "confirm" ELSE "call", !.on = NextOn(t), !.todo = {i},
                                       !.goal = IF task[t].by = "cli" THEN {i} ELSE @])
          \/ (named = {} \/ throws # {}) /\ Goes(t, Stopped(t))

\* What each operation does to an instance; FALSE where the backend refuses.
Takes(op, i) ==
    \/ op = "launch" /\ state[i] = "unborn"
    \/ op \in {"terminate", "reap", "extend"} /\ state[i] # "unborn"
    \/ op \in {"stop", "start"} /\ state[i] \in {"running", "stopped"}

After(op, st) ==
    CASE op \in {"terminate", "reap"} -> "ended"
      [] op = "stop"                  -> "stopped"
      [] op \in {"start", "launch"}   -> "running"
      [] OTHER                        -> st

\* What an operation asks for: signal complete, what the instance it looked up is to do then.
Does(op, i) ==
    IF op # "complete" THEN op ELSE IF OnComplete[i] \in {"terminate", "exit"} THEN "terminate" ELSE "stop"

Hit(t, i, does) == hit' = {[by |-> task[t].by, op |-> task[t].op, does |-> does, goal |-> task[t].goal,
                           inst |-> i, sure |-> task[t].yes]}

CallServed(t) ==
    /\ At(t, "call")
    /\ \E i \in task[t].todo :
         /\ HostOf[i] = task[t].on /\ Takes(Does(task[t].op, i), i)
         /\ state' = [state EXCEPT ![i] = After(Does(task[t].op, i), @)]
         /\ late' = IF task[t].op = "extend" THEN late \ {i} ELSE late
         /\ Hit(t, i, Does(task[t].op, i))
         /\ LET rest == task[t].todo \ {i} IN
            task' = [task EXCEPT ![t] = IF rest # {} THEN [@ EXCEPT !.todo = rest, !.on = NextOn(t)] ELSE Lists(t)]
    /\ UNCHANGED <<provider, swaps, gestures, shown, asked>>

\* Refused, or lost: what is left is not tried.
CallFailed(t) == At(t, "call") /\ Goes(t, Off)

\* The refresh that ends a task, or begins orphans.
TaskListArrives(t) ==
    /\ At(t, "list")
    /\ shown' = Snapshot(task[t].on)
    /\ task' = [task EXCEPT ![t] = IF task[t].op = "reap" THEN [@ EXCEPT !.at = "found"] ELSE Off]
    /\ UNCHANGED <<provider, swaps, gestures, state, late, asked, hit>>
TaskListFails(t) == At(t, "list") /\ Goes(t, Off)

OrphansFound(t) ==
    /\ At(t, "found")
    /\ IF FindOrphans = {} THEN Goes(t, Lists(t))
       ELSE Goes(t, [task[t] EXCEPT !.at = IF task[t].yes THEN "call" ELSE "confirm", !.on = provider,
                                    !.goal = FindOrphans, !.todo = FindOrphans])

TaskStep(t) ==
    \/ Yes(t) \/ No(t) \/ GetAnswered(t) \/ CallServed(t) \/ CallFailed(t)
    \/ TaskListArrives(t) \/ TaskListFails(t) \/ OrphansFound(t)

ConsoleNext ==
    \/ \E b \in Backends : SetProvider(b) \/ ListArrives(b)
    \/ TickLists
    \/ \E t \in Tasks :
         \/ TaskStep(t) \/ ClickReap(t)
         \/ \E yes \in BOOLEAN :
              \/ \E op \in Ops \ {"launch", "complete"}, name \in Names : TypeCommand(t, op, name, yes)
              \/ \E i \in Insts : TypeLaunch(t, i, yes)
         \/ \E op \in Ops \ {"launch", "reap"}, i \in Insts : ClickCard(t, op, i)

\* Calls are answered, dialogs too, and the timer ticks.
ConsoleFairness ==
    /\ \A t \in Tasks : WF_consoleVars(TaskStep(t))
    /\ WF_consoleVars(TickLists) /\ \A b \in Backends : WF_consoleVars(ListArrives(b))

ConsoleSpec == ConsoleInit /\ [][ConsoleNext]_consoleVars /\ ConsoleFairness
-----------------------------------------------------------------------------
\* The types of the variables.
ConsoleTypeOK ==
    /\ provider \in Backends /\ asked \subseteq Backends /\ shown.on \in Backends
    /\ state \in [Insts -> States] /\ late \subseteq Insts
    /\ \A t \in Tasks : task[t].at \in Steps /\ (At(t, "call") => task[t].todo # {})

(***************************************************************************)
(* A command reaches the one instance it looked up, and named in its       *)
(* dialog, whatever other backend was chosen meanwhile (commands.ts:588).  *)
(* Reaping reaches none but those it counted.  A card may reach another    *)
(* instance than the one it shows, but only one of the same name.          *)
(***************************************************************************)
HitsWhatWasMeant ==
    \A h \in hit :
        \/ h.inst \in h.goal
        \/ h.by = "card" /\ h.op # "reap" /\ \E i \in h.goal : NameOf[i] = NameOf[h.inst]

(***************************************************************************)
(* Nothing is terminated by hand that was not confirmed but by signal      *)
(* complete, which has no dialog (dashboard.ts:607): that ends only an     *)
(* instance that was itself to end on completion, and only where the card  *)
(* that was clicked had something to do then.  And nothing that bills is   *)
(* launched without a bound unless that was confirmed.                     *)
(***************************************************************************)
DestructiveIsConfirmed ==
    \A h \in hit :
        \/ h.sure
        \/ h.does \in {"stop", "start", "extend"}
        \/ h.does = "launch" /\ (h.inst \notin Unbounded \/ HostOf[h.inst] = "mock")
        \/ /\ h.op = "complete" /\ OnComplete[h.inst] \in {"terminate", "exit"}
           /\ \E i \in h.goal : OnComplete[i] # ""

(***************************************************************************)
(* A list of the backend before, arriving late, is shown only until the    *)
(* next one: in the end this holds for good.                               *)
(***************************************************************************)
ListFollowsBackend == shown.on = provider

(***************************************************************************)
(* Every command and every click comes to an end once its calls and its    *)
(* dialog are answered, whatever the other hand does: in the end this      *)
(* holds for good.                                                         *)
(***************************************************************************)
EveryTaskEnds == \A t \in Tasks : At(t, "off")
-----------------------------------------------------------------------------
(***************************************************************************)
(* The launch form's instance picker (Dashboard.wireTrufflePicker), beside *)
(* the hands and apart from them: the query is looked up 200 ms after the  *)
(* last keystroke, or on Enter; a sequence number drops the answers of     *)
(* queries superseded by another; a match that is picked fills the type    *)
(* and the price and empties the field.  What truffle finds is external.   *)
(***************************************************************************)
CONSTANTS Queries,    \* what may stand in the field; "" is not one
          MaxEdits    \* bound: changes of the field

ASSUME PickerConstants == "" \notin Queries /\ MaxEdits \in Nat

VARIABLES
    field, edits,
    timer,      \* the debounce runs
    seq,        \* of the latest lookup
    pending,    \* lookups under way: [n, query]
    matches,    \* what the list is of: a query, or "hidden"
    cleared     \* the field was emptied since the latest lookup

pickerVars == <<field, edits, timer, seq, pending, matches, cleared>>

PickerInit ==
    /\ field = "" /\ edits = 0 /\ timer = FALSE /\ seq = 0
    /\ pending = {} /\ matches = "hidden" /\ cleared = FALSE

\* The user types, or empties the field.
Edit(q) ==
    /\ edits < MaxEdits /\ q # field
    /\ field' = q /\ edits' = edits + 1 /\ timer' = TRUE
    /\ UNCHANGED <<seq, pending, matches, cleared>>

\* run(): an empty field hides the list, and leaves seq alone.
RunQuery ==
    IF field = ""
    THEN matches' = "hidden" /\ cleared' = TRUE /\ UNCHANGED <<seq, pending>>
    ELSE /\ seq' = seq + 1 /\ cleared' = FALSE
         /\ pending' = pending \cup {[n |-> seq + 1, query |-> field]}
         /\ UNCHANGED matches

TimerFires == timer /\ timer' = FALSE /\ RunQuery /\ UNCHANGED <<field, edits>>

\* Enter is pressed on a field that was edited.
PressEnter == timer /\ timer' = FALSE /\ RunQuery /\ UNCHANGED <<field, edits>>

\* An answer or an error: shown unless another lookup was begun since.
Arrives(p) ==
    /\ p \in pending /\ pending' = pending \ {p}
    /\ matches' = IF p.n = seq THEN p.query ELSE matches
    /\ UNCHANGED <<field, edits, timer, seq, cleared>>

\* Emptying the field by hand is no input event.
Pick ==
    /\ matches # "hidden" /\ matches' = "hidden" /\ field' = "" /\ cleared' = TRUE
    /\ UNCHANGED <<edits, timer, seq, pending>>

PickerNext ==
    \/ \E q \in Queries \cup {""} : Edit(q)
    \/ TimerFires \/ PressEnter \/ Pick
    \/ \E p \in pending : Arrives(p)

PickerFairness == WF_pickerVars(TimerFires) /\ WF_pickerVars(\E p \in pending : Arrives(p))

PickerSpec == PickerInit /\ [][PickerNext]_pickerVars /\ PickerFairness
-----------------------------------------------------------------------------
(***************************************************************************)
(* Once nothing is under way the list is of the field: an answer that was  *)
(* slower than the next lookup is never shown over it.  The exception is a *)
(* field that was emptied while a lookup was under way: its answer opens   *)
(* the list again (dashboard.ts:350).                                      *)
(***************************************************************************)
MatchesAreOfTheField ==
    ~timer /\ pending = {} /\ ~cleared => matches \in {field, "hidden"}

(***************************************************************************)
(* The query that stays in the field is answered: in the end this holds    *)
(* for good.                                                               *)
(***************************************************************************)
LastQueryIsShown == field # "" => matches = field
=============================================================================
