------------------------------- MODULE Registry -------------------------------
(***************************************************************************)
(* The client's registry of fan-outs (core/client.ts): startSweep,         *)
(* startQueue and startJobArray register one under an id derived from its  *)
(* name and the clock; every tick, and every start, pumps all that are     *)
(* registered, and pumps overlap.  The backend may be swapped under all of *)
(* it (setProvider, main.ts).  The dashboard keeps one card an id and logs *)
(* starts and completions (ui/dashboard.ts).                               *)
(*                                                                         *)
(* What a pump does inside one fan-out is module FanOut; here a fan-out    *)
(* has members that wait and members that are up, all launched at once.    *)
(***************************************************************************)
EXTENDS Naturals, Sequences, FiniteSets, SequencesExt

CONSTANTS
    Hosts,    \* "mock" is one, in which nothing is billed
    MaxStarts,   \* bound: fan-outs that are started
    Members,     \* bound: members of each
    MaxPumps,    \* bound: pumps under way at once
    MaxHostSwaps,    \* bound: swaps of the backend
    Horizon,     \* bound: of the clock
    Period       \* the clock's part in an id repeats: 1,000,000 ms for a sweep

ASSUME RegistryConstants ==
    /\ "mock" \in Hosts
    /\ {MaxStarts, Members, MaxPumps, MaxHostSwaps, Horizon} \subseteq Nat /\ Period \in Nat \ {0}

FanOuts == 1 .. MaxStarts
Pumps   == 1 .. MaxPumps
Ids     == 0 .. Period - 1
NoView  == [of |-> 0, done |-> FALSE]

VARIABLES
    clock,
    backend,    \* the backend
    hostSwaps,
    listed,      \* the backend whose list the client holds
    id,          \* each fan-out's id; Period before it is started
    bounded,     \* those whose members have a TTL or another bound
    waiting,     \* each fan-out's members that were not launched
    up,          \* its members recorded as running, on each backend
    alive,       \* external: its instances that run, on each backend
    entering,    \* fan-outs inside their own pump
    registry,    \* [id, of] in order of insertion
    pump,        \* each pump of the client: [at, todo]; at is "off", "enter", "launch", "emit"
    view,        \* the dashboard's card of each id: its last event
    log          \* fan-outs logged as started, and as done: sequence of <<what, fan-out>>

registryVars ==
    <<clock, backend, hostSwaps, listed, id, bounded, waiting, up, alive, entering, registry, pump, view, log>>

RegistryInit ==
    /\ clock = 0 /\ backend = "mock" /\ hostSwaps = 0 /\ listed = "mock"
    /\ id = [f \in FanOuts |-> Period] /\ bounded = {}
    /\ waiting = [f \in FanOuts |-> 0]
    /\ up = [f \in FanOuts |-> [b \in Hosts |-> 0]] /\ alive = up
    /\ entering = {} /\ registry = <<>>
    /\ pump = [p \in Pumps |-> [at |-> "off", todo |-> <<>>]]
    /\ view = [i \in Ids |-> NoView] /\ log = <<>>

-----------------------------------------------------------------------------
Started(f) == id[f] # Period
EntriesOf(i)   == {n \in DOMAIN registry : registry[n].id = i}

\* Map.set: an id that is there keeps its place.
Registered(i, f) ==
    IF EntriesOf(i) = {} THEN Append(registry, [id |-> i, of |-> f])
                     ELSE [n \in DOMAIN registry |-> IF n \in EntriesOf(i) THEN [id |-> i, of |-> f] ELSE registry[n]]

\* pumpFanOuts begins with a copy of what is registered.
BeginsPump(p, entries) == pump' = [pump EXCEPT ![p] = [at |-> "enter", todo |-> entries]]

\* The first entry is dropped, where the pump's own copy began.
Dropped_First(entry) == IF registry = <<>> THEN <<>> ELSE Tail(registry)

\* Map.delete: of the id, whoever holds it now.
Dropped(entry) == LET held == EntriesOf(entry.id) IN
    IF held = {} THEN registry ELSE RemoveAt(registry, CHOOSE n \in held : TRUE)

\* startSweep and its kin: build, register, pump.
StartFanOut(f, p) ==
    /\ ~Started(f) /\ \A g \in 1 .. f - 1 : Started(g)
    /\ pump[p].at = "off"
    /\ LET i == clock % Period IN
         /\ id' = [id EXCEPT ![f] = i]
         /\ registry' = Registered(i, f)
    /\ \E some \in SUBSET {f} : bounded' = bounded \cup some
    /\ \E size \in 1 .. Members : waiting' = [waiting EXCEPT ![f] = size]
    /\ BeginsPump(p, registry')
    /\ UNCHANGED <<clock, backend, hostSwaps, listed, up, alive, entering, view, log>>

\* A tick, at its end; what it does before is module Monitor.
TickPumps(p) ==
    /\ pump[p].at = "off" /\ registry # <<>>
    /\ BeginsPump(p, registry)
    /\ UNCHANGED <<clock, backend, hostSwaps, listed, id, bounded, waiting, up, alive, entering, registry, view, log>>

\* The clock moves for good: it ends at Horizon only to keep the model finite.
ClockMoves ==
    /\ clock < Horizon
    /\ clock' = clock + 1
    /\ UNCHANGED <<backend, hostSwaps, listed, id, bounded, waiting, up, alive, entering, registry, pump, view, log>>

SwapBackend(b) ==
    /\ hostSwaps < MaxHostSwaps /\ b # backend
    /\ backend' = b /\ hostSwaps' = hostSwaps + 1
    /\ UNCHANGED <<clock, listed, id, bounded, waiting, up, alive, entering, registry, pump, view, log>>

\* refresh(), of a tick, a launch or the swap.
RefreshArrives ==
    /\ listed # backend /\ listed' = backend
    /\ UNCHANGED <<clock, backend, hostSwaps, id, bounded, waiting, up, alive, entering, registry, pump, view, log>>

\* External.
InstanceEnds(f, b) ==
    /\ alive[f][b] > 0
    /\ alive' = [alive EXCEPT ![f][b] = @ - 1]
    /\ UNCHANGED <<clock, backend, hostSwaps, listed, id, bounded, waiting, up, entering, registry, pump, view, log>>

-----------------------------------------------------------------------------
Entry(p) == Head(pump[p].todo)
PumpGoes(p, to) == pump' = [pump EXCEPT ![p].at = to]

\* FanOut.pump: at once back if it is entered already; else it records as completed what
\* the list does not show.
PumpEnters(p) ==
    /\ pump[p].at = "enter"
    /\ LET f == Entry(p).of IN
         IF f \in entering THEN PumpGoes(p, "emit") /\ UNCHANGED <<entering, up>>
         ELSE /\ entering' = entering \cup {f} /\ PumpGoes(p, "launch")
              /\ up' = [up EXCEPT ![f] = [b \in Hosts |-> IF b # listed THEN 0
                                          ELSE IF alive[f][b] < @[b] THEN alive[f][b] ELSE @[b]]]
    /\ UNCHANGED <<clock, backend, hostSwaps, listed, id, bounded, waiting, alive, registry, view, log>>

\* launch()'s guard, of the backend that is there now.
Guarded(f) == backend # "mock" /\ f \notin bounded

PumpLaunches(p) ==
    /\ pump[p].at = "launch" /\ waiting[Entry(p).of] > 0
    /\ LET f == Entry(p).of IN
         /\ waiting' = [waiting EXCEPT ![f] = @ - 1]
         /\ \/ ~Guarded(f) /\ up' = [up EXCEPT ![f][backend] = @ + 1]
                           /\ alive' = [alive EXCEPT ![f][backend] = @ + 1]
            \/ UNCHANGED <<up, alive>>      \* refused, or failed
    /\ UNCHANGED <<clock, backend, hostSwaps, listed, id, bounded, entering, registry, pump, view, log>>

\* The flag falls in a finally.
PumpLeaves(p) ==
    /\ pump[p].at = "launch" /\ waiting[Entry(p).of] = 0
    /\ entering' = entering \ {Entry(p).of} /\ PumpGoes(p, "emit")
    /\ UNCHANGED <<clock, backend, hostSwaps, listed, id, bounded, waiting, up, alive, registry, view, log>>

IsComplete(f) == waiting[f] = 0 /\ \A b \in Hosts : up[f][b] = 0

\* Dashboard.onFanOutEvent: the first sighting of an id, and its completion.
News(prev, f, done) ==
    IF prev = NoView THEN <<<<"started", f>>>>
    ELSE IF done /\ ~prev.done THEN <<<<"done", f>>>> ELSE <<>>

\* The event, and the end of what is complete.
PumpEmits(p) ==
    /\ pump[p].at = "emit"
    /\ LET e == Entry(p)
           done == IsComplete(e.of)
           rest == Tail(pump[p].todo)
       IN /\ log' = log \o News(view[e.id], e.of, done)
          /\ view' = [view EXCEPT ![e.id] = [of |-> e.of, done |-> done]]
          /\ registry' = IF done THEN Dropped(e) ELSE registry
          /\ pump' = [pump EXCEPT ![p] = [at |-> IF rest = <<>> THEN "off" ELSE "enter", todo |-> rest]]
    /\ UNCHANGED <<clock, backend, hostSwaps, listed, id, bounded, waiting, up, alive, entering>>

PumpStep(p) == PumpEnters(p) \/ PumpLaunches(p) \/ PumpLeaves(p) \/ PumpEmits(p)

RegistryNext ==
    \/ \E p \in Pumps : PumpStep(p) \/ TickPumps(p) \/ \E f \in FanOuts : StartFanOut(f, p)
    \/ ClockMoves \/ RefreshArrives
    \/ \E b \in Hosts : SwapBackend(b) \/ \E f \in FanOuts : InstanceEnds(f, b)

\* The timer keeps firing, calls are answered, workloads end.
RegistryFairness ==
    /\ \A p \in Pumps : WF_registryVars(PumpStep(p))
    /\ WF_registryVars(\E p \in Pumps : TickPumps(p))
    /\ WF_registryVars(RefreshArrives)
    /\ \A f \in FanOuts, b \in Hosts : WF_registryVars(InstanceEnds(f, b))

RegistrySpec == RegistryInit /\ [][RegistryNext]_registryVars /\ RegistryFairness
-----------------------------------------------------------------------------
\* The types of the variables; one entry an id.
RegistryTypeOK ==
    /\ clock \in 0 .. Horizon /\ {backend, listed} \subseteq Hosts /\ hostSwaps \in 0 .. MaxHostSwaps
    /\ id \in [FanOuts -> Ids \cup {Period}] /\ bounded \cup entering \subseteq FanOuts
    /\ waiting \in [FanOuts -> 0 .. Members]
    /\ up \in [FanOuts -> [Hosts -> 0 .. Members]] /\ alive \in [FanOuts -> [Hosts -> 0 .. Members]]
    /\ \A m, n \in DOMAIN registry : registry[m].id = registry[n].id => m = n
    /\ \A p \in Pumps : pump[p].at \in {"off", "enter", "launch", "emit"}

SharesId(f) == \E g \in FanOuts \ {f} : Started(g) /\ id[g] = id[f]

(***************************************************************************)
(* A fan-out that has members to launch or to watch is registered, and so  *)
(* pumped, unless another was given its id: then the later one replaces    *)
(* it, or the end of the earlier one drops the later (client.ts:275).      *)
(***************************************************************************)
LostOnlyBySharedId ==
    \A f \in FanOuts :
        Started(f) /\ ~IsComplete(f) /\ ~SharesId(f) => \E n \in DOMAIN registry : registry[n].of = f

(***************************************************************************)
(* No swap of the backend gets a member of a fan-out that has no bound     *)
(* onto a backend that bills (client.ts:437).                              *)
(***************************************************************************)
NothingUnboundedBills ==
    \A f \in FanOuts \ bounded : \A b \in Hosts \ {"mock"} : alive[f][b] = 0

(***************************************************************************)
(* Overlapping pumps report a completion more than once; it is logged      *)
(* once.                                                                   *)
(***************************************************************************)
LoggedOnce ==
    \A m, n \in DOMAIN log : log[m] = log[n] /\ m # n => SharesId(log[m][2])

(***************************************************************************)
(* Every fan-out with an id of its own ends, and its card says so: in the  *)
(* end this holds for good.                                                *)
(***************************************************************************)
EveryFanOutIsReported ==
    \A f \in FanOuts :
        Started(f) => SharesId(f) \/ \E i \in Ids : view[i] = [of |-> f, done |-> TRUE]

(***************************************************************************)
(* A fan-out is pumped until it is complete, its completion is logged      *)
(* once, and it launches nothing unbounded where that bills; only fan-outs *)
(* that share an id get into each other's way.                             *)
(***************************************************************************)
RegistryIsSound == RegistryTypeOK /\ LostOnlyBySharedId /\ NothingUnboundedBills /\ LoggedOnce
=============================================================================
