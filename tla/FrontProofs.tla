----------------------------- MODULE FrontProofs -----------------------------
(***************************************************************************)
(* Theorems about the client and its pages: the registry of fan-outs, for  *)
(* any number of fan-outs, members, pumps under way at once, swaps and     *)
(* backends; the gestures, dialogs and picker of the dashboard and the     *)
(* terminal; extensions at once, for any number of them; and what is       *)
(* typed: at the doors of a launch, as a command line, as a duration, as   *)
(* the specification of a sweep.                                           *)
(***************************************************************************)
EXTENDS MCFront, SweepProofs, SequenceTheorems, FiniteSetTheorems, WellFoundedInduction, TLAPS

USE RegistryConstants

-----------------------------------------------------------------------------
(***************************************************************************)
(* The registry.  An id, once derived, stands; so what is registered, what *)
(* a pump goes through, and what is shown and logged keep to it.  A        *)
(* fan-out that is complete stays so.                                      *)
(***************************************************************************)
Entries == [id : Ids, of : FanOuts]

Fits(e) == Started(e.of) /\ e.id = id[e.of]

CountsOK ==
    /\ waiting \in [FanOuts -> 0 .. Members]
    /\ up \in [FanOuts -> [Hosts -> 0 .. Members]] /\ alive \in [FanOuts -> [Hosts -> 0 .. Members]]
    /\ \A f \in FanOuts, b \in Hosts :
         /\ up[f][b] + waiting[f] <= Members /\ alive[f][b] + waiting[f] <= Members
         /\ ~Started(f) => waiting[f] = 0 /\ up[f][b] = 0 /\ alive[f][b] = 0
    /\ NothingUnboundedBills

HostsOK ==
    /\ clock \in 0 .. Horizon /\ {backend, listed} \subseteq Hosts /\ hostSwaps \in 0 .. MaxHostSwaps
    /\ id \in [FanOuts -> Ids \cup {Period}] /\ bounded \cup entering \subseteq FanOuts

EntriesOK ==
    /\ registry \in Seq(Entries)
    /\ \A n \in DOMAIN registry : Fits(registry[n])
    /\ \A m, n \in DOMAIN registry : registry[m].id = registry[n].id => m = n
    /\ LostOnlyBySharedId

PumpsOK ==
    /\ pump \in [Pumps -> [at : {"off", "enter", "launch", "emit"}, todo : Seq(Entries)]]
    /\ \A p \in Pumps :
         /\ pump[p].at # "off" => pump[p].todo # <<>>
         /\ \A n \in DOMAIN pump[p].todo : Fits(pump[p].todo[n])

ShownOK ==
    /\ view \in [Ids -> [of : 0 .. MaxStarts, done : BOOLEAN]]
    /\ \A i \in Ids : view[i] # NoView =>
         /\ view[i].of \in FanOuts /\ Started(view[i].of) /\ id[view[i].of] = i
         /\ view[i].done => IsComplete(view[i].of)

LoggedOK ==
    /\ log \in Seq({"started", "done"} \X FanOuts)
    /\ \A n \in DOMAIN log : LET f == log[n][2] IN
         /\ Started(f) /\ view[id[f]] # NoView
         /\ log[n][1] = "done" /\ ~SharesId(f) => view[id[f]] = [of |-> f, done |-> TRUE]
    /\ LoggedOnce

RegistryInv == CountsOK /\ HostsOK /\ EntriesOK /\ PumpsOK /\ ShownOK /\ LoggedOK

\* Ids are not numbers of their own, and no fan-out is number 0.
LEMMA RegistrySets == FanOuts \subseteq Nat \ {0} /\ Ids \subseteq Nat /\ Period \notin Ids
BY DEF FanOuts, Ids

\* At the start nothing is registered.
LEMMA RegistryStarts == RegistryInit => RegistryInv
<1> SUFFICES ASSUME RegistryInit PROVE RegistryInv
  OBVIOUS
<1> USE DEF RegistryInit
<1>1. CountsOK
  BY DEF CountsOK, NothingUnboundedBills
<1>2. HostsOK
  BY DEF HostsOK
<1>3. EntriesOK
  BY DEF EntriesOK, LostOnlyBySharedId, Started
<1>4. PumpsOK
  BY DEF PumpsOK
<1>5. ShownOK
  BY DEF ShownOK, NoView
<1>6. LoggedOK
  BY DEF LoggedOK, LoggedOnce
<1>7. QED
  BY <1>1, <1>2, <1>3, <1>4, <1>5, <1>6 DEF RegistryInv

\* Ids stand, and what is complete stays complete.
Stand ==
    /\ \A f \in FanOuts : Started(f) => id'[f] = id[f] /\ (IsComplete(f) => IsComplete(f)')

\* Whoever shares an id goes on sharing it.
LEMMA SharedForGood == ASSUME HostsOK, Stand, NEW f \in FanOuts, Started(f), SharesId(f)
  PROVE SharesId(f)' /\ Started(f)'
BY DEF SharesId, Stand, Started

\* What fits goes on fitting.
LEMMA FitsForGood == ASSUME HostsOK, Stand, NEW e \in Entries, Fits(e)
  PROVE id'[e.of] # Period /\ e.id = id'[e.of]
BY DEF Fits, Stand, Started, Entries

\* Where nothing is registered or dropped, what must be registered still is.
LEMMA EntriesRest == ASSUME HostsOK, EntriesOK, Stand, UNCHANGED <<registry, id>> PROVE EntriesOK'
<1>1. \A n \in DOMAIN registry : Fits(registry[n])'
  BY FitsForGood DEF EntriesOK, Fits, Started
<1>2. LostOnlyBySharedId'
  <2> SUFFICES ASSUME NEW f \in FanOuts, Started(f)', ~IsComplete(f)', ~SharesId(f)'
               PROVE \E n \in DOMAIN registry' : registry'[n].of = f
    BY DEF LostOnlyBySharedId
  <2>1. Started(f)
    BY DEF Started
  <2>2. ~IsComplete(f)
    BY <2>1 DEF Stand
  <2>3. ~SharesId(f)
    BY <2>1, SharedForGood
  <2>4. QED
    BY <2>1, <2>2, <2>3 DEF EntriesOK, LostOnlyBySharedId
<1>3. QED
  BY <1>1, <1>2 DEF EntriesOK

\* Where no pump's list changes, its entries still fit.
LEMMA PumpsRest ==
  ASSUME HostsOK, PumpsOK, Stand, NEW p \in Pumps, NEW to \in {"off", "enter", "launch", "emit"},
         pump' = [pump EXCEPT ![p].at = to] \/ UNCHANGED pump, pump[p].at # "off"
  PROVE PumpsOK'
<1>1. pump' \in [Pumps -> [at : {"off", "enter", "launch", "emit"}, todo : Seq(Entries)]]
  BY DEF PumpsOK
<1>2. ASSUME NEW q \in Pumps PROVE pump'[q].todo = pump[q].todo /\ (pump'[q].at # "off" => pump[q].at # "off")
  <2>1. CASE UNCHANGED pump
    BY <2>1
  <2>2. CASE pump' = [pump EXCEPT ![p].at = to]
    <3>1. CASE q = p
      BY <2>2, <3>1 DEF PumpsOK
    <3>2. CASE q # p
      BY <2>2, <3>2 DEF PumpsOK
    <3>3. QED
      BY <3>1, <3>2
  <2>3. QED
    BY <2>1, <2>2
<1>3. ASSUME NEW q \in Pumps, NEW n \in DOMAIN pump'[q].todo PROVE Fits(pump[q].todo[n])'
  <2> DEFINE e == pump'[q].todo[n]
  <2>1. pump[q].todo \in Seq(Entries) /\ n \in DOMAIN pump[q].todo /\ e = pump[q].todo[n] /\ Fits(e)
    BY <1>2 DEF PumpsOK
  <2>2. e \in Entries
    BY <2>1
  <2> HIDE DEF e
  <2>3. id'[e.of] # Period /\ e.id = id'[e.of]
    BY <2>1, <2>2, FitsForGood
  <2>4. QED
    BY <2>3 DEF Fits, Started, e
<1>4. QED
  BY <1>1, <1>2, <1>3 DEF PumpsOK
\* What is shown of what goes on standing still is so.
LEMMA ShownRests == ASSUME HostsOK, ShownOK, Stand, UNCHANGED view PROVE ShownOK'
BY DEF ShownOK, Stand, Started, NoView

\* So is what was logged.
LEMMA LoggedRests == ASSUME HostsOK, LoggedOK, Stand, UNCHANGED <<view, log>> PROVE LoggedOK'
<1>1. log \in Seq({"started", "done"} \X FanOuts)
  BY DEF LoggedOK
<1>2. ASSUME NEW n \in DOMAIN log PROVE log[n][2] \in FanOuts /\ Started(log[n][2])
  <2>1. log[n] \in {"started", "done"} \X FanOuts
    BY <1>1
  <2>2. QED
    BY <2>1 DEF LoggedOK
<1>3. ASSUME NEW n \in DOMAIN log, SharesId(log[n][2]) PROVE SharesId(log[n][2])'
  BY <1>2, <1>3, SharedForGood
<1>4. ASSUME NEW n \in DOMAIN log
      PROVE LET f == log[n][2] IN
            /\ Started(f)' /\ view'[id'[f]] # NoView
            /\ log[n][1] = "done" /\ ~SharesId(f)' => view'[id'[f]] = [of |-> f, done |-> TRUE]
  <2> DEFINE f == log[n][2]
  <2>1. f \in FanOuts /\ Started(f)
    BY <1>2
  <2>2. Started(f)' /\ id'[f] = id[f]
    BY <2>1 DEF Stand, Started
  <2>3. view[id[f]] # NoView /\ (log[n][1] = "done" /\ ~SharesId(f) => view[id[f]] = [of |-> f, done |-> TRUE])
    BY DEF LoggedOK
  <2>4. SharesId(f) => SharesId(f)'
    BY <1>3
  <2> HIDE DEF f
  <2>5. /\ Started(f)' /\ view'[id'[f]] # NoView
        /\ log[n][1] = "done" /\ ~SharesId(f)' => view'[id'[f]] = [of |-> f, done |-> TRUE]
    BY <2>2, <2>3, <2>4
  <2>6. QED
    BY <2>5 DEF f
<1>5. LoggedOnce'
  BY <1>3 DEF LoggedOK, LoggedOnce
<1>6. QED
  BY <1>1, <1>4, <1>5 DEF LoggedOK, NoView

\* What a pump is at is an entry.
LEMMA EntryFits == ASSUME HostsOK, PumpsOK, NEW p \in Pumps, pump[p].at # "off"
  PROVE Entry(p) \in Entries /\ Entry(p).of \in FanOuts /\ Started(Entry(p).of) /\ Entry(p).id = id[Entry(p).of]
<1> DEFINE s == pump[p].todo
<1>1. s \in Seq(Entries) /\ s # <<>> /\ \A n \in DOMAIN s : Fits(s[n])
  BY DEF PumpsOK
<1> HIDE DEF s
<1>2. Head(s) = s[1] /\ 1 \in DOMAIN s /\ s[1] \in Entries
  BY <1>1
<1>3. Fits(s[1])
  BY <1>1, <1>2
<1>4. Entry(p) = s[1]
  BY <1>2 DEF Entry, s
<1>5. QED
  BY <1>2, <1>3, <1>4 DEF Fits, Entries

\* Steps that leave ids and members alone.
LEMMA NothingMoves ==
  ASSUME UNCHANGED <<id, waiting, up>> PROVE Stand
BY DEF Stand, IsComplete

\* A step that leaves id, members and registry alone.
LEMMA QuietSteps ==
  ASSUME RegistryInv,
         \/ ClockMoves \/ RefreshArrives \/ \E b \in Hosts : SwapBackend(b)
         \/ UNCHANGED registryVars
  PROVE RegistryInv'
<1>1. UNCHANGED <<id, bounded, waiting, up, alive, entering, registry, pump, view, log>>
  BY DEF ClockMoves, RefreshArrives, SwapBackend, registryVars
<1>2. CountsOK' /\ PumpsOK' /\ ShownOK' /\ LoggedOK' /\ EntriesOK'
  <2>1. Stand
    BY <1>1, NothingMoves
  <2>2. EntriesOK'
    BY <1>1, <2>1, EntriesRest DEF RegistryInv
  <2>3. ShownOK'
    BY <1>1, <2>1, ShownRests DEF RegistryInv
  <2>4. LoggedOK'
    BY <1>1, <2>1, LoggedRests DEF RegistryInv
  <2>5. CountsOK'
    BY <1>1 DEF RegistryInv, CountsOK, NothingUnboundedBills, Started
  <2>6. PumpsOK'
    BY <1>1 DEF RegistryInv, PumpsOK, Fits, Started
  <2>7. QED
    BY <2>2, <2>3, <2>4, <2>5, <2>6
<1>3. HostsOK'
  BY DEF ClockMoves, RefreshArrives, SwapBackend, registryVars, RegistryInv, HostsOK
<1>4. QED
  BY <1>2, <1>3 DEF RegistryInv

\* An instance that ends leaves its fan-out one fewer that is alive.
LEMMA InstanceEndsKeeps ==
  ASSUME RegistryInv, NEW f \in FanOuts, NEW b \in Hosts, InstanceEnds(f, b) PROVE RegistryInv'
<1> USE DEF InstanceEnds
<1>1. Stand
  BY NothingMoves
<1>2. EntriesOK' /\ ShownOK' /\ LoggedOK'
  BY <1>1, EntriesRest, ShownRests, LoggedRests DEF RegistryInv
<1>3. PumpsOK'
  BY DEF RegistryInv, PumpsOK, Fits, Started
<1>4. HostsOK'
  BY DEF RegistryInv, HostsOK
<1>5. CountsOK'
  <2>1. alive \in [FanOuts -> [Hosts -> 0 .. Members]] /\ alive[f][b] \in 0 .. Members /\ alive[f][b] > 0
    BY DEF RegistryInv, CountsOK
  <2>2. \A g \in FanOuts, h \in Hosts :
          alive'[g][h] = IF g = f /\ h = b THEN alive[f][b] - 1 ELSE alive[g][h]
    BY <2>1
  <2>3. alive' \in [FanOuts -> [Hosts -> 0 .. Members]]
    BY <2>1
  <2>4. ASSUME NEW g \in FanOuts, NEW h \in Hosts PROVE alive'[g][h] \in 0 .. alive[g][h]
    BY <2>1, <2>2
  <2>5. \A g \in FanOuts, h \in Hosts :
          alive[g][h] + waiting[g] <= Members /\ alive[g][h] \in Nat /\ waiting[g] \in Nat
    BY <2>1 DEF RegistryInv, CountsOK
  <2>6. \A g \in FanOuts, h \in Hosts : alive'[g][h] + waiting[g] <= Members
    BY <2>4, <2>5
  <2>7. \A g \in FanOuts, h \in Hosts : alive[g][h] = 0 => alive'[g][h] = 0
    BY <2>4
  <2>8. QED
    BY <2>3, <2>6, <2>7 DEF RegistryInv, CountsOK, NothingUnboundedBills, Started
<1>6. QED
  BY <1>2, <1>3, <1>4, <1>5 DEF RegistryInv
\* A tick goes through a copy of the registry.
LEMMA TickKeeps == ASSUME RegistryInv, NEW p \in Pumps, TickPumps(p) PROVE RegistryInv'
<1> USE DEF TickPumps, BeginsPump
<1>1. Stand
  BY NothingMoves
<1>2. EntriesOK' /\ ShownOK' /\ LoggedOK'
  BY <1>1, EntriesRest, ShownRests, LoggedRests DEF RegistryInv
<1>3. HostsOK'
  BY DEF RegistryInv, HostsOK
<1>4. CountsOK'
  BY DEF RegistryInv, CountsOK, NothingUnboundedBills, Started
<1>5. PumpsOK'
  <2>1. registry \in Seq(Entries) /\ registry # <<>> /\ \A n \in DOMAIN registry : Fits(registry[n])
    BY DEF RegistryInv, EntriesOK
  <2>2. pump' \in [Pumps -> [at : {"off", "enter", "launch", "emit"}, todo : Seq(Entries)]]
    BY <2>1 DEF RegistryInv, PumpsOK
  <2>3. ASSUME NEW q \in Pumps
        PROVE /\ pump'[q].at # "off" => pump'[q].todo # <<>>
              /\ \A n \in DOMAIN pump'[q].todo : Fits(pump'[q].todo[n])
    <3>1. CASE q = p
      <4>1. pump'[q] = [at |-> "enter", todo |-> registry]
        BY <3>1 DEF RegistryInv, PumpsOK
      <4>2. QED
        BY <2>1, <4>1
    <3>2. CASE q # p
      <4>1. pump'[q] = pump[q]
        BY <3>2 DEF RegistryInv, PumpsOK
      <4>2. QED
        BY <4>1 DEF RegistryInv, PumpsOK
    <3>3. QED
      BY <3>1, <3>2
  <2>4. QED
    BY <2>2, <2>3 DEF PumpsOK, Fits, Started
<1>6. QED
  BY <1>2, <1>3, <1>4, <1>5 DEF RegistryInv

\* Entering a fan-out, its members are only taken off, and only as far as there are any.
LEMMA EnterKeeps == ASSUME RegistryInv, NEW p \in Pumps, PumpEnters(p) PROVE RegistryInv'
<1> DEFINE f == Entry(p).of
<1>1. pump[p].at = "enter" /\ UNCHANGED <<clock, backend, hostSwaps, listed, id, bounded, waiting, alive, registry, view, log>>
  BY DEF PumpEnters
<1>2. f \in FanOuts /\ Started(f)
  BY <1>1, EntryFits DEF RegistryInv
<1>3. PICK to \in {"emit", "launch"} : pump' = [pump EXCEPT ![p].at = to]
  BY DEF PumpEnters, PumpGoes
<1>4. entering' \subseteq FanOuts
  BY <1>2 DEF PumpEnters, RegistryInv, HostsOK
<1>5. /\ up' \in [FanOuts -> [Hosts -> 0 .. Members]]
      /\ \A g \in FanOuts, b \in Hosts : up'[g][b] <= up[g][b]
  <2>1. up \in [FanOuts -> [Hosts -> 0 .. Members]] /\ alive \in [FanOuts -> [Hosts -> 0 .. Members]]
    BY DEF RegistryInv, CountsOK
  <2>2. CASE UNCHANGED up
    BY <2>1, <2>2
  <2>3. CASE up' = [up EXCEPT ![f] = [b \in Hosts |-> IF b # listed THEN 0
                                       ELSE IF alive[f][b] < @[b] THEN alive[f][b] ELSE @[b]]]
    <3>1. ASSUME NEW g \in FanOuts, g # f PROVE up'[g] = up[g]
      BY <2>1, <2>3, <3>1
    <3>2. up'[f] = [b \in Hosts |-> IF b # listed THEN 0
                      ELSE IF alive[f][b] < up[f][b] THEN alive[f][b] ELSE up[f][b]]
      BY <1>2, <2>1, <2>3
    <3>3. \A b \in Hosts : up[f][b] \in 0 .. Members /\ alive[f][b] \in 0 .. Members
      BY <1>2, <2>1
    <3> HIDE DEF f
    <3>4. ASSUME NEW b \in Hosts PROVE up'[f][b] \in 0 .. Members /\ up'[f][b] <= up[f][b]
      BY <3>2, <3>3
    <3>5. up'[f] \in [Hosts -> 0 .. Members]
      BY <3>2, <3>3
    <3>6. up' \in [FanOuts -> [Hosts -> 0 .. Members]]
      <4>1. DOMAIN up' = FanOuts /\ up' = [g \in FanOuts |-> up'[g]]
        BY <2>1, <2>3
      <4>2. \A g \in FanOuts : up'[g] \in [Hosts -> 0 .. Members]
        BY <2>1, <3>1, <3>5
      <4>3. QED
        BY <4>1, <4>2
    <3>7. ASSUME NEW g \in FanOuts, NEW b \in Hosts PROVE up'[g][b] <= up[g][b]
      <4>1. CASE g = f
        BY <3>4, <4>1
      <4>2. CASE g # f
        BY <2>1, <3>1, <4>2
      <4>3. QED
        BY <4>1, <4>2
    <3>8. QED
      BY <3>6, <3>7
  <2>4. QED
    BY <2>2, <2>3 DEF PumpEnters
<1> HIDE DEF f
<1>6. \A g \in FanOuts, b \in Hosts : up[g][b] \in Nat /\ up'[g][b] \in Nat /\ waiting[g] \in Nat
  BY <1>5 DEF RegistryInv, CountsOK
<1>7. Stand
  <2>1. \A g \in FanOuts, b \in Hosts : up[g][b] = 0 => up'[g][b] = 0
    BY <1>5, <1>6
  <2>2. QED
    BY <1>1, <2>1 DEF Stand, IsComplete
<1>8. EntriesOK' /\ ShownOK' /\ LoggedOK'
  BY <1>1, <1>7, EntriesRest, ShownRests, LoggedRests DEF RegistryInv
<1>9. PumpsOK'
  <2>1. to \in {"off", "enter", "launch", "emit"} /\ pump[p].at # "off"
    BY <1>1
  <2>2. QED
    BY <1>3, <1>7, <2>1, PumpsRest DEF RegistryInv
<1>10. HostsOK'
  BY <1>1, <1>4 DEF RegistryInv, HostsOK
<1>11. CountsOK'
  <2>1. \A g \in FanOuts, b \in Hosts : up[g][b] + waiting[g] <= Members
    BY DEF RegistryInv, CountsOK
  <2>2. \A g \in FanOuts, b \in Hosts : up'[g][b] + waiting[g] <= Members /\ (up[g][b] = 0 => up'[g][b] = 0)
    BY <1>5, <1>6, <2>1
  <2>3. QED
    BY <1>1, <1>5, <2>2 DEF RegistryInv, CountsOK, NothingUnboundedBills, Started
<1>12. QED
  BY <1>8, <1>9, <1>10, <1>11 DEF RegistryInv

\* Leaving it, nothing else moves.
LEMMA LeaveKeeps == ASSUME RegistryInv, NEW p \in Pumps, PumpLeaves(p) PROVE RegistryInv'
<1>1. /\ pump[p].at = "launch" /\ pump' = [pump EXCEPT ![p].at = "emit"] /\ entering' \subseteq entering
      /\ UNCHANGED <<clock, backend, hostSwaps, listed, id, bounded, waiting, up, alive, registry, view, log>>
  BY DEF PumpLeaves, PumpGoes
<1>2. Stand
  BY <1>1, NothingMoves
<1>3. EntriesOK' /\ ShownOK' /\ LoggedOK'
  BY <1>1, <1>2, EntriesRest, ShownRests, LoggedRests DEF RegistryInv
<1>4. PumpsOK'
  <2>1. "emit" \in {"off", "enter", "launch", "emit"} /\ pump[p].at # "off"
    BY <1>1
  <2>2. QED
    BY <1>1, <1>2, <2>1, PumpsRest DEF RegistryInv
<1>5. HostsOK'
  BY <1>1 DEF RegistryInv, HostsOK
<1>6. CountsOK'
  BY <1>1 DEF RegistryInv, CountsOK, NothingUnboundedBills, Started
<1>7. QED
  BY <1>3, <1>4, <1>5, <1>6 DEF RegistryInv

\* One more of what there is room for.
LEMMA OneMoreFits ==
  ASSUME NEW F \in [FanOuts -> [Hosts -> 0 .. Members]], NEW f \in FanOuts, NEW b \in Hosts,
         F[f][b] + 1 \in 0 .. Members
  PROVE [F EXCEPT ![f][b] = @ + 1] \in [FanOuts -> [Hosts -> 0 .. Members]]
<1> DEFINE G == [F EXCEPT ![f][b] = @ + 1]
<1>1. G[f] \in [Hosts -> 0 .. Members]
  <2>1. F[f] \in [Hosts -> 0 .. Members] /\ G[f] = [F[f] EXCEPT ![b] = F[f][b] + 1]
    OBVIOUS
  <2> HIDE DEF G
  <2>2. QED
    BY <2>1
<1>2. \A g \in FanOuts : g # f => G[g] \in [Hosts -> 0 .. Members]
  OBVIOUS
<1>3. G = [g \in FanOuts |-> G[g]]
  OBVIOUS
<1> HIDE DEF G
<1>4. G \in [FanOuts -> [Hosts -> 0 .. Members]]
  BY <1>1, <1>2, <1>3
<1>5. QED
  BY <1>4 DEF G

\* A member that is launched was waiting: it is there once.
LEMMA LaunchKeeps == ASSUME RegistryInv, NEW p \in Pumps, PumpLaunches(p) PROVE RegistryInv'
<1> DEFINE f == Entry(p).of
<1>1. /\ pump[p].at = "launch" /\ waiting[f] > 0 /\ waiting' = [waiting EXCEPT ![f] = @ - 1]
      /\ UNCHANGED <<clock, backend, hostSwaps, listed, id, bounded, entering, registry, pump, view, log>>
  BY DEF PumpLaunches
<1>2. f \in FanOuts /\ Started(f) /\ backend \in Hosts
  BY <1>1, EntryFits DEF RegistryInv, HostsOK
<1>3. \/ /\ ~Guarded(f)
         /\ up' = [up EXCEPT ![f][backend] = @ + 1] /\ alive' = [alive EXCEPT ![f][backend] = @ + 1]
      \/ UNCHANGED <<up, alive>>
  BY DEF PumpLaunches
<1> HIDE DEF f
<1>4. /\ waiting \in [FanOuts -> 0 .. Members]
      /\ up \in [FanOuts -> [Hosts -> 0 .. Members]] /\ alive \in [FanOuts -> [Hosts -> 0 .. Members]]
      /\ \A g \in FanOuts, b \in Hosts :
           up[g][b] + waiting[g] <= Members /\ alive[g][b] + waiting[g] <= Members
  BY DEF RegistryInv, CountsOK
<1>5. /\ waiting' \in [FanOuts -> 0 .. Members] /\ waiting'[f] = waiting[f] - 1 /\ waiting[f] \in 1 .. Members
      /\ \A g \in FanOuts : g # f => waiting'[g] = waiting[g]
  BY <1>1, <1>2, <1>4
<1>6. up[f][backend] + 1 \in 0 .. Members /\ alive[f][backend] + 1 \in 0 .. Members
  <2>1. up[f][backend] \in 0 .. Members /\ alive[f][backend] \in 0 .. Members
    BY <1>2, <1>4
  <2>2. up[f][backend] + waiting[f] <= Members /\ alive[f][backend] + waiting[f] <= Members
    BY <1>2, <1>4
  <2>3. QED
    BY <1>5, <2>1, <2>2
<1>7. up' \in [FanOuts -> [Hosts -> 0 .. Members]] /\ alive' \in [FanOuts -> [Hosts -> 0 .. Members]]
  <2>1. /\ [up EXCEPT ![f][backend] = @ + 1] \in [FanOuts -> [Hosts -> 0 .. Members]]
        /\ [alive EXCEPT ![f][backend] = @ + 1] \in [FanOuts -> [Hosts -> 0 .. Members]]
    BY <1>2, <1>4, <1>6, OneMoreFits
  <2>2. QED
    BY <1>3, <1>4, <2>1
<1>8. ASSUME NEW g \in FanOuts, NEW b \in Hosts
      PROVE /\ up'[g][b] = up[g][b] \/ (g = f /\ b = backend /\ ~Guarded(f) /\ up'[g][b] = up[g][b] + 1)
            /\ alive'[g][b] = alive[g][b] \/ (g = f /\ b = backend /\ ~Guarded(f) /\ alive'[g][b] = alive[g][b] + 1)
  BY <1>2, <1>3, <1>4
<1>9. ASSUME NEW g \in FanOuts, NEW b \in Hosts
      PROVE up'[g][b] + waiting'[g] <= Members /\ alive'[g][b] + waiting'[g] <= Members
  <2>1. /\ up[g][b] \in Nat /\ alive[g][b] \in Nat /\ waiting[g] \in Nat
        /\ up[g][b] + waiting[g] <= Members /\ alive[g][b] + waiting[g] <= Members
    BY <1>4
  <2>2. CASE g = f
    <3>1. waiting'[g] = waiting[g] - 1
      BY <1>5, <2>2
    <3>2. up'[g][b] \in {up[g][b], up[g][b] + 1} /\ alive'[g][b] \in {alive[g][b], alive[g][b] + 1}
      BY <1>8
    <3>3. QED
      BY <2>1, <3>1, <3>2
  <2>3. CASE g # f
    <3>1. waiting'[g] = waiting[g] /\ up'[g][b] = up[g][b] /\ alive'[g][b] = alive[g][b]
      BY <1>5, <1>8, <2>3
    <3>2. QED
      BY <2>1, <3>1
  <2>4. QED
    BY <2>2, <2>3
<1>10. ASSUME NEW g \in FanOuts, g # f PROVE waiting'[g] = waiting[g] /\ \A b \in Hosts : up'[g][b] = up[g][b] /\ alive'[g][b] = alive[g][b]
  BY <1>5, <1>8, <1>10
<1>11. Stand
  <2>1. ASSUME NEW g \in FanOuts, IsComplete(g) PROVE IsComplete(g)'
    <3>1. g # f
      BY <1>1, <1>5, <2>1 DEF IsComplete
    <3>2. QED
      BY <1>10, <2>1, <3>1 DEF IsComplete
  <2>2. QED
    BY <1>1, <2>1 DEF Stand
<1>12. NothingUnboundedBills'
  <2> SUFFICES ASSUME NEW g \in FanOuts \ bounded, NEW b \in Hosts \ {"mock"} PROVE alive'[g][b] = 0
    BY <1>1 DEF NothingUnboundedBills
  <2>1. alive[g][b] = 0
    BY DEF RegistryInv, CountsOK, NothingUnboundedBills
  <2>2. ~(g = f /\ b = backend /\ ~Guarded(f))
    BY DEF Guarded
  <2>3. QED
    BY <1>8, <2>1, <2>2
<1>13. ASSUME NEW g \in FanOuts, NEW b \in Hosts, ~Started(g)' PROVE waiting'[g] = 0 /\ up'[g][b] = 0 /\ alive'[g][b] = 0
  <2>1. ~Started(g) /\ g # f
    BY <1>1, <1>2, <1>13 DEF Started
  <2>2. QED
    BY <1>10, <2>1 DEF RegistryInv, CountsOK
<1>14. CountsOK'
  BY <1>5, <1>7, <1>9, <1>12, <1>13 DEF CountsOK
<1>15. EntriesOK' /\ ShownOK' /\ LoggedOK'
  BY <1>1, <1>11, EntriesRest, ShownRests, LoggedRests DEF RegistryInv
<1>16. PumpsOK'
  BY <1>1 DEF RegistryInv, PumpsOK, Fits, Started
<1>17. HostsOK'
  BY <1>1 DEF RegistryInv, HostsOK
<1>18. QED
  BY <1>14, <1>15, <1>16, <1>17 DEF RegistryInv

\* What registering a fan-out does: its entry is there once, and no other id's is touched.
LEMMA RegisteredEntry ==
  ASSUME EntriesOK, NEW i \in Ids, NEW f \in FanOuts
  PROVE LET t == Registered(i, f)
            fresh == [id |-> i, of |-> f]
        IN /\ t \in Seq(Entries)
           /\ \A n \in DOMAIN registry : n \in DOMAIN t /\ (registry[n].id # i => t[n] = registry[n])
           /\ \A n \in DOMAIN t : t[n] = fresh \/ (n \in DOMAIN registry /\ registry[n].id # i /\ t[n] = registry[n])
           /\ \E n \in DOMAIN t : t[n] = fresh
           /\ \A m, n \in DOMAIN t : t[m] = fresh /\ t[n] = fresh => m = n
<1> DEFINE t == Registered(i, f)
           fresh == [id |-> i, of |-> f]
           Held(n) == registry[n].id = i
<1>1. registry \in Seq(Entries) /\ \A m, n \in DOMAIN registry : registry[m].id = registry[n].id => m = n
  BY DEF EntriesOK
<1>2. fresh \in Entries /\ fresh.id = i
  BY DEF Entries
<1> DEFINE len == Len(registry)
<1>3. len \in Nat /\ DOMAIN registry = 1 .. len /\ \A n \in 1 .. len : registry[n] \in Entries
  BY <1>1
<1>4. CASE EntriesOf(i) = {}
  <2>1. t = Append(registry, fresh)
    BY <1>4 DEF Registered
  <2>2. \A n \in DOMAIN registry : ~Held(n)
    BY <1>4 DEF EntriesOf
  <2> HIDE DEF t, fresh
  <2>3. t \in Seq(Entries) /\ Len(t) = len + 1 /\ DOMAIN t = 1 .. len + 1
        /\ (\A n \in 1 .. len : t[n] = registry[n]) /\ t[len + 1] = fresh
    BY <1>1, <1>2, <2>1
  <2>4. \A n \in 1 .. len : registry[n] # fresh
    BY <1>2, <1>3, <2>2
  <2> HIDE DEF len
  <2>5. \A n \in 1 .. len + 1 : n = len + 1 \/ n \in 1 .. len
    BY <1>3
  <2>6. len + 1 \in 1 .. len + 1 /\ \A n \in 1 .. len : n \in 1 .. len + 1
    BY <1>3
  <2>7. QED
    BY <1>3, <2>2, <2>3, <2>4, <2>5, <2>6 DEF t, fresh
<1>5. CASE EntriesOf(i) # {}
  <2>1. t = [n \in DOMAIN registry |-> IF Held(n) THEN fresh ELSE registry[n]]
    BY <1>5 DEF Registered, EntriesOf
  <2>2. \E n \in DOMAIN registry : Held(n)
    BY <1>5 DEF EntriesOf
  <2> HIDE DEF t, fresh
  <2>3. DOMAIN t = 1 .. len /\ t \in [1 .. len -> Entries]
    BY <1>2, <1>3, <2>1
  <2>4. t \in Seq(Entries)
    BY <1>3, <2>3
  <2>5. \A n \in DOMAIN t : t[n] = fresh => Held(n)
    BY <1>2, <1>3, <2>1
  <2>6. QED
    BY <1>1, <2>1, <2>2, <2>3, <2>4, <2>5, <1>3 DEF t, fresh
<1>6. QED
  BY <1>4, <1>5

\* Starting one: what was registered before is, but for the id it takes.
LEMMA StartKeeps == ASSUME RegistryInv, NEW f \in FanOuts, NEW p \in Pumps, StartFanOut(f, p) PROVE RegistryInv'
<1> DEFINE i == clock % Period
           fresh == [id |-> i, of |-> f]
<1>1. /\ ~Started(f) /\ pump[p].at = "off" /\ id' = [id EXCEPT ![f] = i] /\ registry' = Registered(i, f)
      /\ pump' = [pump EXCEPT ![p] = [at |-> "enter", todo |-> registry']]
      /\ UNCHANGED <<clock, backend, hostSwaps, listed, up, alive, entering, view, log>>
  BY DEF StartFanOut, BeginsPump
<1>2. PICK size \in 1 .. Members : waiting' = [waiting EXCEPT ![f] = size]
  BY DEF StartFanOut
<1>3. bounded \subseteq bounded' /\ bounded' \subseteq FanOuts
  BY DEF StartFanOut, RegistryInv, HostsOK
<1>4. i \in Ids /\ i # Period
  <2>1. clock \in Nat /\ Period \in Nat /\ Period > 0
    BY DEF RegistryInv, HostsOK
  <2>2. i \in 0 .. Period - 1
    BY <2>1
  <2>3. QED
    BY <2>2, RegistrySets DEF Ids
<1> HIDE DEF i
<1>5. /\ id' \in [FanOuts -> Ids \cup {Period}] /\ id'[f] = i
      /\ \A g \in FanOuts : g # f => id'[g] = id[g]
  BY <1>1, <1>4 DEF RegistryInv, HostsOK
<1>6. \A g \in FanOuts : Started(g) => g # f
  BY <1>1
<1>7. /\ waiting' \in [FanOuts -> 0 .. Members] /\ waiting'[f] = size
      /\ \A g \in FanOuts : g # f => waiting'[g] = waiting[g]
  BY <1>2 DEF RegistryInv, CountsOK
<1>8. Stand
  BY <1>1, <1>5, <1>6, <1>7 DEF Stand, IsComplete
<1>9. ShownOK' /\ LoggedOK'
  BY <1>1, <1>8, ShownRests, LoggedRests DEF RegistryInv
<1>10. HostsOK'
  BY <1>1, <1>3, <1>5 DEF RegistryInv, HostsOK
<1>11. CountsOK'
  <2>1. ASSUME NEW g \in FanOuts, NEW b \in Hosts
        PROVE /\ up[g][b] + waiting'[g] <= Members /\ alive[g][b] + waiting'[g] <= Members
              /\ ~Started(g)' => waiting'[g] = 0 /\ up[g][b] = 0 /\ alive[g][b] = 0
    <3>1. CASE g = f
      <4>1. up[g][b] = 0 /\ alive[g][b] = 0
        BY <1>1, <3>1 DEF RegistryInv, CountsOK
      <4>2. waiting'[g] \in 0 .. Members /\ Started(g)'
        BY <1>4, <1>5, <1>7, <3>1 DEF Started
      <4>3. QED
        BY <4>1, <4>2
    <3>2. CASE g # f
      BY <1>5, <1>7, <3>2 DEF RegistryInv, CountsOK, Started
    <3>3. QED
      BY <3>1, <3>2
  <2>2. NothingUnboundedBills'
    BY <1>1, <1>3 DEF RegistryInv, CountsOK, NothingUnboundedBills
  <2>3. QED
    BY <1>1, <1>7, <2>1, <2>2 DEF RegistryInv, CountsOK
<1>12. fresh \in Entries /\ fresh.of = f /\ fresh.id = i
  BY <1>4 DEF Entries
<1> HIDE DEF fresh
<1>13. /\ registry' \in Seq(Entries)
       /\ \A n \in DOMAIN registry : n \in DOMAIN registry' /\ (registry[n].id # i => registry'[n] = registry[n])
       /\ \A n \in DOMAIN registry' : registry'[n] = fresh \/ (n \in DOMAIN registry /\ registry[n].id # i /\ registry'[n] = registry[n])
       /\ \E n \in DOMAIN registry' : registry'[n] = fresh
       /\ \A m, n \in DOMAIN registry' : registry'[m] = fresh /\ registry'[n] = fresh => m = n
  BY <1>1, <1>4, RegisteredEntry DEF RegistryInv, fresh
<1>14. registry \in Seq(Entries) /\ (\A n \in DOMAIN registry : Fits(registry[n]) /\ registry[n] \in Entries)
  BY DEF RegistryInv, EntriesOK
<1>15. \A n \in DOMAIN registry' : Fits(registry[n])'
  <2> SUFFICES ASSUME NEW n \in DOMAIN registry' PROVE Fits(registry[n])'
    OBVIOUS
  <2>1. CASE registry'[n] = fresh
    BY <1>4, <1>5, <1>12, <2>1 DEF Fits, Started
  <2>2. CASE n \in DOMAIN registry /\ registry'[n] = registry[n]
    <3>1. id'[registry[n].of] # Period /\ registry[n].id = id'[registry[n].of]
      BY <1>8, <1>14, <2>2, FitsForGood DEF RegistryInv
    <3>2. QED
      BY <2>2, <3>1 DEF Fits, Started
  <2>3. QED
    BY <1>13, <2>1, <2>2
<1>16. EntriesOK'
  <2>1. \A m, n \in DOMAIN registry' : registry'[m].id = registry'[n].id => m = n
    <3>1. \A m, n \in DOMAIN registry : registry[m].id = registry[n].id => m = n
      BY DEF RegistryInv, EntriesOK
    <3>2. QED
      BY <1>12, <1>13, <3>1
  <2>2. LostOnlyBySharedId'
    <3> SUFFICES ASSUME NEW g \in FanOuts, Started(g)', ~IsComplete(g)', ~SharesId(g)'
                 PROVE \E n \in DOMAIN registry' : registry'[n].of = g
      BY DEF LostOnlyBySharedId
    <3>1. CASE g = f
      BY <1>12, <1>13, <3>1
    <3>2. CASE g # f
      <4>1. Started(g) /\ id'[g] = id[g]
        BY <1>5, <3>2 DEF Started
      <4>2. ~SharesId(g) /\ ~IsComplete(g)
        BY <1>8, <4>1, SharedForGood DEF RegistryInv, Stand
      <4>3. PICK n \in DOMAIN registry : registry[n].of = g
        BY <4>1, <4>2 DEF RegistryInv, EntriesOK, LostOnlyBySharedId
      <4>4. id[g] # i
        BY <1>4, <1>5, <3>2, <4>1 DEF SharesId, Started
      <4>5. registry[n].id # i
        BY <1>14, <4>3, <4>4 DEF Fits
      <4>6. QED
        BY <1>13, <4>3, <4>5
    <3>3. QED
      BY <3>1, <3>2
  <2>3. QED
    BY <1>13, <1>15, <2>1, <2>2 DEF EntriesOK
<1>17. PumpsOK'
  <2>1. pump' \in [Pumps -> [at : {"off", "enter", "launch", "emit"}, todo : Seq(Entries)]]
    BY <1>1, <1>13 DEF RegistryInv, PumpsOK
  <2>2. registry' # <<>>
    BY <1>13
  <2>3. ASSUME NEW q \in Pumps
        PROVE /\ pump'[q].at # "off" => pump'[q].todo # <<>>
              /\ \A n \in DOMAIN pump'[q].todo : Fits(pump[q].todo[n])'
    <3>1. CASE q = p
      <4>1. pump'[q] = [at |-> "enter", todo |-> registry']
        BY <1>1, <3>1 DEF RegistryInv, PumpsOK
      <4>2. QED
        BY <1>15, <2>2, <4>1
    <3>2. CASE q # p
      <4> DEFINE s == pump[q].todo
      <4>1. pump'[q] = pump[q]
        BY <1>1, <3>2 DEF RegistryInv, PumpsOK
      <4>2. /\ s \in Seq(Entries) /\ \A n \in DOMAIN s : Fits(s[n])
            /\ pump[q].at # "off" => s # <<>>
        BY DEF RegistryInv, PumpsOK
      <4>3. pump'[q].todo = s /\ (pump'[q].at # "off" => s # <<>>)
        BY <4>1, <4>2
      <4> HIDE DEF s
      <4>4. ASSUME NEW n \in DOMAIN s PROVE Fits(s[n])'
        <5>1. s[n] \in Entries /\ Fits(s[n])
          BY <4>2
        <5>2. id'[s[n].of] # Period /\ s[n].id = id'[s[n].of]
          BY <1>8, <5>1, FitsForGood DEF RegistryInv
        <5>3. s'[n] = s[n]
          BY <4>3 DEF s
        <5>4. QED
          BY <5>2, <5>3 DEF Fits, Started
      <4>5. QED
        BY <4>3, <4>4 DEF s
    <3>3. QED
      BY <3>1, <3>2
  <2>4. QED
    BY <2>1, <2>3 DEF PumpsOK
<1>18. QED
  BY <1>9, <1>10, <1>11, <1>16, <1>17 DEF RegistryInv
\* What is left of a sequence when the k-th is taken out.
LEMMA TakenOut ==
  ASSUME NEW S, NEW s \in Seq(S), NEW k \in 1 .. Len(s)
  PROVE LET t == RemoveAt(s, k)
        IN /\ t \in Seq(S)
           /\ Len(t) = Len(s) - 1
           /\ \A n \in 1 .. Len(s) - 1 : t[n] = IF n < k THEN s[n] ELSE s[n + 1]
<1> DEFINE l == SubSeq(s, 1, k - 1)
           r == SubSeq(s, k + 1, Len(s))
           len == Len(s)
<1>1. len \in Nat /\ k \in 1 .. len
  OBVIOUS
<1>2. l \in Seq(S) /\ Len(l) = k - 1 /\ \A n \in 1 .. k - 1 : l[n] = s[n]
  BY SubSeqProperties
<1>3. r \in Seq(S) /\ Len(r) = len - k /\ \A n \in 1 .. len - k : r[n] = s[k + n]
  BY SubSeqProperties
<1>4. RemoveAt(s, k) = l \o r
  BY DEF RemoveAt
<1> HIDE DEF l, r
<1>5. /\ l \o r \in Seq(S) /\ Len(l \o r) = Len(l) + Len(r)
      /\ \A n \in 1 .. Len(l) + Len(r) : (l \o r)[n] = IF n <= Len(l) THEN l[n] ELSE r[n - Len(l)]
  BY <1>2, <1>3, ConcatProperties
<1> HIDE DEF len
<1>6. Len(l) + Len(r) = len - 1
  BY <1>1, <1>2, <1>3
<1>7. ASSUME NEW n \in 1 .. len - 1 PROVE (l \o r)[n] = IF n < k THEN s[n] ELSE s[n + 1]
  <2>1. CASE n < k
    <3>1. n \in 1 .. k - 1
      BY <1>1, <2>1
    <3>2. n <= Len(l) /\ n \in 1 .. Len(l) + Len(r)
      BY <1>1, <1>2, <1>6, <3>1
    <3>3. QED
      BY <1>2, <1>5, <2>1, <3>1, <3>2
  <2>2. CASE ~(n < k)
    <3>1. n - (k - 1) \in 1 .. len - k /\ k + (n - (k - 1)) = n + 1
      BY <1>1, <2>2
    <3>2. ~(n <= Len(l)) /\ n \in 1 .. Len(l) + Len(r) /\ n - Len(l) = n - (k - 1)
      BY <1>1, <1>2, <1>6, <2>2
    <3>3. (l \o r)[n] = r[n - (k - 1)]
      BY <1>5, <3>2
    <3>4. QED
      BY <1>3, <2>2, <3>1, <3>3
  <2>3. QED
    BY <2>1, <2>2
<1>8. QED
  BY <1>4, <1>5, <1>6, <1>7 DEF len

\* What dropping an id does: of the other ids, every entry stays.
LEMMA DroppedEntry ==
  ASSUME EntriesOK, NEW e \in Entries
  PROVE LET t == Dropped(e)
        IN /\ t \in Seq(Entries)
           /\ \A n \in DOMAIN t : \E m \in DOMAIN registry : t[n] = registry[m]
           /\ \A m, n \in DOMAIN t : t[m].id = t[n].id => m = n
           /\ \A m \in DOMAIN registry : registry[m].id # e.id => \E n \in DOMAIN t : t[n] = registry[m]
<1> DEFINE t == Dropped(e)
           held == EntriesOf(e.id)
           k == CHOOSE n \in held : TRUE
           len == Len(registry)
<1>1. registry \in Seq(Entries) /\ \A m, n \in DOMAIN registry : registry[m].id = registry[n].id => m = n
  BY DEF EntriesOK
<1>2. len \in Nat /\ DOMAIN registry = 1 .. len
  BY <1>1
<1>3. CASE held = {}
  BY <1>1, <1>3 DEF Dropped
<1>4. CASE held # {}
  <2>1. k \in held
    BY <1>4
  <2>2. k \in 1 .. len /\ registry[k].id = e.id
    BY <1>2, <2>1 DEF EntriesOf
  <2>3. t = RemoveAt(registry, k)
    BY <1>4 DEF Dropped
  <2> HIDE DEF t, k
  <2>4. t \in Seq(Entries) /\ Len(t) = len - 1 /\ \A n \in 1 .. len - 1 : t[n] = IF n < k THEN registry[n] ELSE registry[n + 1]
    BY <1>1, <2>2, <2>3, TakenOut
  <2>5. DOMAIN t = 1 .. len - 1
    BY <2>4
  <2> DEFINE at(n) == IF n < k THEN n ELSE n + 1
  <2> HIDE DEF len
  <2>6. \A n \in 1 .. len - 1 : at(n) \in 1 .. len /\ t[n] = registry[at(n)]
    BY <1>2, <2>2, <2>4
  <2>7. \A m, n \in 1 .. len - 1 : at(m) = at(n) => m = n
    BY <1>2, <2>2
  <2>8. ASSUME NEW m \in 1 .. len, m # k PROVE \E n \in 1 .. len - 1 : at(n) = m
    <3> DEFINE n == IF m < k THEN m ELSE m - 1
    <3>1. n \in 1 .. len - 1 /\ at(n) = m
      BY <1>2, <2>2, <2>8
    <3>2. QED
      BY <3>1
  <2> HIDE DEF at
  <2>9. \A n \in DOMAIN t : at(n) \in DOMAIN registry /\ t[n] = registry[at(n)]
    BY <1>2, <2>5, <2>6
  <2>10. \A m, n \in DOMAIN t : t[m].id = t[n].id => m = n
    BY <1>1, <2>5, <2>7, <2>9
  <2>11. \A m \in DOMAIN registry : registry[m].id # e.id => \E n \in DOMAIN t : t[n] = registry[m]
    <3> SUFFICES ASSUME NEW m \in DOMAIN registry, registry[m].id # e.id PROVE \E n \in DOMAIN t : t[n] = registry[m]
      OBVIOUS
    <3>1. m \in 1 .. len /\ m # k
      BY <1>2, <2>2
    <3>2. PICK n \in 1 .. len - 1 : at(n) = m
      BY <2>8, <3>1
    <3>3. QED
      BY <2>5, <2>9, <3>2
  <2>12. QED
    BY <2>4, <2>9, <2>10, <2>11 DEF t
<1>5. QED
  BY <1>3, <1>4

\* What an emission shows and logs: a completion only of what is complete, and for its own id.
LEMMA EmitShows == ASSUME RegistryInv, NEW p \in Pumps, PumpEmits(p) PROVE ShownOK' /\ LoggedOK'
<1> DEFINE f == Entry(p).of
           i == Entry(p).id
           done == IsComplete(f)
           news == News(view[i], f, done)
<1>1. /\ pump[p].at = "emit" /\ log' = log \o news
      /\ view' = [view EXCEPT ![i] = [of |-> f, done |-> done]]
      /\ UNCHANGED <<id, waiting, up>>
  BY DEF PumpEmits
<1>2. f \in FanOuts /\ Started(f) /\ i = id[f] /\ i \in Ids /\ f # 0
  BY <1>1, EntryFits, RegistrySets DEF RegistryInv, Entries
<1>3. done \in BOOLEAN
  BY DEF IsComplete
<1>4. \A g \in FanOuts : (Started(g)' <=> Started(g)) /\ (SharesId(g)' <=> SharesId(g)) /\ (IsComplete(g)' <=> IsComplete(g))
  BY <1>1 DEF Started, SharesId, IsComplete
<1> DEFINE card == [of |-> f, done |-> done]
<1>5. card.of = f /\ card.done = done /\ card # NoView /\ card \in [of : 0 .. MaxStarts, done : BOOLEAN]
  BY <1>2, <1>3 DEF NoView, FanOuts
<1>6. /\ view \in [Ids -> [of : 0 .. MaxStarts, done : BOOLEAN]]
      /\ \A j \in Ids : view[j] # NoView =>
           /\ view[j].of \in FanOuts /\ Started(view[j].of) /\ id[view[j].of] = j
           /\ view[j].done => IsComplete(view[j].of)
  BY DEF RegistryInv, ShownOK
<1> HIDE DEF card
<1>7. view' = [view EXCEPT ![i] = card]
  BY <1>1 DEF card
<1>8. view' \in [Ids -> [of : 0 .. MaxStarts, done : BOOLEAN]] /\ view'[i] = card /\ \A j \in Ids : j # i => view'[j] = view[j]
  BY <1>2, <1>5, <1>6, <1>7
<1>9. ShownOK'
  <2>1. ASSUME NEW j \in Ids, view'[j] # NoView
        PROVE /\ view'[j].of \in FanOuts /\ Started(view'[j].of) /\ id[view'[j].of] = j
              /\ view'[j].done => IsComplete(view'[j].of)
    <3>1. CASE j = i
      BY <1>2, <1>5, <1>8, <3>1
    <3>2. CASE j # i
      BY <1>6, <1>8, <2>1, <3>2
    <3>3. QED
      BY <3>1, <3>2
  <2> USE DEF Started, IsComplete
  <2>2. \A j \in Ids : view'[j] # NoView /\ view'[j].done => IsComplete(view[j].of)'
    BY <1>1, <2>1
  <2>3. QED
    BY <1>1, <1>8, <2>1, <2>2 DEF ShownOK, NoView
<1> DEFINE T == {"started", "done"} \X FanOuts
           What(x) == x[1]
           Who(x) == x[2]
           full(g) == [of |-> g, done |-> TRUE]
<1>10. /\ log \in Seq(T)
       /\ \A n \in DOMAIN log : LET g == Who(log[n]) IN
            /\ g \in FanOuts /\ Started(g) /\ view[id[g]] # NoView
            /\ What(log[n]) = "done" /\ ~SharesId(g) => view[id[g]] = full(g)
       /\ \A m, n \in DOMAIN log : log[m] = log[n] /\ m # n => SharesId(Who(log[m]))
  <2>1. log \in Seq(T)
    BY DEF RegistryInv, LoggedOK
  <2>2. \A n \in DOMAIN log : log[n] \in T
    BY <2>1
  <2>3. \A n \in DOMAIN log : Who(log[n]) \in FanOuts
    BY <2>2
  <2>4. QED
    BY <2>1, <2>3 DEF RegistryInv, LoggedOK, LoggedOnce
<1>11. ASSUME NEW g \in FanOuts, Started(g), view[id[g]] # NoView
       PROVE /\ id[g] \in Ids /\ view'[id[g]] # NoView
             /\ ~SharesId(g) /\ view[id[g]] = full(g) => view'[id[g]] = full(g)
  <2>1. id[g] \in Ids
    BY <1>11 DEF RegistryInv, HostsOK, Started
  <2>2. CASE id[g] # i
    BY <1>8, <1>11, <2>1, <2>2
  <2>3. CASE id[g] = i
    <3>1. view'[i] # NoView
      BY <1>5, <1>8
    <3>2. ~SharesId(g) => g = f
      BY <1>2, <2>3 DEF SharesId
    <3>3. view[i] = full(f) => card = full(f)
      <4> SUFFICES ASSUME view[i] = full(f) PROVE card = full(f)
        OBVIOUS
      <4>1. view[i] # NoView /\ view[i].done /\ view[i].of = f
        BY <1>2 DEF NoView
      <4>2. done
        BY <1>2, <1>6, <4>1
      <4>3. QED
        BY <1>3, <4>2 DEF card
    <3>4. QED
      BY <1>8, <2>1, <2>3, <3>1, <3>2, <3>3
  <2>4. QED
    BY <2>2, <2>3
<1> DEFINE LoggedWell(x) ==
             /\ Started(Who(x)) /\ view'[id[Who(x)]] # NoView
             /\ What(x) = "done" /\ ~SharesId(Who(x)) => view'[id[Who(x)]] = full(Who(x))
<1>12. \A n \in DOMAIN log : LoggedWell(log[n])
  <2> SUFFICES ASSUME NEW n \in DOMAIN log PROVE LoggedWell(log[n])
    OBVIOUS
  <2> DEFINE x == log[n]
  <2>1. /\ Who(x) \in FanOuts /\ Started(Who(x)) /\ view[id[Who(x)]] # NoView
        /\ What(x) = "done" /\ ~SharesId(Who(x)) => view[id[Who(x)]] = full(Who(x))
    BY <1>10
  <2> HIDE DEF Who, What, full
  <2>2. LoggedWell(x)
    BY <1>11, <2>1
  <2>3. QED
    BY <2>2
<1>13. ASSUME log' \in Seq(T), \A n \in DOMAIN log' : LoggedWell(log'[n]),
              \A m, n \in DOMAIN log' : log'[m] = log'[n] /\ m # n => SharesId(Who(log'[m]))
       PROVE LoggedOK'
  <2>1. LoggedOnce'
    <3> SUFFICES ASSUME NEW m \in DOMAIN log', NEW n \in DOMAIN log', log'[m] = log'[n], m # n
                 PROVE SharesId(log[m][2])'
      BY DEF LoggedOnce
    <3>1. SharesId(Who(log'[m]))
      BY <1>13
    <3>2. QED
      BY <1>1, <3>1 DEF SharesId, Started
  <2>2. \A n \in DOMAIN log' : LET g == log'[n][2] IN
          /\ id'[g] # Period /\ view'[id'[g]] # NoView
          /\ log'[n][1] = "done" /\ ~SharesId(g) => view'[id'[g]] = full(g)
    BY <1>1, <1>13 DEF Started
  <2>3. \A g : SharesId(g)' <=> SharesId(g)
    BY <1>1 DEF SharesId, Started
  <2>4. log' \in Seq({"started", "done"} \X FanOuts)
    BY <1>13
  <2>5. QED
    BY <2>1, <2>2, <2>3, <2>4 DEF LoggedOK, Started, NoView
<1> HIDE DEF LoggedWell
<1>14. CASE news = <<>>
  <2>1. log' = log
    BY <1>1, <1>10, <1>14
  <2>2. QED
    BY <1>9, <1>10, <1>12, <1>13, <2>1
<1>15. CASE news # <<>>
  <2>1. PICK x \in T :
          /\ news = <<x>> /\ Who(x) = f
          /\ \/ What(x) = "started" /\ view[i] = NoView
             \/ What(x) = "done" /\ done /\ view[i].done = FALSE
    <3>1. CASE view[i] = NoView
      <4>1. news = <<<<"started", f>>>> /\ <<"started", f>> \in T
        BY <1>2, <3>1 DEF News
      <4>2. QED
        BY <3>1, <4>1
    <3>2. CASE view[i] # NoView
      <4>1. done /\ ~view[i].done
        BY <1>15, <3>2 DEF News
      <4>2. news = <<<<"done", f>>>> /\ <<"done", f>> \in T
        BY <1>2, <3>2, <4>1 DEF News
      <4>3. view[i].done = FALSE
        BY <1>2, <1>6, <4>1
      <4>4. QED
        BY <4>1, <4>2, <4>3
    <3>3. QED
      BY <3>1, <3>2
  <2> HIDE DEF news
  <2> DEFINE len == Len(log)
  <2>2. /\ len \in Nat /\ DOMAIN log = 1 .. len
        /\ log' \in Seq(T) /\ DOMAIN log' = 1 .. len + 1 /\ log'[len + 1] = x
        /\ \A n \in 1 .. len : log'[n] = log[n]
    <3>1. log' = Append(log, x)
      BY <1>1, <1>10, <2>1
    <3> HIDE DEF T
    <3>2. QED
      BY <1>10, <3>1
  <2> HIDE DEF len, T
  <2>3. \A n \in 1 .. len + 1 : n = len + 1 \/ n \in 1 .. len
    BY <2>2
  <2>4. LoggedWell(x)
    <3> HIDE DEF What, Who
    <3>1. Started(f) /\ view'[id[f]] = card
      BY <1>2, <1>8
    <3>2. What(x) = "done" => done
      BY <2>1
    <3>3. What(x) = "done" => card = full(f)
      BY <1>3, <3>2 DEF card
    <3>4. QED
      BY <1>5, <2>1, <3>1, <3>3 DEF LoggedWell
  <2>5. ASSUME NEW n \in 1 .. len, log[n] = x PROVE SharesId(f)
    <3> SUFFICES ASSUME ~SharesId(f) PROVE FALSE
      OBVIOUS
    <3> HIDE DEF What, Who
    <3>1. n \in DOMAIN log /\ Who(log[n]) = f
      BY <2>1, <2>2, <2>5
    <3>2. /\ view[id[Who(log[n])]] # NoView
          /\ What(log[n]) = "done" /\ ~SharesId(Who(log[n])) => view[id[Who(log[n])]] = full(Who(log[n]))
      BY <1>10, <3>1
    <3>3. view[i] # NoView /\ (What(x) = "done" => view[i] = full(f))
      BY <1>2, <2>5, <3>1, <3>2
    <3>4. What(x) = "done" /\ view[i].done = FALSE
      BY <2>1, <3>3
    <3>5. view[i].done = TRUE
      BY <3>3, <3>4
    <3>6. QED
      BY <3>4, <3>5
  <2>6. \A n \in DOMAIN log' : LoggedWell(log'[n])
    BY <1>12, <2>2, <2>3, <2>4
  <2>7. \A m, n \in DOMAIN log' : log'[m] = log'[n] /\ m # n => SharesId(Who(log'[m]))
    <3> HIDE DEF Who, What
    <3> SUFFICES ASSUME NEW m \in 1 .. len + 1, NEW n \in 1 .. len + 1, log'[m] = log'[n], m # n
                 PROVE SharesId(Who(log'[m]))
      BY <2>2
    <3>1. CASE m \in 1 .. len /\ n \in 1 .. len
      BY <1>10, <2>2, <3>1
    <3>2. CASE m = len + 1 /\ n \in 1 .. len
      BY <2>1, <2>2, <2>5, <3>2
    <3>3. CASE n = len + 1 /\ m \in 1 .. len
      BY <2>1, <2>2, <2>5, <3>3
    <3>4. QED
      BY <2>3, <3>1, <3>2, <3>3
  <2>8. QED
    BY <1>9, <1>13, <2>2, <2>6, <2>7
<1>16. QED
  BY <1>9, <1>14, <1>15
\* An emission: what is complete is dropped, and whoever holds its id with it.
LEMMA EmitKeeps == ASSUME RegistryInv, NEW p \in Pumps, PumpEmits(p) PROVE RegistryInv'
<1> DEFINE e == Entry(p)
           done == IsComplete(e.of)
           rest == Tail(pump[p].todo)
           to == IF rest = <<>> THEN "off" ELSE "enter"
<1>1. /\ pump[p].at = "emit" /\ registry' = (IF done THEN Dropped(e) ELSE registry)
      /\ pump' = [pump EXCEPT ![p] = [at |-> to, todo |-> rest]]
      /\ UNCHANGED <<clock, backend, hostSwaps, listed, id, bounded, waiting, up, alive, entering>>
  BY DEF PumpEmits
<1>2. e \in Entries /\ e.of \in FanOuts /\ Started(e.of) /\ e.id = id[e.of]
  BY <1>1, EntryFits DEF RegistryInv
<1>3. Stand
  BY <1>1, NothingMoves
<1>4. HostsOK'
  BY <1>1 DEF RegistryInv, HostsOK
<1>5. CountsOK'
  BY <1>1 DEF RegistryInv, CountsOK, NothingUnboundedBills, Started
<1>6. EntriesOK'
  <2>1. CASE ~done
    BY <1>1, <1>3, <2>1, EntriesRest DEF RegistryInv
  <2>2. CASE done
    <3>1. /\ registry' \in Seq(Entries)
          /\ \A n \in DOMAIN registry' : \E m \in DOMAIN registry : registry'[n] = registry[m]
          /\ \A m, n \in DOMAIN registry' : registry'[m].id = registry'[n].id => m = n
          /\ \A m \in DOMAIN registry : registry[m].id # e.id => \E n \in DOMAIN registry' : registry'[n] = registry[m]
      BY <1>1, <1>2, <2>2, DroppedEntry DEF RegistryInv
    <3>2. \A m \in DOMAIN registry : Fits(registry[m])
      BY DEF RegistryInv, EntriesOK
    <3>3. \A n \in DOMAIN registry' : Fits(registry[n])'
      BY <1>1, <3>1, <3>2 DEF Fits, Started
    <3>4. LostOnlyBySharedId'
      <4> SUFFICES ASSUME NEW g \in FanOuts, Started(g)', ~IsComplete(g)', ~SharesId(g)'
                   PROVE \E n \in DOMAIN registry' : registry'[n].of = g
        BY DEF LostOnlyBySharedId
      <4>1. Started(g) /\ ~IsComplete(g) /\ ~SharesId(g)
        BY <1>1 DEF Started, IsComplete, SharesId
      <4>2. PICK m \in DOMAIN registry : registry[m].of = g
        BY <4>1 DEF RegistryInv, EntriesOK, LostOnlyBySharedId
      <4>3. registry[m].id = id[g]
        BY <3>2, <4>2 DEF Fits
      <4>4. g # e.of
        BY <2>2, <4>1
      <4>5. registry[m].id # e.id
        BY <1>2, <4>1, <4>3, <4>4 DEF SharesId
      <4>6. PICK n \in DOMAIN registry' : registry'[n] = registry[m]
        BY <3>1, <4>5
      <4>7. QED
        BY <4>2, <4>6
    <3>5. QED
      BY <3>1, <3>3, <3>4 DEF EntriesOK
  <2>3. QED
    BY <2>1, <2>2
<1>7. PumpsOK'
  <2> DEFINE s == pump[p].todo
  <2>1. s \in Seq(Entries) /\ s # <<>> /\ \A n \in DOMAIN s : Fits(s[n])
    BY <1>1 DEF RegistryInv, PumpsOK
  <2>2. rest = Tail(s)
    OBVIOUS
  <2> HIDE DEF s, rest
  <2>3. rest \in Seq(Entries) /\ \A n \in DOMAIN rest : n + 1 \in DOMAIN s /\ rest[n] = s[n + 1]
    BY <2>1, <2>2
  <2>4. \A n \in DOMAIN rest : Fits(rest[n])
    BY <2>1, <2>3
  <2>5. pump' \in [Pumps -> [at : {"off", "enter", "launch", "emit"}, todo : Seq(Entries)]]
    BY <1>1, <2>3 DEF RegistryInv, PumpsOK
  <2>6. ASSUME NEW q \in Pumps
        PROVE /\ pump'[q].at # "off" => pump'[q].todo # <<>>
              /\ \A n \in DOMAIN pump'[q].todo : Fits(pump'[q].todo[n])
    <3>1. CASE q = p
      <4>1. pump'[q] = [at |-> to, todo |-> rest]
        BY <1>1, <3>1 DEF RegistryInv, PumpsOK
      <4>2. QED
        BY <2>4, <4>1
    <3>2. CASE q # p
      <4>1. pump'[q] = pump[q]
        BY <1>1, <3>2 DEF RegistryInv, PumpsOK
      <4>2. QED
        BY <4>1 DEF RegistryInv, PumpsOK
    <3>3. QED
      BY <3>1, <3>2
  <2>7. QED
    BY <1>1, <2>5, <2>6 DEF PumpsOK, Fits, Started
<1>8. ShownOK' /\ LoggedOK'
  BY EmitShows
<1>9. QED
  BY <1>4, <1>5, <1>6, <1>7, <1>8 DEF RegistryInv

\* Every step of the client, its dashboard, the backend and the clock.
LEMMA RegistryKeeps == RegistryInv /\ [RegistryNext]_registryVars => RegistryInv'
<1> SUFFICES ASSUME RegistryInv, [RegistryNext]_registryVars PROVE RegistryInv'
  OBVIOUS
<1>1. ASSUME NEW p \in Pumps, PumpStep(p) PROVE RegistryInv'
  BY <1>1, EnterKeeps, LaunchKeeps, LeaveKeeps, EmitKeeps DEF PumpStep
<1>2. ASSUME NEW p \in Pumps, TickPumps(p) PROVE RegistryInv'
  BY <1>2, TickKeeps
<1>3. ASSUME NEW p \in Pumps, NEW f \in FanOuts, StartFanOut(f, p) PROVE RegistryInv'
  BY <1>3, StartKeeps
<1>4. ASSUME NEW b \in Hosts, NEW f \in FanOuts, InstanceEnds(f, b) PROVE RegistryInv'
  BY <1>4, InstanceEndsKeeps
<1>5. ASSUME ClockMoves \/ RefreshArrives \/ (\E b \in Hosts : SwapBackend(b)) \/ UNCHANGED registryVars
      PROVE RegistryInv'
  BY <1>5, QuietSteps
<1>6. QED
  BY <1>1, <1>2, <1>3, <1>4, <1>5 DEF RegistryNext

(***************************************************************************)
(* Whatever number of fan-outs is started, however their pumps overlap and *)
(* whenever the backend is swapped: a fan-out that has members to launch   *)
(* or to watch is registered, it launches nothing unbounded where that     *)
(* bills, and it is logged as started and as done once each, unless its id *)
(* is another's too (client.ts:275, 437; ui/dashboard.ts).                 *)
(***************************************************************************)
THEOREM RegistryAlwaysSound == RegistrySpec => []RegistryIsSound
<1>1. RegistryInv => RegistryIsSound
  <2> SUFFICES ASSUME RegistryInv PROVE RegistryIsSound
    OBVIOUS
  <2>1. \A p \in Pumps : pump[p].at \in {"off", "enter", "launch", "emit"}
    BY DEF RegistryInv, PumpsOK
  <2>2. RegistryTypeOK
    BY <2>1 DEF RegistryInv, CountsOK, HostsOK, EntriesOK, RegistryTypeOK
  <2>3. QED
    BY <2>2 DEF RegistryInv, CountsOK, EntriesOK, LoggedOK, RegistryIsSound
<1>2. QED
  BY <1>1, RegistryStarts, RegistryKeeps, PTL DEF RegistrySpec

HIDE RegistryConstants

-----------------------------------------------------------------------------
(***************************************************************************)
(* The two hands.  What a command or a click is about to do is what it     *)
(* looked up, or counted, and asked about.                                 *)
(***************************************************************************)
TaskRecords ==
    [at : Steps \ {"off"}, by : {"cli", "card"}, op : Ops \cup {"none"}, on : Backends, name : Names \cup {""},
     yes : BOOLEAN, goal : SUBSET Insts, todo : SUBSET Insts]

NamesOneOf(r) == \E g \in r.goal : NameOf[g] = r.name

\* What reaches instance i for task r was meant, and sure enough.
MeantFor(r, i) == i \in r.goal \/ (r.by = "card" /\ r.op # "reap" /\ \E g \in r.goal : NameOf[g] = NameOf[i])
SureFor(r, i) ==
    \/ r.op = "launch" /\ (i \notin Unbounded \/ HostOf[i] = "mock")
    \/ r.op \in {"stop", "start", "extend"}
    \/ r.op = "complete" /\ OnComplete[i] # "" /\ \E g \in r.goal : OnComplete[g] # ""
    \/ r.yes

GetOK(r) ==
    /\ r.op \notin {"none", "launch", "reap"}
    /\ r.by = "card" => NamesOneOf(r) /\ (r.op = "terminate" => r.yes)
    /\ r.op = "complete" => r.by = "card" /\ \E g \in r.goal : OnComplete[g] # ""
ConfirmOK(r) ==
    /\ r.op # "none" /\ r.todo = r.goal /\ r.goal # {}
    /\ r.by = "card" /\ r.op # "reap" => r.op = "terminate" /\ NamesOneOf(r)
CallOK(r) == r.op # "none" /\ r.todo # {} /\ \A i \in r.todo : MeantFor(r, i) /\ SureFor(r, i)

TaskOK(r) ==
    \/ r = Off
    \/ /\ r \in TaskRecords
       /\ r.at = "list" => r.op \in {"none", "reap"}
       /\ r.at = "found" => r.op = "reap"
       /\ r.at = "get" => GetOK(r)
       /\ r.at = "confirm" => ConfirmOK(r)
       /\ r.at = "call" => CallOK(r)

ListsOK ==
    /\ provider \in Backends /\ asked \subseteq Backends
    /\ state \in [Insts -> States] /\ late \subseteq Insts
    /\ shown \in [on : Backends, insts : UNION {[S -> States] : S \in SUBSET Insts}, late : SUBSET Insts]
    /\ \A i \in DOMAIN shown.insts : shown.insts[i] # "unborn"

HandsInv ==
    /\ ListsOK
    /\ DOMAIN task = Tasks /\ \A t \in Tasks : TaskOK(task[t])
    /\ HitsWhatWasMeant /\ DestructiveIsConfirmed

\* The picker's list: only the answer to the latest lookup is still to be shown, and it was
\* begun for what stands in the field.
PickerInv ==
    /\ seq \in Nat /\ timer \in BOOLEAN /\ cleared \in BOOLEAN
    /\ \A p \in pending : p.n \in 1 .. seq
    /\ \A p, q \in pending : p.n = q.n => p = q
    /\ ~timer /\ ~cleared =>
         /\ \A p \in pending : p.n = seq => p.query = field
         /\ (\A p \in pending : p.n # seq) => matches \in {field, "hidden"}
\* A record is no task that is off.
LEMMA TaskSorts ==
  ASSUME NEW r, TaskOK(r), r.at # "off"
  PROVE /\ r \in TaskRecords
        /\ r.at = "list" => r.op \in {"none", "reap"}
        /\ r.at = "found" => r.op = "reap"
        /\ r.at = "get" => GetOK(r)
        /\ r.at = "confirm" => ConfirmOK(r)
        /\ r.at = "call" => CallOK(r)
BY DEF TaskOK, Off

\* What a backend answers of itself can be shown.
LEMMA SnapshotFits ==
  ASSUME ListsOK, NEW b \in Backends
  PROVE /\ Snapshot(b) \in [on : Backends, insts : UNION {[S -> States] : S \in SUBSET Insts}, late : SUBSET Insts]
        /\ \A i \in DOMAIN Snapshot(b).insts : Snapshot(b).insts[i] # "unborn"
<1> DEFINE S == On(b)
           f == [i \in S |-> state[i]]
<1>1. S \in SUBSET Insts /\ \A i \in S : state[i] \in States /\ state[i] # "unborn"
  BY DEF On, ListsOK
<1>2. f \in [S -> States] /\ \A i \in DOMAIN f : f[i] # "unborn"
  BY <1>1
<1>3. f \in UNION {[T -> States] : T \in SUBSET Insts}
  BY <1>1, <1>2
<1>4. late \cap S \in SUBSET Insts
  BY <1>1
<1>5. Snapshot(b) = [on |-> b, insts |-> f, late |-> late \cap S]
  BY DEF Snapshot
<1> HIDE DEF f, S
<1>6. QED
  BY <1>2, <1>3, <1>4, <1>5

\* A step of one task, that reaches no instance.
LEMMA OneTask ==
  ASSUME HandsInv, ListsOK', NEW t \in Tasks, NEW r, TaskOK(r), task' = [task EXCEPT ![t] = r], UNCHANGED hit
  PROVE HandsInv'
<1>1. DOMAIN task' = Tasks /\ \A u \in Tasks : TaskOK(task'[u])
  BY DEF HandsInv
<1>2. HitsWhatWasMeant' /\ DestructiveIsConfirmed'
  BY DEF HandsInv, HitsWhatWasMeant, DestructiveIsConfirmed
<1>3. QED
  BY <1>1, <1>2 DEF HandsInv, TaskOK, GetOK, ConfirmOK, CallOK

\* Nothing of a task changes.
LEMMA NoTask == ASSUME HandsInv, ListsOK', UNCHANGED <<task, hit>> PROVE HandsInv'
BY DEF HandsInv, TaskOK, GetOK, ConfirmOK, CallOK, HitsWhatWasMeant, DestructiveIsConfirmed

\* The world: backends swapped, lists asked for and answered.
LEMMA WorldKeeps ==
  ASSUME HandsInv, TickLists \/ \E b \in Backends : SetProvider(b) \/ ListArrives(b) PROVE HandsInv'
<1>1. ASSUME NEW b \in Backends, ListArrives(b) PROVE HandsInv'
  <2>1. ListsOK'
    BY <1>1, SnapshotFits DEF HandsInv, ListArrives, ListsOK
  <2>2. QED
    BY <1>1, <2>1, NoTask DEF ListArrives
<1>2. ASSUME TickLists \/ \E b \in Backends : SetProvider(b) PROVE HandsInv'
  <2>1. ListsOK'
    BY <1>2 DEF HandsInv, TickLists, SetProvider, ListsOK
  <2>2. QED
    BY <1>2, <2>1, NoTask DEF TickLists, SetProvider
<1>3. QED
  BY <1>1, <1>2

\* The orphans that are found are instances.
LEMMA OrphansAreInsts == ASSUME ListsOK PROVE FindOrphans \subseteq Insts
BY DEF ListsOK, FindOrphans

\* Commands and clicks begin as they should.
LEMMA BeginsKeeps ==
  ASSUME HandsInv, NEW t \in Tasks
  PROVE \/ ClickReap(t)
        \/ \E yes \in BOOLEAN :
             \/ \E op \in Ops \ {"launch", "complete"}, name \in Names : TypeCommand(t, op, name, yes)
             \/ \E i \in Insts : TypeLaunch(t, i, yes)
        \/ \E op \in Ops \ {"launch", "reap"}, i \in Insts : ClickCard(t, op, i)
        => HandsInv'
<1> USE ConsoleConstants
<1>1. provider \in Backends /\ FindOrphans \in SUBSET Insts
  BY OrphansAreInsts DEF HandsInv, ListsOK
<1>2. ASSUME NEW r, TaskOK(r), Begins(t, r) PROVE HandsInv'
  <2>1. task' = [task EXCEPT ![t] = r] /\ UNCHANGED hit
    BY <1>2 DEF Begins
  <2>2. ListsOK'
    BY <1>2 DEF Begins, HandsInv, ListsOK
  <2>3. QED
    BY <1>2, <2>1, <2>2, OneTask
<1>3. CASE ClickReap(t)
  <2> DEFINE r == Record("confirm", "card", "reap", "", FALSE, FindOrphans)
  <2>1. "reap" \in Ops /\ FindOrphans # {} /\ Begins(t, r)
    BY <1>3 DEF ClickReap
  <2>5. /\ "confirm" \in Steps \ {"off"}
        /\ r = [at |-> "confirm", by |-> "card", op |-> "reap", on |-> provider, name |-> "", yes |-> FALSE,
                 goal |-> FindOrphans, todo |-> FindOrphans]
    BY DEF Steps, Record
  <2> HIDE DEF r
  <2>2. r \in TaskRecords /\ r.at = "confirm" /\ r.op = "reap" /\ r.goal = FindOrphans /\ r.todo = FindOrphans
    BY <1>1, <2>1, <2>5 DEF TaskRecords
  <2>3. TaskOK(r)
    BY <2>1, <2>2 DEF TaskOK, ConfirmOK
  <2>6. QED
    BY <1>2, <2>1, <2>3
<1>4. ASSUME NEW yes \in BOOLEAN, NEW op \in Ops \ {"launch", "complete"}, NEW name \in Names, TypeCommand(t, op, name, yes)
      PROVE HandsInv'
  <2> DEFINE at == IF op = "reap" THEN "list" ELSE "get"
             r == Record(at, "cli", op, name, yes, {})
  <2>1. Begins(t, r)
    BY <1>4 DEF TypeCommand
  <2>2. /\ at \in Steps \ {"off"}
        /\ r = [at |-> at, by |-> "cli", op |-> op, on |-> provider, name |-> name, yes |-> yes,
                 goal |-> {}, todo |-> {}]
    BY DEF Steps, Record
  <2> HIDE DEF r
  <2>3. r \in TaskRecords /\ r.at = at /\ r.op = op /\ r.by = "cli" /\ op # "none"
    BY <1>1, <2>2 DEF TaskRecords
  <2>4. TaskOK(r)
    BY <2>3 DEF TaskOK, GetOK
  <2>5. QED
    BY <1>2, <2>1, <2>4
<1>5. ASSUME NEW yes \in BOOLEAN, NEW i \in Insts, TypeLaunch(t, i, yes) PROVE HandsInv'
  <2> DEFINE refuse == HostOf[i] # "mock" /\ i \in Unbounded
             at == IF refuse /\ ~yes THEN "confirm" ELSE "call"
             r == Record(at, "cli", "launch", NameOf[i], yes, {i})
  <2>1. Begins(t, r) /\ "launch" \in Ops
    BY <1>5 DEF TypeLaunch
  <2>2. /\ at \in Steps \ {"off"}
        /\ r = [at |-> at, by |-> "cli", op |-> "launch", on |-> provider, name |-> NameOf[i], yes |-> yes,
                 goal |-> {i}, todo |-> {i}]
    BY DEF Steps, Record
  <2> HIDE DEF r
  <2>3. r \in TaskRecords /\ r.at = at /\ r.op = "launch" /\ r.by = "cli" /\ r.goal = {i} /\ r.todo = {i} /\ r.yes = yes
    BY <1>1, <2>1, <2>2 DEF TaskRecords, Names
  <2>4. r.at = "call" => CallOK(r)
    BY <2>3 DEF CallOK, MeantFor, SureFor
  <2>5. r.at = "confirm" => ConfirmOK(r)
    BY <2>3 DEF ConfirmOK
  <2>6. TaskOK(r)
    BY <2>3, <2>4, <2>5 DEF TaskOK
  <2>7. QED
    BY <1>2, <2>1, <2>6
<1>6. ASSUME NEW op \in Ops \ {"launch", "reap"}, NEW i \in Insts, ClickCard(t, op, i) PROVE HandsInv'
  <2> DEFINE at == IF op = "terminate" THEN "confirm" ELSE "get"
             r == Record(at, "card", op, NameOf[i], FALSE, {i})
  <2>1. Begins(t, r) /\ (op = "complete" => OnComplete[i] # "")
    BY <1>6 DEF ClickCard, Offers
  <2>2. /\ at \in Steps \ {"off"}
        /\ r = [at |-> at, by |-> "card", op |-> op, on |-> provider, name |-> NameOf[i], yes |-> FALSE,
                 goal |-> {i}, todo |-> {i}]
    BY DEF Steps, Record
  <2> HIDE DEF r
  <2>3. /\ r \in TaskRecords /\ r.at = at /\ r.op = op /\ r.by = "card" /\ r.goal = {i} /\ r.todo = {i}
        /\ r.name = NameOf[i] /\ op # "none"
    BY <1>1, <2>2 DEF TaskRecords, Names
  <2>4. NamesOneOf(r)
    BY <2>3 DEF NamesOneOf
  <2>5. TaskOK(r)
    <3>1. op = "complete" => \E g \in r.goal : OnComplete[g] # ""
      BY <2>1, <2>3
    <3>2. QED
      BY <2>3, <2>4, <3>1 DEF TaskOK, GetOK, ConfirmOK
  <2>6. QED
    BY <1>2, <2>1, <2>5
<1>7. QED
  BY <1>3, <1>4, <1>5, <1>6
\* Where a request goes, and how a task ends in a refresh.
LEMMA TaskParts ==
  ASSUME HandsInv, NEW t \in Tasks, task[t] \in TaskRecords
  PROVE NextOn(t) \in Backends /\ TaskOK(Lists(t)) /\ TaskOK(Stopped(t)) /\ TaskOK(Off)
<1> DEFINE r == task[t]
           l == [r EXCEPT !.at = "list", !.on = provider, !.op = "none"]
<1>1. provider \in Backends
  BY DEF HandsInv, ListsOK
<1>2. r \in TaskRecords
  OBVIOUS
<1> HIDE DEF r
<1>3. l \in TaskRecords /\ l.at = "list" /\ l.op = "none"
  BY <1>1, <1>2 DEF TaskRecords, Steps
<1>4. r.on \in Backends
  BY <1>2 DEF TaskRecords
<1>5. NextOn(t) \in Backends
  BY <1>1, <1>4 DEF NextOn, r
<1>6. Lists(t) = l
  BY DEF Lists, r
<1> HIDE DEF l
<1>7. TaskOK(Lists(t))
  BY <1>3, <1>6 DEF TaskOK
<1>8. TaskOK(Off)
  BY DEF TaskOK
<1>9. QED
  BY <1>5, <1>7, <1>8 DEF Stopped

\* A task that goes on.
LEMMA GoesKeeps == ASSUME HandsInv, NEW t \in Tasks, NEW r, TaskOK(r), Goes(t, r) PROVE HandsInv'
<1>1. ListsOK'
  BY DEF Goes, HandsInv, ListsOK
<1>2. QED
  BY <1>1, OneTask DEF Goes

\* The dialog is confirmed: what was asked about is done.
LEMMA YesKeeps == ASSUME HandsInv, NEW t \in Tasks, Yes(t) PROVE HandsInv'
<1> DEFINE r == task[t]
           to == IF r.by = "card" /\ r.op # "reap" THEN "get" ELSE "call"
           b == NextOn(t)
           n == [r EXCEPT !.at = to, !.on = b, !.yes = TRUE]
<1>1. r.at = "confirm" /\ TaskOK(r)
  BY DEF Yes, At, HandsInv
<1>2. r \in TaskRecords /\ ConfirmOK(r)
  BY <1>1, TaskSorts
<1>3. b \in Backends
  BY <1>2, TaskParts
<1>4. Goes(t, n)
  BY DEF Yes
<1> HIDE DEF r, b
<1>5. /\ n \in TaskRecords /\ n.at = to /\ n.yes = TRUE
      /\ n.by = r.by /\ n.op = r.op /\ n.goal = r.goal /\ n.todo = r.todo /\ n.name = r.name
  BY <1>2, <1>3 DEF TaskRecords, Steps
<1> HIDE DEF n
<1>6. CASE r.by = "card" /\ r.op # "reap"
  <2>1. GetOK(n)
    BY <1>2, <1>5, <1>6 DEF ConfirmOK, GetOK, NamesOneOf
  <2>2. QED
    BY <1>4, <1>5, <1>6, <2>1, GoesKeeps DEF TaskOK
<1>7. CASE ~(r.by = "card" /\ r.op # "reap")
  <2>1. CallOK(n)
    BY <1>2, <1>5 DEF ConfirmOK, CallOK, MeantFor, SureFor
  <2>2. QED
    BY <1>4, <1>5, <1>7, <2>1, GoesKeeps DEF TaskOK
<1>8. QED
  BY <1>6, <1>7

\* An instance of the name is found: it is the command's goal from there on.
LEMMA GetKeeps == ASSUME HandsInv, NEW t \in Tasks, GetAnswered(t) PROVE HandsInv'
<1> USE ConsoleConstants
<1> DEFINE r == task[t]
           b == NextOn(t)
           toAsk == r.by = "cli" /\ r.op = "terminate" /\ ~r.yes
           to == IF toAsk THEN "confirm" ELSE "call"
<1>1. r.at = "get" /\ TaskOK(r)
  BY DEF GetAnswered, At, HandsInv
<1>2. r \in TaskRecords /\ GetOK(r)
  BY <1>1, TaskSorts
<1>3. b \in Backends /\ TaskOK(Stopped(t))
  BY <1>2, TaskParts
<1>4. ASSUME Goes(t, Stopped(t)) PROVE HandsInv'
  BY <1>3, <1>4, GoesKeeps
<1>5. ASSUME NEW i \in Insts, NameOf[i] = r.name,
             ~(r.op = "complete" /\ OnComplete[i] = ""),
             Goes(t, [r EXCEPT !.at = to, !.on = b, !.todo = {i}, !.goal = IF r.by = "cli" THEN {i} ELSE @])
      PROVE HandsInv'
  <2> DEFINE n == [r EXCEPT !.at = to, !.on = b, !.todo = {i}, !.goal = IF r.by = "cli" THEN {i} ELSE @]
  <2>1. Goes(t, n)
    BY <1>5
  <2>2. NameOf[i] = r.name /\ ~(r.op = "complete" /\ OnComplete[i] = "")
    BY <1>5
  <2> HIDE DEF r, b
  <2>3. /\ n \in TaskRecords /\ n.at = to /\ n.todo = {i} /\ n.goal = (IF r.by = "cli" THEN {i} ELSE r.goal)
        /\ n.by = r.by /\ n.op = r.op /\ n.name = r.name /\ n.yes = r.yes
    BY <1>2, <1>3 DEF TaskRecords, Steps
  <2>4. r.by \in {"cli", "card"} /\ r.op \in {"terminate", "stop", "start", "extend", "complete"}
    BY <1>2 DEF TaskRecords, GetOK
  <2> HIDE DEF n
  <2>5. CASE toAsk
    <3>1. ConfirmOK(n)
      BY <2>3, <2>5 DEF ConfirmOK
    <3>2. QED
      BY <2>1, <2>3, <2>5, <3>1, GoesKeeps DEF TaskOK
  <2>6. CASE ~toAsk
    <3>1. MeantFor(n, i)
      BY <1>2, <2>2, <2>3, <2>4 DEF GetOK, MeantFor, NamesOneOf
    <3>2. SureFor(n, i)
      BY <1>2, <2>2, <2>3, <2>4, <2>6 DEF GetOK, SureFor
    <3>3. CallOK(n)
      BY <2>3, <2>4, <3>1, <3>2 DEF CallOK
    <3>4. QED
      BY <2>1, <2>3, <2>6, <3>3, GoesKeeps DEF TaskOK
  <2>7. QED
    BY <2>5, <2>6
<1>6. QED
  BY <1>4, <1>5 DEF GetAnswered, On

\* The instance that is reached is one of those that were meant.
LEMMA CallKeeps == ASSUME HandsInv, NEW t \in Tasks, CallServed(t) PROVE HandsInv'
<1> DEFINE r == task[t]
           b == NextOn(t)
<1>1. r.at = "call" /\ TaskOK(r)
  BY DEF CallServed, At, HandsInv
<1>2. r \in TaskRecords /\ CallOK(r)
  BY <1>1, TaskSorts
<1>3. b \in Backends /\ TaskOK(Lists(t))
  BY <1>2, TaskParts
<1>4. PICK i \in r.todo :
        /\ state' = [state EXCEPT ![i] = After(Does(r.op, i), @)]
        /\ late' = IF r.op = "extend" THEN late \ {i} ELSE late
        /\ Hit(t, i, Does(r.op, i))
        /\ LET rest == r.todo \ {i} IN
           task' = [task EXCEPT ![t] = IF rest # {} THEN [@ EXCEPT !.todo = rest, !.on = b] ELSE Lists(t)]
  BY DEF CallServed
<1>5. i \in Insts /\ MeantFor(r, i) /\ SureFor(r, i)
  BY <1>2, <1>4 DEF TaskRecords, CallOK
<1>6. ListsOK'
  <2>1. \A st \in States : After(Does(r.op, i), st) \in States
    BY DEF After, States
  <2>2. state' \in [Insts -> States]
    BY <1>4, <1>5, <2>1 DEF HandsInv, ListsOK
  <2>3. late' \subseteq Insts /\ UNCHANGED <<provider, asked, shown>>
    BY <1>4 DEF HandsInv, ListsOK, CallServed
  <2>4. QED
    BY <2>2, <2>3 DEF HandsInv, ListsOK
<1>7. HitsWhatWasMeant' /\ DestructiveIsConfirmed'
  <2> DEFINE h == [by |-> r.by, op |-> r.op, does |-> Does(r.op, i), goal |-> r.goal, inst |-> i, sure |-> r.yes]
  <2>1. hit' = {h}
    BY <1>4 DEF Hit
  <2> HIDE DEF r
  <2>2. h.by = r.by /\ h.op = r.op /\ h.does = Does(r.op, i) /\ h.goal = r.goal /\ h.inst = i /\ h.sure = r.yes
    OBVIOUS
  <2> HIDE DEF h
  <2>3. HitsWhatWasMeant'
    BY <1>5, <2>1, <2>2 DEF HitsWhatWasMeant, MeantFor
  <2>4. DestructiveIsConfirmed'
    <3>1. \/ h.sure \/ h.does \in {"stop", "start", "extend"}
          \/ h.does = "launch" /\ (i \notin Unbounded \/ HostOf[i] = "mock")
          \/ /\ h.op = "complete" /\ OnComplete[i] \in {"terminate", "exit"}
             /\ \E g \in h.goal : OnComplete[g] # ""
      BY <1>5, <2>2 DEF SureFor, Does
    <3>2. QED
      BY <2>1, <2>2, <3>1 DEF DestructiveIsConfirmed
  <2>5. QED
    BY <2>3, <2>4
<1>8. DOMAIN task' = Tasks /\ \A u \in Tasks : TaskOK(task'[u])
  <2> DEFINE rest == r.todo \ {i}
             n == [r EXCEPT !.todo = rest, !.on = b]
  <2>1. task' = [task EXCEPT ![t] = IF rest # {} THEN n ELSE Lists(t)]
    BY <1>4
  <2> HIDE DEF r, b
  <2>2. /\ n \in TaskRecords /\ n.at = r.at /\ n.todo = rest /\ n.goal = r.goal
        /\ n.by = r.by /\ n.op = r.op /\ n.yes = r.yes
    BY <1>2, <1>3 DEF TaskRecords
  <2> HIDE DEF n
  <2>3. rest # {} => CallOK(n)
    BY <1>2, <2>2 DEF CallOK, MeantFor, SureFor
  <2>4. rest # {} => TaskOK(n)
    BY <1>1, <2>2, <2>3 DEF TaskOK
  <2> DEFINE m == IF rest # {} THEN n ELSE Lists(t)
  <2>5. TaskOK(m) /\ task' = [task EXCEPT ![t] = m]
    BY <1>3, <2>1, <2>4
  <2> HIDE DEF m
  <2>6. QED
    BY <2>5 DEF HandsInv
<1>9. QED
  BY <1>6, <1>7, <1>8 DEF HandsInv, TaskOK, GetOK, ConfirmOK, CallOK
\* What a task's own refresh finds.
LEMMA RefreshKeeps ==
  ASSUME HandsInv, NEW t \in Tasks, TaskListArrives(t) \/ OrphansFound(t) PROVE HandsInv'
<1> USE ConsoleConstants
<1> DEFINE r == task[t]
<1>1. TaskOK(r) /\ r.at \in {"list", "found"}
  BY DEF TaskListArrives, OrphansFound, At, HandsInv
<1>2. /\ r \in TaskRecords /\ r.on \in Backends
      /\ r.at = "list" => r.op \in {"none", "reap"}
      /\ r.at = "found" => r.op = "reap"
  <2>1. r.at # "off"
    BY <1>1
  <2> HIDE DEF r
  <2>2. /\ r \in TaskRecords
        /\ r.at = "list" => r.op \in {"none", "reap"}
        /\ r.at = "found" => r.op = "reap"
    BY <1>1, <2>1, TaskSorts
  <2>3. r.on \in Backends
    BY <2>2 DEF TaskRecords
  <2>4. QED
    BY <2>2, <2>3
<1>3. CASE TaskListArrives(t)
  <2> DEFINE n == IF r.op = "reap" THEN [r EXCEPT !.at = "found"] ELSE Off
  <2>1. r.at = "list" /\ shown' = Snapshot(r.on) /\ UNCHANGED <<provider, state, late, asked, hit>>
    BY <1>3 DEF TaskListArrives, At
  <2>2. task' = [task EXCEPT ![t] = n]
    BY <1>3 DEF TaskListArrives
  <2>3. ListsOK'
    BY <1>2, <2>1, SnapshotFits DEF HandsInv, ListsOK
  <2> HIDE DEF r
  <2>4. TaskOK(n)
    <3> DEFINE f == [r EXCEPT !.at = "found"]
    <3>1. f \in TaskRecords /\ f.at = "found" /\ f.op = r.op
      BY <1>2 DEF TaskRecords, Steps
    <3> HIDE DEF f
    <3>2. r.op = "reap" => TaskOK(f)
      BY <3>1 DEF TaskOK
    <3>3. QED
      BY <3>2 DEF TaskOK, f
  <2> HIDE DEF n
  <2>5. QED
    BY <2>1, <2>2, <2>3, <2>4, OneTask
<1>4. CASE OrphansFound(t)
  <2>1. TaskOK(Lists(t))
    BY <1>2, TaskParts
  <2>2. CASE FindOrphans = {}
    <3>1. Goes(t, Lists(t))
      BY <1>4, <2>2 DEF OrphansFound
    <3>2. QED
      BY <2>1, <3>1, GoesKeeps
  <2>3. CASE FindOrphans # {}
    <3> DEFINE to == IF r.yes THEN "call" ELSE "confirm"
               n == [r EXCEPT !.at = to, !.on = provider, !.goal = FindOrphans, !.todo = FindOrphans]
    <3>1. Goes(t, n) /\ r.op = "reap"
      BY <1>2, <1>4, <2>3 DEF OrphansFound, At
    <3>2. FindOrphans \in SUBSET Insts /\ provider \in Backends
      BY OrphansAreInsts DEF HandsInv, ListsOK
    <3> HIDE DEF r
    <3>3. /\ n \in TaskRecords /\ n.at = to /\ n.goal = FindOrphans /\ n.todo = FindOrphans
          /\ n.op = r.op /\ n.yes = r.yes /\ n.by = r.by
      BY <1>2, <3>2 DEF TaskRecords, Steps
    <3> HIDE DEF n
    <3>4. n.at = "confirm" => ConfirmOK(n)
      BY <2>3, <3>1, <3>3 DEF ConfirmOK
    <3>5. n.at = "call" => CallOK(n)
      BY <2>3, <3>1, <3>3 DEF CallOK, MeantFor, SureFor
    <3>6. TaskOK(n)
      BY <3>3, <3>4, <3>5 DEF TaskOK
    <3>7. QED
      BY <3>1, <3>6, GoesKeeps
  <2>4. QED
    BY <2>2, <2>3
<1>5. QED
  BY <1>3, <1>4

\* A task that is given up, or fails.
LEMMA EndsKeep ==
  ASSUME HandsInv, NEW t \in Tasks, No(t) \/ CallFailed(t) \/ TaskListFails(t) PROVE HandsInv'
<1>1. TaskOK(task[t]) /\ task[t].at \in {"confirm", "call", "list"}
  BY DEF No, CallFailed, TaskListFails, At, HandsInv
<1>2. task[t].at # "off"
  BY <1>1
<1>3. task[t] \in TaskRecords
  BY <1>1, <1>2, TaskSorts
<1>4. TaskOK(Stopped(t)) /\ TaskOK(Off)
  BY <1>3, TaskParts
<1>5. Goes(t, Stopped(t)) \/ Goes(t, Off)
  BY DEF No, CallFailed, TaskListFails
<1>6. QED
  BY <1>4, <1>5, GoesKeeps

\* Nothing is under way at the start.
LEMMA HandsStart == ConsoleInit => HandsInv
<1> USE ConsoleConstants
<1> SUFFICES ASSUME ConsoleInit PROVE HandsInv
  OBVIOUS
<1>1. "mock" \in Backends /\ provider = "mock" /\ asked = {} /\ state \in [Insts -> States] /\ late \subseteq Insts
  BY DEF ConsoleInit, States
<1>2. shown = Snapshot("mock")
  BY DEF ConsoleInit
<1>3. ListsOK
  <2> DEFINE S == On("mock")
             f == [i \in S |-> state[i]]
  <2>1. S \in SUBSET Insts /\ \A i \in S : state[i] \in States /\ state[i] # "unborn"
    BY <1>1 DEF On
  <2>2. f \in [S -> States] /\ \A i \in DOMAIN f : f[i] # "unborn"
    BY <2>1
  <2>3. f \in UNION {[T -> States] : T \in SUBSET Insts}
    BY <2>1, <2>2
  <2>4. shown = [on |-> "mock", insts |-> f, late |-> late \cap S]
    BY <1>2 DEF Snapshot
  <2> HIDE DEF f, S
  <2>5. late \cap S \in SUBSET Insts
    BY <2>1
  <2>6. QED
    BY <1>1, <2>2, <2>3, <2>4, <2>5 DEF ListsOK
<1>4. DOMAIN task = Tasks /\ \A t \in Tasks : TaskOK(task[t])
  BY DEF ConsoleInit, TaskOK
<1>5. HitsWhatWasMeant /\ DestructiveIsConfirmed
  BY DEF ConsoleInit, HitsWhatWasMeant, DestructiveIsConfirmed
<1>6. QED
  BY <1>3, <1>4, <1>5 DEF HandsInv

\* Every step of the two hands.
LEMMA HandsKeep == HandsInv /\ [ConsoleNext]_consoleVars => HandsInv'
<1> SUFFICES ASSUME HandsInv, [ConsoleNext]_consoleVars PROVE HandsInv'
  OBVIOUS
<1>1. ASSUME NEW t \in Tasks, TaskStep(t) PROVE HandsInv'
  BY <1>1, YesKeeps, GetKeeps, CallKeeps, RefreshKeeps, EndsKeep DEF TaskStep
<1>2. ASSUME UNCHANGED consoleVars PROVE HandsInv'
  BY <1>2, NoTask DEF consoleVars, HandsInv, ListsOK
<1>3. ASSUME TickLists \/ \E b \in Backends : SetProvider(b) \/ ListArrives(b) PROVE HandsInv'
  BY <1>3, WorldKeeps
<1>4. ASSUME NEW t \in Tasks
      PROVE \/ ClickReap(t)
            \/ \E yes \in BOOLEAN :
                 \/ \E op \in Ops \ {"launch", "complete"}, name \in Names : TypeCommand(t, op, name, yes)
                 \/ \E i \in Insts : TypeLaunch(t, i, yes)
            \/ \E op \in Ops \ {"launch", "reap"}, i \in Insts : ClickCard(t, op, i)
            => HandsInv'
  BY BeginsKeeps
<1>5. QED
  BY <1>1, <1>2, <1>3, <1>4, Zenon DEF ConsoleNext
-----------------------------------------------------------------------------
\* The picker's list at the start, and after every step of it.
LEMMA PickerStarts == PickerInit => PickerInv
<1> SUFFICES ASSUME PickerInit PROVE PickerInv
  OBVIOUS
<1>1. seq = 0 /\ pending = {} /\ matches = "hidden" /\ timer = FALSE /\ cleared = FALSE
  BY DEF PickerInit
<1>2. QED
  BY <1>1 DEF PickerInv

\* Every step of the picker keeps its list.
LEMMA PickerKeeps == PickerInv /\ [PickerNext]_pickerVars => PickerInv'
<1> SUFFICES ASSUME PickerInv, [PickerNext]_pickerVars PROVE PickerInv'
  OBVIOUS
<1> USE DEF PickerInv
<1>1. ASSUME NEW q \in Queries \cup {""}, Edit(q) PROVE PickerInv'
  BY <1>1 DEF Edit
<1>2. ASSUME timer' = FALSE, RunQuery, UNCHANGED <<field, edits>> PROVE PickerInv'
  <2>1. CASE field = ""
    BY <1>2, <2>1 DEF RunQuery
  <2>2. CASE field # ""
    <3> DEFINE new == [n |-> seq + 1, query |-> field]
    <3>1. seq' = seq + 1 /\ cleared' = FALSE /\ pending' = pending \cup {new} /\ UNCHANGED matches
      BY <1>2, <2>2 DEF RunQuery
    <3>2. new.n = seq + 1 /\ new.query = field
      OBVIOUS
    <3> HIDE DEF new
    <3>3. \A p \in pending : p.n \in 1 .. seq' /\ p.n # seq + 1
      BY <3>1
    <3>4. seq' \in Nat /\ (\A p \in pending' : p.n \in 1 .. seq')
      BY <3>1, <3>2, <3>3
    <3>5. \A p \in pending' : p = new \/ (p \in pending /\ p.n # seq + 1)
      BY <3>1, <3>3
    <3>6. \A p, q \in pending' : p.n = q.n => p = q
      BY <3>2, <3>5
    <3>7. (\A p \in pending' : p.n = seq' => p.query = field') /\ new \in pending'
      BY <1>2, <3>1, <3>2, <3>5
    <3>8. QED
      BY <1>2, <3>1, <3>2, <3>4, <3>6, <3>7
  <2>3. QED
    BY <2>1, <2>2
<1>3. ASSUME NEW p \in pending, Arrives(p) PROVE PickerInv'
  BY <1>3 DEF Arrives
<1>4. ASSUME Pick PROVE PickerInv'
  BY <1>4 DEF Pick
<1>5. ASSUME UNCHANGED pickerVars PROVE PickerInv'
  BY <1>5 DEF pickerVars
<1>6. QED
  BY <1>1, <1>2, <1>3, <1>4, <1>5 DEF PickerNext, TimerFires, PressEnter

(***************************************************************************)
(* Whatever commands and clicks cross, whatever backend is chosen under    *)
(* them and whatever list arrives late: a hand reaches what it meant, and  *)
(* terminates nothing unconfirmed but what was to end on completion and is *)
(* signalled (commands.ts:588, dashboard.ts:607); and the picker's list is *)
(* of what stands in its field (dashboard.ts:350).                         *)
(***************************************************************************)
THEOREM HandsAlwaysSafe == FrontSpec => []HandsAreSafe
<1>1. FrontInit => HandsInv /\ PickerInv
  BY HandsStart, PickerStarts DEF FrontInit
<1>2. [FrontNext]_FrontVars => [ConsoleNext]_consoleVars /\ [PickerNext]_pickerVars
  BY DEF FrontNext, FrontVars, Only
<1>3. HandsInv => ConsoleTypeOK
  <2> SUFFICES ASSUME HandsInv PROVE ConsoleTypeOK
    OBVIOUS
  <2>1. ASSUME NEW t \in Tasks PROVE task[t].at \in Steps /\ (At(t, "call") => task[t].todo # {})
    <3>1. TaskOK(task[t])
      BY DEF HandsInv
    <3>2. CASE task[t].at = "off"
      BY <3>2 DEF At, Steps
    <3>3. CASE task[t].at # "off"
      <4>1. task[t] \in TaskRecords /\ (task[t].at = "call" => CallOK(task[t]))
        BY <3>1, <3>3, TaskSorts
      <4>2. QED
        BY <4>1 DEF TaskRecords, At, CallOK
    <3>4. QED
      BY <3>2, <3>3
  <2>2. shown.on \in Backends
    BY DEF HandsInv, ListsOK
  <2>3. QED
    BY <2>1, <2>2 DEF HandsInv, ListsOK, ConsoleTypeOK
<1>4. HandsInv => HitsWhatWasMeant /\ DestructiveIsConfirmed
  BY DEF HandsInv
<1>5. PickerInv => MatchesAreOfTheField
  BY DEF PickerInv, MatchesAreOfTheField
<1>6. HandsInv /\ PickerInv => HandsAreSafe
  BY <1>3, <1>4, <1>5 DEF HandsAreSafe
<1>7. HandsInv /\ PickerInv /\ [FrontNext]_FrontVars => (HandsInv /\ PickerInv)'
  BY <1>2, HandsKeep, PickerKeeps
<1>8. QED
  BY <1>1, <1>6, <1>7, PTL DEF FrontSpec
-----------------------------------------------------------------------------
(***************************************************************************)
(* Extensions at once.  A deadline is written by one that read an earlier  *)
(* one; none is below that of the launch.                                  *)
(***************************************************************************)
ExtendInv ==
    /\ ExtendTypeOK /\ deadline >= FirstTtl
    /\ \A e \in Extenders :
         /\ extension[e] # "idle" => computed[e] >= FirstTtl + Added(e)
         /\ extension[e] = "listing" => advice[e] # "none"
         /\ extension[e] \in {"idle", "resolved"} => advice[e] = "none"
    /\ CrossedKeepsOne

\* No extension is under way at the start.
LEMMA ExtendStarts == ExtendInit => ExtendInv
<1> USE ExtendConstants
<1> SUFFICES ASSUME ExtendInit PROVE ExtendInv
  OBVIOUS
<1> USE DEF ExtendInit
<1>1. ExtendTypeOK /\ deadline >= FirstTtl
  BY DEF ExtendTypeOK
<1>2. Counted = {}
  BY DEF Counted
<1>3. QED
  BY <1>1, <1>2 DEF ExtendInv, CrossedKeepsOne

\* What was written stays counted, and what is written is as long as its own grant, and longer.
LEMMA ExtendKeeps == ExtendInv /\ [ExtendNext]_extendVars => ExtendInv'
<1> USE ExtendConstants
<1> SUFFICES ASSUME ExtendInv, [ExtendNext]_extendVars PROVE ExtendInv'
  OBVIOUS
<1> DEFINE Each(e) ==
             /\ extension[e] # "idle" => computed[e] >= FirstTtl + Added(e)
             /\ extension[e] = "listing" => advice[e] # "none"
             /\ extension[e] \in {"idle", "resolved"} => advice[e] = "none"
           Counts(e) == \/ extension[e] \in {"tagged", "listing", "done", "lost"}
                        \/ extension[e] = "failed" /\ advice[e] # "none"
<1>1. ExtendTypeOK /\ deadline >= FirstTtl /\ (\A e \in Extenders : Each(e)) /\ CrossedKeepsOne
  BY DEF ExtendInv
<1>2. \A e \in Extenders : e \in Counted <=> Counts(e)
  BY DEF Counted
<1>3. \A e \in Extenders : (e \in Counted)' <=> Counts(e)'
  BY DEF Counted
<1>4. \A e \in Extenders : Granted[e] \in Nat \ {0}
  OBVIOUS
<1>5. ASSUME ExtendTypeOK', deadline' >= FirstTtl, \A e \in Extenders : Each(e)',
             \/ /\ deadline' = deadline
                /\ \A e \in Extenders : Counts(e)' <=> Counts(e)
                /\ \A e \in Extenders : Counts(e) => lapsed'[e] = lapsed[e]
             \/ \E e \in Extenders : Counts(e)' /\ deadline' >= FirstTtl + Added(e)'
      PROVE ExtendInv'
  <2>1. CrossedKeepsOne'
    <3>1. CASE /\ deadline' = deadline
               /\ \A e \in Extenders : Counts(e)' <=> Counts(e)
               /\ \A e \in Extenders : Counts(e) => lapsed'[e] = lapsed[e]
      <4>1. Counted' = Counted /\ \A e \in Counted : Added(e)' = Added(e)
        BY <3>1 DEF Counted, Added
      <4>2. QED
        BY <1>1, <3>1, <4>1 DEF CrossedKeepsOne
    <3>2. CASE \E e \in Extenders : Counts(e)' /\ deadline' >= FirstTtl + Added(e)'
      BY <1>3, <3>2 DEF CrossedKeepsOne
    <3>3. QED
      BY <1>5, <3>1, <3>2
  <2>2. QED
    BY <1>5, <2>1 DEF ExtendInv
<1>6. ASSUME NEW e \in Extenders, ExtendReads(e) PROVE ExtendInv'
  <2> DEFINE c == ComputeExtension(deadline, Granted[e])
             behind == IF deadline < now THEN now - deadline ELSE 0
  <2>1. now \in Nat /\ deadline \in Nat
    BY <1>1 DEF ExtendTypeOK
  <2>2. c \in Nat /\ behind \in Nat /\ c >= FirstTtl + (Granted[e] + behind)
    BY <1>1, <1>4, <2>1 DEF ComputeExtension
  <2>3. /\ extension[e] = "idle" /\ extension' = [extension EXCEPT ![e] = "resolved"]
        /\ computed' = [computed EXCEPT ![e] = c] /\ UNCHANGED <<now, deadline, advice>>
        /\ lapsed' = [lapsed EXCEPT ![e] = behind]
        /\ crossing' \subseteq crossing \cup UnderWay \cup {e}
    BY <1>6 DEF ExtendReads, Moves
  <2> HIDE DEF c, behind
  <2>4. ExtendTypeOK'
    BY <1>1, <2>2, <2>3 DEF ExtendTypeOK, UnderWay
  <2>5. ASSUME NEW x \in Extenders, x # e
        PROVE  /\ Each(x)' /\ (Counts(x)' <=> Counts(x)) /\ lapsed'[x] = lapsed[x]
    <3>1. /\ extension'[x] = extension[x] /\ computed'[x] = computed[x]
          /\ advice'[x] = advice[x] /\ lapsed'[x] = lapsed[x]
      BY <1>1, <2>3, <2>5 DEF ExtendTypeOK
    <3>2. QED
      BY <1>1, <3>1 DEF Added
  <2>6. Each(e)' /\ ~ Counts(e) /\ ~ Counts(e)'
    <3>1. /\ extension'[e] = "resolved" /\ computed'[e] = c /\ lapsed'[e] = behind
          /\ extension[e] = "idle" /\ advice[e] = "none" /\ advice'[e] = "none"
      BY <1>1, <2>3 DEF ExtendTypeOK
    <3>2. computed'[e] >= FirstTtl + Added(e)'
      BY <2>2, <3>1 DEF Added
    <3>3. QED
      BY <3>1, <3>2
  <2>7. \A x \in Extenders : Each(x)' /\ (Counts(x)' <=> Counts(x)) /\ (Counts(x) => lapsed'[x] = lapsed[x])
    BY <2>5, <2>6
  <2>8. QED
    BY <1>1, <1>5, <2>3, <2>4, <2>7
<1>7. ASSUME NEW e \in Extenders, TagsWritten(e) \/ TagsLost(e) PROVE ExtendInv'
  <2>1. PICK to \in {"tagged", "lost"} :
           /\ extension[e] = "resolved" /\ extension' = [extension EXCEPT ![e] = to]
           /\ deadline' = computed[e] /\ UNCHANGED <<now, computed, advice, crossing, lapsed>>
    BY <1>7 DEF TagsWritten, TagsLost, CreateTags, Moves
  <2>2. /\ computed[e] \in Nat /\ computed[e] >= FirstTtl + Added(e)
        /\ Added(e) \in Nat /\ Added(e)' = Added(e)
    <3>1. computed[e] \in Nat /\ lapsed[e] \in Nat /\ Granted[e] \in Nat
      BY <1>1, <1>4 DEF ExtendTypeOK
    <3>2. computed[e] >= FirstTtl + Added(e)
      BY <1>1, <2>1
    <3>3. Added(e) \in Nat
      BY <3>1 DEF Added
    <3>4. Added(e)' = Added(e)
      BY <2>1 DEF Added
    <3>5. QED
      BY <3>1, <3>2, <3>3, <3>4
  <2>3. ExtendTypeOK' /\ deadline' >= FirstTtl
    <3>1. Added(e) \in Nat /\ FirstTtl \in Nat /\ deadline' \in Nat
      BY <2>1, <2>2
    <3>2. deadline' >= FirstTtl
      BY <2>1, <2>2, <3>1
    <3>3. extension' \in [Extenders -> {"idle", "resolved", "tagged", "listing", "done", "failed", "lost"}]
      BY <1>1, <2>1 DEF ExtendTypeOK
    <3>4. ExtendTypeOK'
      BY <1>1, <2>1, <3>1, <3>3 DEF ExtendTypeOK
    <3>5. QED
      BY <3>2, <3>4
  <2>4. \A x \in Extenders : Each(x)'
    BY <1>1, <2>1 DEF ExtendTypeOK, Added
  <2>5. Counts(e)'
    BY <1>1, <2>1 DEF ExtendTypeOK
  <2>6. QED
    BY <1>5, <2>1, <2>2, <2>3, <2>4, <2>5
<1>8. ASSUME NEW e \in Extenders, TagsRefused(e) \/ ReloadAnswered(e) \/ ExtendListed(e) PROVE ExtendInv'
  <2>1. /\ UNCHANGED <<now, deadline, computed, crossing, lapsed>>
        /\ \/ extension[e] = "resolved" /\ extension' = [extension EXCEPT ![e] = "failed"] /\ UNCHANGED advice
           \/ extension[e] = "tagged" /\ extension' = [extension EXCEPT ![e] = "listing"]
              /\ \E what \in {"requested", "reload by hand"} : advice' = [advice EXCEPT ![e] = what]
           \/ extension[e] = "listing" /\ UNCHANGED advice
              /\ \E to \in {"done", "failed"} : extension' = [extension EXCEPT ![e] = to]
    BY <1>8 DEF TagsRefused, ReloadAnswered, ExtendListed, Moves
  <2>2. ExtendTypeOK'
    BY <1>1, <2>1 DEF ExtendTypeOK
  <2>3. \A x \in Extenders : Each(x)' /\ (Counts(x)' <=> Counts(x))
    BY <1>1, <2>1 DEF ExtendTypeOK, Added
  <2>4. QED
    BY <1>1, <1>5, <2>1, <2>2, <2>3
<1>9. ASSUME ExtendTick \/ UNCHANGED extendVars PROVE ExtendInv'
  <2>1. UNCHANGED <<deadline, extension, computed, advice, crossing, lapsed>> /\ now' \in {now, now + 1}
    BY <1>9 DEF ExtendTick, extendVars
  <2>2. ExtendTypeOK'
    <3>1. now \in Nat
      BY <1>1 DEF ExtendTypeOK
    <3>2. now' \in Nat
      BY <2>1, <3>1
    <3>3. QED
      BY <1>1, <2>1, <3>2 DEF ExtendTypeOK
  <2>3. \A x \in Extenders : Each(x)' /\ (Counts(x)' <=> Counts(x))
    BY <1>1, <2>1 DEF Added
  <2>4. QED
    BY <1>1, <1>5, <2>1, <2>2, <2>3
<1>10. QED
  BY <1>6, <1>7, <1>8, <1>9 DEF ExtendNext

(***************************************************************************)
(* However many extensions cross, and whatever fails after a write: the    *)
(* deadline holds one of those that were written in full, and is never     *)
(* below that of the launch (client.ts:538-567).                           *)
(***************************************************************************)
THEOREM CrossedAlwaysKeepsOne == ExtendSpec => [](ExtendTypeOK /\ CrossedKeepsOne /\ deadline >= FirstTtl)
<1>1. ExtendInv => ExtendTypeOK /\ CrossedKeepsOne /\ deadline >= FirstTtl
  BY DEF ExtendInv
<1>2. QED
  BY <1>1, ExtendStarts, ExtendKeeps, PTL DEF ExtendSpec

\* What is counted together, each once.
Sums(F, C) ==
    /\ F \in [SUBSET C -> Nat] /\ F[{}] = 0
    /\ \A S \in SUBSET C : \A e \in S : F[S] = Added(e) + F[S \ {e}]

\* While none have crossed, one at most is under way, and it read the deadline that stands.
AddInv ==
    crossing = {} => /\ \E F : Sums(F, Counted) /\ deadline = FirstTtl + F[Counted]
                     /\ \A e \in UnderWay : computed[e] = deadline + Added(e) /\ UnderWay = {e}

\* The fold over the counted ones is their sum.
LEMMA SumIsFold ==
  ASSUME NEW C \in SUBSET Extenders, NEW F, Sums(F, C)
  PROVE  MapThenSumSet(Added, C) = F[C]
<1> DEFINE iter == CHOOSE i : i = [s \in SUBSET C |-> IF s = {} THEN 0
                                     ELSE LET x == CHOOSE x \in s : TRUE IN Added(x) + i[s \ {x}]]
<1>1. F = [s \in SUBSET C |-> IF s = {} THEN 0 ELSE LET x == CHOOSE x \in s : TRUE IN Added(x) + F[s \ {x}]]
  <2>1. F = [s \in SUBSET C |-> F[s]]
    BY DEF Sums
  <2>2. ASSUME NEW s \in SUBSET C, s # {}
        PROVE  LET x == CHOOSE x \in s : TRUE IN F[s] = Added(x) + F[s \ {x}]
    <3>1. (CHOOSE x \in s : TRUE) \in s
      BY <2>2
    <3>2. QED
      BY <3>1 DEF Sums
  <2>3. F[{}] = 0
    BY DEF Sums
  <2>4. ASSUME NEW s \in SUBSET C
        PROVE  F[s] = IF s = {} THEN 0 ELSE LET x == CHOOSE x \in s : TRUE IN Added(x) + F[s \ {x}]
    BY <2>2, <2>3, Zenon
  <2>5. QED
    BY <2>1, <2>4, Zenon
<1>2. iter = [s \in SUBSET C |-> IF s = {} THEN 0 ELSE LET x == CHOOSE x \in s : TRUE IN Added(x) + iter[s \ {x}]]
  BY <1>1
<1>3. MapThenSumSet(Added, C) = iter[C]
  BY DEF MapThenSumSet, MapThenFoldSet
<1> HIDE DEF iter
<1> DEFINE Wrong == {n \in Nat : \E s \in SUBSET C : Cardinality(s) = n /\ iter[s] # F[s]}
<1>4. IsFiniteSet(C)
  BY ExtendConstants, FS_Subset
<1>5. Wrong = {}
  <2> SUFFICES ASSUME Wrong # {} PROVE FALSE
    OBVIOUS
  <2>1. PICK n \in Wrong : \A m \in Wrong : n <= m
    <3>1. Wrong \subseteq Nat
      OBVIOUS
    <3> HIDE DEF Wrong
    <3>2. QED
      BY <3>1, FirstOne
  <2>2. PICK s \in SUBSET C : Cardinality(s) = n /\ iter[s] # F[s]
    OBVIOUS
  <2>3. CASE s = {}
    BY <1>2, <2>2, <2>3 DEF Sums
  <2>4. CASE s # {}
    <3> DEFINE x == CHOOSE x \in s : TRUE
    <3>1. x \in s /\ iter[s] = Added(x) + iter[s \ {x}] /\ F[s] = Added(x) + F[s \ {x}]
      <4>1. x \in s
        BY <2>4
      <4>2. iter[s] = Added(x) + iter[s \ {x}]
        BY <1>2, <2>4, Zenon
      <4>3. QED
        BY <4>1, <4>2 DEF Sums
    <3> HIDE DEF x
    <3>2. iter[s \ {x}] # F[s \ {x}]
      BY <2>2, <3>1
    <3>3. IsFiniteSet(s) /\ n \in Nat
      BY <1>4, <2>1, FS_Subset
    <3>4. Cardinality(s \ {x}) = n - 1 /\ n - 1 \in Nat
      <4>1. Cardinality(s \ {x}) = Cardinality(s) - 1 /\ IsFiniteSet(s \ {x})
        BY <3>1, <3>3, FS_RemoveElement
      <4>2. Cardinality(s \ {x}) \in Nat
        BY <4>1, FS_CardinalityType
      <4>3. QED
        BY <2>2, <4>1, <4>2
    <3>5. n - 1 \in Wrong
      BY <3>2, <3>4
    <3>6. QED
      BY <2>1, <3>3, <3>5
  <2>5. QED
    BY <2>3, <2>4
<1>6. C \in SUBSET C /\ Cardinality(C) \in Nat
  BY <1>4, FS_CardinalityType
<1>7. QED
  BY <1>3, <1>5, <1>6

\* One more is counted.
LEMMA SumsOneMore ==
  ASSUME lapsed \in [Extenders -> Nat], NEW C \in SUBSET Extenders, NEW F, Sums(F, C), NEW e \in Extenders, e \notin C
  PROVE  \E H : Sums(H, C \cup {e}) /\ H[C \cup {e}] = F[C] + Added(e)
<1> DEFINE H == [S \in SUBSET (C \cup {e}) |-> IF e \in S THEN F[S \ {e}] + Added(e) ELSE F[S]]
<1>1. Added(e) \in Nat /\ \A x \in C : Added(x) \in Nat
  BY ExtendConstants DEF Added
<1>2. \A S \in SUBSET (C \cup {e}) : S \ {e} \in SUBSET C /\ (e \notin S => S \in SUBSET C)
  OBVIOUS
<1>3. \A S \in SUBSET C : F[S] \in Nat
  BY DEF Sums
<1>4. H \in [SUBSET (C \cup {e}) -> Nat]
  <2>1. \A a, b \in Nat : a + b \in Nat
    OBVIOUS
  <2>2. \A S \in SUBSET (C \cup {e}) : F[S \ {e}] + Added(e) \in Nat /\ (e \notin S => F[S] \in Nat)
    BY <1>1, <1>2, <1>3, <2>1, Zenon
  <2>3. QED
    BY <2>2, Zenon
<1>5. \A S \in SUBSET (C \cup {e}) : H[S] = IF e \in S THEN F[S \ {e}] + Added(e) ELSE F[S]
  OBVIOUS
<1> HIDE DEF H
<1>6. H[{}] = 0
  BY <1>5 DEF Sums
<1>7. ASSUME NEW S \in SUBSET (C \cup {e}), NEW x \in S PROVE H[S] = Added(x) + H[S \ {x}]
  <2>1. S \ {x} \in SUBSET (C \cup {e})
    OBVIOUS
  <2>2. CASE x = e
    <3>1. H[S] = F[S \ {e}] + Added(e) /\ H[S \ {x}] = F[S \ {e}]
      BY <1>5, <2>1, <2>2
    <3>2. F[S \ {e}] \in Nat
      BY <1>2, <1>3
    <3>3. Added(e) \in Nat
      BY <1>1
    <3>4. \A f, g \in Nat : f + g = g + f
      OBVIOUS
    <3>5. F[S \ {e}] + Added(e) = Added(e) + F[S \ {e}]
      BY <3>2, <3>3, <3>4, Zenon
    <3>6. QED
      BY <2>2, <3>1, <3>5, Zenon
  <2>3. CASE x # e /\ e \in S
    <3>1. H[S] = F[S \ {e}] + Added(e) /\ H[S \ {x}] = F[(S \ {x}) \ {e}] + Added(e)
      BY <1>5, <2>1, <2>3
    <3>2. S \ {e} \in SUBSET C /\ x \in S \ {e} /\ (S \ {x}) \ {e} = (S \ {e}) \ {x}
      BY <2>3
    <3>3. F[S \ {e}] = Added(x) + F[(S \ {e}) \ {x}]
      BY <3>2 DEF Sums
    <3>4. F[S \ {e}] \in Nat /\ F[(S \ {e}) \ {x}] \in Nat /\ Added(x) \in Nat
      BY <1>1, <1>3, <3>2
    <3>5. \A f, g, h \in Nat : (g + f) + h = g + (f + h)
      OBVIOUS
    <3>6. Added(e) \in Nat
      BY <1>1
    <3>7. H[S] = (Added(x) + F[(S \ {e}) \ {x}]) + Added(e)
      BY <3>1, <3>3, Zenon
    <3>8. H[S \ {x}] = F[(S \ {e}) \ {x}] + Added(e)
      BY <3>1, <3>2, Zenon
    <3>9. (Added(x) + F[(S \ {e}) \ {x}]) + Added(e) = Added(x) + (F[(S \ {e}) \ {x}] + Added(e))
      BY <3>4, <3>5, <3>6, Zenon
    <3>10. QED
      BY <3>7, <3>8, <3>9, Zenon
  <2>4. CASE x # e /\ e \notin S
    <3>1. H[S] = F[S] /\ H[S \ {x}] = F[S \ {x}] /\ S \in SUBSET C
      BY <1>5, <2>1, <2>4
    <3>2. QED
      BY <3>1 DEF Sums
  <2>5. QED
    BY <2>2, <2>3, <2>4
<1>8. H[C \cup {e}] = F[C] + Added(e)
  <2>1. (C \cup {e}) \ {e} = C
    OBVIOUS
  <2>2. QED
    BY <1>5, <2>1
<1>9. Sums(H, C \cup {e})
  BY <1>4, <1>6, <1>7 DEF Sums
<1>10. QED
  BY <1>8, <1>9

\* Nothing is counted at the start.
LEMMA AddStarts == ExtendInit => AddInv
<1> SUFFICES ASSUME ExtendInit PROVE AddInv
  OBVIOUS
<1>1. Counted = {} /\ UnderWay = {}
  BY DEF ExtendInit, Counted, UnderWay
<1>2. deadline = FirstTtl /\ FirstTtl \in Nat
  BY ExtendConstants DEF ExtendInit
<1> DEFINE F == [S \in SUBSET {} |-> 0]
<1>3. Sums(F, {}) /\ F[{}] = 0
  BY DEF Sums
<1>4. deadline = FirstTtl + 0
  BY <1>2
<1>5. QED
  BY <1>1, <1>3, <1>4 DEF AddInv

\* The sum stands while what is counted and what each of them adds do.
LEMMA SumsStand ==
  ASSUME NEW F, Sums(F, Counted), Counted' = Counted, \A e \in Counted : lapsed'[e] = lapsed[e]
  PROVE  Sums(F, Counted)'
BY DEF Sums, Added

\* An extension adds to the deadline it read, and no other comes between while none cross.
LEMMA AddKeeps == ExtendInv /\ AddInv /\ [ExtendNext]_extendVars => AddInv'
<1>0. SUFFICES ASSUME ExtendInv, AddInv, [ExtendNext]_extendVars, crossing' = {}
      PROVE  /\ \E F : Sums(F, Counted)' /\ deadline' = FirstTtl + F[Counted']
             /\ \A x \in UnderWay' : computed'[x] = deadline' + Added(x)' /\ UnderWay' = {x}
  BY DEF AddInv
<1>1. /\ now \in Nat /\ deadline \in Nat /\ computed \in [Extenders -> Nat]
      /\ extension \in [Extenders -> {"idle", "resolved", "tagged", "listing", "done", "failed", "lost"}]
      /\ advice \in [Extenders -> {"none", "requested", "reload by hand"}]
      /\ lapsed \in [Extenders -> Nat]
      /\ \A e \in Extenders : /\ extension[e] = "listing" => advice[e] # "none"
                              /\ extension[e] \in {"idle", "resolved"} => advice[e] = "none"
      /\ Counted \in SUBSET Extenders
  BY <1>0 DEF ExtendInv, ExtendTypeOK, Counted
<1>2. \A e \in Extenders : Granted[e] \in Nat /\ FirstTtl \in Nat /\ Added(e) \in Nat
  <2>1. ASSUME NEW e \in Extenders PROVE Granted[e] \in Nat /\ FirstTtl \in Nat /\ lapsed[e] \in Nat
    BY <1>1, ExtendConstants
  <2>2. ASSUME NEW e \in Extenders PROVE Added(e) \in Nat
    BY <2>1 DEF Added
  <2>3. QED
    BY <2>1, <2>2
<1>3. ASSUME crossing = {}
      PROVE  /\ \E F : Sums(F, Counted) /\ deadline = FirstTtl + F[Counted]
             /\ \A e \in UnderWay : computed[e] = deadline + Added(e) /\ UnderWay = {e}
  BY <1>0, <1>3 DEF AddInv
<1>4. ASSUME NEW e \in Extenders, ExtendReads(e)
      PROVE  /\ \E F : Sums(F, Counted)' /\ deadline' = FirstTtl + F[Counted']
             /\ \A x \in UnderWay' : computed'[x] = deadline' + Added(x)' /\ UnderWay' = {x}
  <2> DEFINE behind == IF deadline < now THEN now - deadline ELSE 0
  <2>1. UnderWay = {} /\ crossing = {}
    BY <1>0, <1>4 DEF ExtendReads
  <2>2. extension[e] = "idle" /\ extension' = [extension EXCEPT ![e] = "resolved"] /\ advice' = advice
        /\ deadline' = deadline /\ lapsed' = [lapsed EXCEPT ![e] = behind]
        /\ computed' = [computed EXCEPT ![e] = ComputeExtension(deadline, Granted[e])]
    BY <1>4 DEF ExtendReads, Moves
  <2>3. ComputeExtension(deadline, Granted[e]) = deadline + (Granted[e] + behind)
    <3>1. now \in Nat /\ deadline \in Nat /\ Granted[e] \in Nat
      BY <1>1, <1>2
    <3>2. CASE deadline < now
      BY <3>1, <3>2 DEF ComputeExtension
    <3>3. CASE ~(deadline < now)
      BY <3>1, <3>3 DEF ComputeExtension
    <3>4. QED
      BY <3>2, <3>3
  <2> HIDE DEF behind
  <2>4. Counted' = Counted /\ UnderWay' = {e} /\ e \notin Counted
    BY <1>1, <2>1, <2>2 DEF Counted, UnderWay
  <2>5. computed'[e] = deadline' + Added(e)'
    BY <1>1, <2>2, <2>3 DEF Added
  <2>6. \A x \in Counted : lapsed'[x] = lapsed[x]
    BY <1>1, <2>2, <2>4
  <2>7. PICK F : Sums(F, Counted) /\ deadline = FirstTtl + F[Counted]
    BY <1>3, <2>1
  <2>8. Sums(F, Counted)' /\ deadline' = FirstTtl + F[Counted']
    BY <2>2, <2>4, <2>6, <2>7, SumsStand
  <2>9. QED
    BY <2>4, <2>5, <2>8
<1>5. ASSUME NEW e \in Extenders, TagsWritten(e) \/ TagsLost(e)
      PROVE  /\ \E F : Sums(F, Counted)' /\ deadline' = FirstTtl + F[Counted']
             /\ \A x \in UnderWay' : computed'[x] = deadline' + Added(x)' /\ UnderWay' = {x}
  <2>1. PICK to \in {"tagged", "lost"} :
           /\ crossing = {} /\ extension[e] = "resolved" /\ extension' = [extension EXCEPT ![e] = to]
           /\ advice' = advice /\ lapsed' = lapsed /\ deadline' = computed[e]
    BY <1>0, <1>5 DEF TagsWritten, TagsLost, CreateTags, Moves
  <2>2. UnderWay = {e} /\ deadline' = deadline + Added(e)
    BY <1>3, <2>1 DEF UnderWay
  <2>3. Counted' = Counted \cup {e} /\ e \notin Counted /\ UnderWay' = {}
    <3>1. \A x \in Extenders : x \in UnderWay <=> x = e
      BY <2>2
    <3>2. \A x \in Extenders : extension[x] = "resolved" <=> x = e
      BY <3>1 DEF UnderWay
    <3>3. UnderWay' = {}
      BY <1>1, <2>1, <3>2 DEF UnderWay
    <3>4. e \notin Counted /\ Counted' = Counted \cup {e}
      BY <1>1, <2>1 DEF Counted
    <3>5. QED
      BY <3>3, <3>4
  <2>4. PICK F : Sums(F, Counted) /\ deadline = FirstTtl + F[Counted]
    BY <1>3, <2>1
  <2>5. PICK H : Sums(H, Counted \cup {e}) /\ H[Counted \cup {e}] = F[Counted] + Added(e)
    BY <1>1, <2>3, <2>4, SumsOneMore
  <2>6. F[Counted] \in Nat
    BY <2>4 DEF Sums
  <2>7. deadline' = FirstTtl + H[Counted']
    <3>1. deadline' = (FirstTtl + F[Counted]) + Added(e)
      BY <2>2, <2>4
    <3>2. \A a, b, c \in Nat : (a + b) + c = a + (b + c)
      OBVIOUS
    <3>3. (FirstTtl + F[Counted]) + Added(e) = FirstTtl + (F[Counted] + Added(e))
      BY <1>2, <2>6, <3>2, Zenon
    <3>4. QED
      BY <2>3, <2>5, <3>1, <3>3, Zenon
  <2>8. Sums(H, Counted)'
    BY <2>1, <2>3, <2>5 DEF Sums, Added
  <2>9. QED
    BY <2>3, <2>7, <2>8
<1>6. ASSUME NEW e \in Extenders, TagsRefused(e)
      PROVE  /\ \E F : Sums(F, Counted)' /\ deadline' = FirstTtl + F[Counted']
             /\ \A x \in UnderWay' : computed'[x] = deadline' + Added(x)' /\ UnderWay' = {x}
  <2>1. crossing = {} /\ extension[e] = "resolved" /\ extension' = [extension EXCEPT ![e] = "failed"] /\ advice' = advice
        /\ lapsed' = lapsed /\ deadline' = deadline /\ computed' = computed
    BY <1>0, <1>6 DEF TagsRefused, Moves
  <2>2. Counted' = Counted /\ UnderWay' \subseteq UnderWay \ {e}
    BY <1>1, <2>1 DEF Counted, UnderWay
  <2>3. e \in UnderWay
    BY <2>1 DEF UnderWay
  <2>4. UnderWay' = {}
    BY <1>3, <2>1, <2>2, <2>3
  <2>5. QED
    BY <1>3, <2>1, <2>2, <2>4, SumsStand
<1>7. ASSUME NEW e \in Extenders, ReloadAnswered(e) \/ ExtendListed(e)
      PROVE  /\ \E F : Sums(F, Counted)' /\ deadline' = FirstTtl + F[Counted']
             /\ \A x \in UnderWay' : computed'[x] = deadline' + Added(x)' /\ UnderWay' = {x}
  <2>1. /\ crossing = {} /\ lapsed' = lapsed /\ deadline' = deadline /\ computed' = computed
        /\ \/ extension[e] = "tagged" /\ extension' = [extension EXCEPT ![e] = "listing"]
              /\ \E what \in {"requested", "reload by hand"} : advice' = [advice EXCEPT ![e] = what]
           \/ extension[e] = "listing" /\ advice' = advice
              /\ \E to \in {"done", "failed"} : extension' = [extension EXCEPT ![e] = to]
    BY <1>0, <1>7 DEF ReloadAnswered, ExtendListed, Moves
  <2>2. Counted' = Counted /\ UnderWay' = UnderWay
    BY <1>1, <2>1 DEF Counted, UnderWay
  <2>3. \A x \in UnderWay' : computed'[x] = deadline' + Added(x)' /\ UnderWay' = {x}
    BY <1>3, <2>1, <2>2 DEF Added
  <2>4. QED
    BY <1>3, <2>1, <2>2, <2>3, SumsStand
<1>8. ASSUME ExtendTick \/ UNCHANGED extendVars
      PROVE  /\ \E F : Sums(F, Counted)' /\ deadline' = FirstTtl + F[Counted']
             /\ \A x \in UnderWay' : computed'[x] = deadline' + Added(x)' /\ UnderWay' = {x}
  <2>1. crossing = {} /\ UNCHANGED <<deadline, extension, computed, advice, lapsed>>
    BY <1>0, <1>8 DEF ExtendTick, extendVars
  <2>2. Counted' = Counted /\ UnderWay' = UnderWay
    BY <2>1 DEF Counted, UnderWay
  <2>3. \A x \in UnderWay' : computed'[x] = deadline' + Added(x)' /\ UnderWay' = {x}
    BY <1>3, <2>1, <2>2 DEF Added
  <2>4. QED
    BY <1>3, <2>1, <2>2, <2>3, SumsStand
<1>9. QED
  BY <1>0, <1>4, <1>5, <1>6, <1>7, <1>8 DEF ExtendNext

\* What is counted is what the deadline adds up.
LEMMA AllAddUp == ExtendInv /\ AddInv => ExtensionsAddUp
<1> SUFFICES ASSUME ExtendInv, AddInv PROVE ExtensionsAddUp
  OBVIOUS
<1>1. ExtendTypeOK /\ CrossedKeepsOne
  BY DEF ExtendInv
<1>2. AddsUpUnlessCrossed
  <2>1. SUFFICES ASSUME crossing = {} PROVE deadline = FirstTtl + MapThenSumSet(Added, Counted)
    BY DEF AddsUpUnlessCrossed
  <2>2. PICK F : Sums(F, Counted) /\ deadline = FirstTtl + F[Counted]
    BY <2>1 DEF AddInv
  <2>3. MapThenSumSet(Added, Counted) = F[Counted]
    <3>1. Counted \in SUBSET Extenders
      BY DEF Counted
    <3>2. QED
      BY <2>2, <3>1, SumIsFold
  <2>4. QED
    BY <2>2, <2>3
<1>3. QED
  BY <1>1, <1>2 DEF ExtensionsAddUp

(***************************************************************************)
(* However many extensions there are, of whatever durations: those that    *)
(* did not cross add up to the deadline, each with the time the instance   *)
(* had been overdue, whatever fails and whichever answer is lost, and      *)
(* those that crossed lose no more than each other (client.ts:538-567).    *)
(***************************************************************************)
THEOREM ExtensionsAlwaysAddUp == ExtendSpec => []ExtensionsAddUp
  BY ExtendStarts, ExtendKeeps, AddStarts, AddKeeps, AllAddUp, PTL DEF ExtendSpec

-----------------------------------------------------------------------------
(***************************************************************************)
(* The doors.  What waits for its confirmation, or to be launched as a     *)
(* member, are bounds as the door reads them from the texts.               *)
(***************************************************************************)
FanOptions == [cap : Nat, delay : Nat, viable : Int, density : Int, left : 0 .. 3]

\* A bound in time as it was typed, where the door has a flag or a field for it.
AsTyped(bounds, f) == Text(f) \in {"good", "large"} => bounds[f] = NumberOrZero(Text(f))
HasDoor(f) == f = "ttl" \/ request.door \in {"launch", "form", "array", "sweep"}

AskedInv ==
    intake = "asks" =>
        /\ request.door = "launch" /\ "no-timeout" \in request.toggles
        /\ \A f \in {"ttl", "idle"} : Text(f) \notin {"minus", "slip"} /\ AsTyped(input, f)

\* A member whose slip was not refused at the door is refused when it is launched.
MembersInv ==
    fan.left > 0 =>
        /\ request.door \in FanDoors /\ intake = "started"
        /\ \A f \in {"ttl", "idle"} : HasDoor(f) =>
             AsTyped(input, f) /\ (Text(f) \in {"minus", "slip"} => input[f] = Refused)

EntriesInv ==
    /\ request \in Requests /\ real \in BOOLEAN /\ intake \in {"typed", "asks", "refused", "started"}
    /\ fan \in FanOptions /\ (intake # "started" => fan.left = 0)
    /\ AskedInv /\ MembersInv /\ NothingBillsUnbounded /\ SlipsNeverLaunch /\ ThresholdIsReachable

\* What the readers of a text return.
LEMMA Readers ==
  ASSUME NEW txt \in Classes
  PROVE  /\ NumberOrZero(txt) \in Int /\ Max0(NumberOrZero(txt)) \in Nat /\ Max0(DelayOf(txt)) \in Nat
         /\ \A f : DurFlag(f, txt) # Refused => txt \notin {"minus", "slip"}
                     /\ (txt \in {"good", "large"} => DurFlag(f, txt) = NumberOrZero(txt))
         /\ txt \in {"minus", "slip"} => ToSpecDuration(txt) = Refused
         /\ txt \in {"good", "large"} => ToSpecDuration(txt) = NumberOrZero(txt)
BY DEF Classes, NumberOrZero, Max0, DelayOf, DurFlag, Stands, ToSpecDuration, Good, Large, Refused

\* What stands in a field is of one of the classes.
LEMMA ClassOfText ==
  ASSUME request \in Requests, NEW f \in {"ttl", "idle", "cost", "cap", "delay", "viable", "density"}
  PROVE  Text(f) \in Classes
<1>1. request \in RequestFields
  BY EntriesConstants
<1>2. QED
  BY <1>1 DEF RequestFields, Text

\* Nothing is asked or started before anything is typed.
LEMMA EntriesStart == EntriesInit => EntriesInv
BY EntriesConstants DEF EntriesInit, EntriesInv, FanOptions, NoFan, AskedInv, MembersInv,
   NothingBillsUnbounded, SlipsNeverLaunch, ThresholdIsReachable

\* What was launched stays as it is honoured, where only the intake or the fan-out goes on.
HonoursRuns == NothingBillsUnbounded /\ SlipsNeverLaunch

\* A launch that is bounded, or unlimited on purpose, leaves the launches honoured.
LEMMA OneMoreRun ==
  ASSUME HonoursRuns, UNCHANGED <<request, real>>, NEW bounds, NEW sure, Runs(bounds, sure),
         Unlimited(bounds) => request.door = "launch" /\ "no-timeout" \in request.toggles /\ sure,
         \A f \in {"ttl", "idle"} : HasDoor(f) => Text(f) \notin {"minus", "slip"} /\ AsTyped(bounds, f)
  PROVE  HonoursRuns'
<1>1. NothingBillsUnbounded'
  BY DEF HonoursRuns, NothingBillsUnbounded, Runs, Unlimited
<1>2. SlipsNeverLaunch'
  BY DEF HonoursRuns, SlipsNeverLaunch, Runs, HasDoor, AsTyped, Text
<1>3. QED
  BY <1>1, <1>2 DEF HonoursRuns

\* Nor does a step that launches nothing change them.
LEMMA NoMoreRuns ==
  ASSUME HonoursRuns, UNCHANGED <<request, real, runs>>
  PROVE  HonoursRuns'
BY DEF HonoursRuns, NothingBillsUnbounded, SlipsNeverLaunch, Unlimited, Text

\* Who is turned away has nothing.
LEMMA TurnedAway == ASSUME EntriesInv, TurnAway, intake # "started" PROVE EntriesInv'
<1>1. HonoursRuns'
  BY NoMoreRuns DEF TurnAway, HonoursRuns, EntriesInv
<1>2. QED
  BY <1>1 DEF EntriesInv, HonoursRuns, TurnAway, AskedInv, MembersInv, ThresholdIsReachable, FanOptions

\* A line that is not refused has the bounds that were typed.
LEMMA LineAsTyped ==
  ASSUME request \in Requests, ~ LineRefused, NEW f \in {"ttl", "idle"}
  PROVE  Text(f) \notin {"minus", "slip"} /\ AsTyped(Typed, f)
BY ClassOfText, Readers DEF LineRefused, Typed, AsTyped

\* A command line launches, asks or turns away.
LEMMA LaunchLineKeeps == ASSUME EntriesInv, LaunchLine PROVE EntriesInv'
<1>1. CASE LineRefused \/ (Unlimited(Typed) /\ "no-timeout" \notin request.toggles)
  BY <1>1, TurnedAway DEF LaunchLine
<1>2. CASE ~ (LineRefused \/ (Unlimited(Typed) /\ "no-timeout" \notin request.toggles))
  <2> USE <1>2 DEF LaunchLine
  <2>1. \A f \in {"ttl", "idle"} : Text(f) \notin {"minus", "slip"} /\ AsTyped(Typed, f)
    BY LineAsTyped DEF EntriesInv
  <2>2. HonoursRuns'
    <3>1. CASE UNCHANGED runs
      BY <3>1, NoMoreRuns DEF HonoursRuns, EntriesInv
    <3>2. CASE Runs(Typed, "yes" \in request.toggles) /\ ~ (Unlimited(Typed) /\ "yes" \notin request.toggles)
      BY <2>1, <3>2, OneMoreRun DEF HonoursRuns, EntriesInv
    <3>3. QED
      BY <3>1, <3>2
  <2>3. AskedInv'
    <3> SUFFICES ASSUME intake' = "asks" PROVE AskedInv'
      BY DEF AskedInv
    <3>1. Unlimited(Typed) /\ input' = Typed /\ UNCHANGED request
      OBVIOUS
    <3>2. QED
      BY <2>1, <3>1 DEF AskedInv, AsTyped, Text
  <2>4. fan.left = 0 /\ UNCHANGED <<request, real, fan>> /\ intake' \in {"asks", "started"}
    BY DEF EntriesInv
  <2>5. MembersInv' /\ ThresholdIsReachable'
    BY <2>4 DEF MembersInv, ThresholdIsReachable
  <2>6. QED
    BY <2>2, <2>3, <2>4, <2>5 DEF EntriesInv, HonoursRuns
<1>3. QED
  BY <1>1, <1>2

\* What was asked launches as it was typed.
LEMMA ConfirmedKeeps == ASSUME EntriesInv, Confirmed PROVE EntriesInv'
<1>1. HonoursRuns'
  BY OneMoreRun DEF Confirmed, HonoursRuns, EntriesInv, AskedInv
<1>2. fan.left = 0 /\ request.door = "launch" /\ UNCHANGED <<request, real, input, fan>> /\ intake' = "started"
  BY DEF EntriesInv, AskedInv, Confirmed
<1>3. AskedInv' /\ MembersInv' /\ ThresholdIsReachable'
  BY <1>2 DEF MembersInv, AskedInv, ThresholdIsReachable
<1>4. QED
  BY <1>1, <1>2, <1>3 DEF EntriesInv, HonoursRuns

\* A form launches what the client takes of it.
LEMMA FormKeeps == ASSUME EntriesInv, FormSubmitted PROVE EntriesInv'
<1> DEFINE bounds == SpecOf([ttl |-> Text("ttl"), idle |-> Text("idle"), cost |-> Text("cost")])
<1>1. CASE request.odd \/ ~ ClientTakes(bounds)
  BY <1>1, TurnedAway DEF FormSubmitted
<1>2. CASE ~ (request.odd \/ ~ ClientTakes(bounds))
  <2>1. intake = "typed" /\ request.door = "form" /\ Runs(bounds, FALSE) /\ UNCHANGED <<request, real, fan>>
        /\ intake' = "started" /\ input' = bounds
    BY <1>2 DEF FormSubmitted
  <2>2. bounds.ttl = ToSpecDuration(Text("ttl")) /\ bounds.idle = ToSpecDuration(Text("idle"))
    BY DEF SpecOf
  <2>3. \A f \in {"ttl", "idle"} : Text(f) \notin {"minus", "slip"} /\ AsTyped(bounds, f)
    <3>1. Text("ttl") \in Classes /\ Text("idle") \in Classes
      BY ClassOfText DEF EntriesInv
    <3>2. bounds.ttl # Refused /\ bounds.idle # Refused
      BY <1>2 DEF ClientTakes
    <3>3. QED
      BY <2>2, <3>1, <3>2, Readers DEF AsTyped
  <2>4. ~ Unlimited(bounds)
    BY <1>2 DEF ClientTakes
  <2>5. HonoursRuns'
    <3> HIDE DEF bounds
    <3> QED
      BY <2>1, <2>3, <2>4, OneMoreRun DEF HonoursRuns, EntriesInv
  <2>6. AskedInv' /\ MembersInv' /\ ThresholdIsReachable'
    BY <2>1 DEF MembersInv, AskedInv, ThresholdIsReachable, EntriesInv
  <2>7. QED
    BY <2>1, <2>5, <2>6 DEF EntriesInv, HonoursRuns
<1>3. QED
  BY <1>1, <1>2

\* The options of a fan-out.
LEMMA FanOptionsOf ==
  ASSUME request \in Requests, request.count >= 0, NEW viable \in Int, NEW density \in Int
  PROVE  FanOf(viable, density) \in FanOptions
<1>1. request.count \in 0 .. 3
  BY EntriesConstants DEF RequestFields
<1>2. Max0(NumberOrZero(Text("cap"))) \in Nat /\ Max0(DelayOf(Text("delay"))) \in Nat
  BY ClassOfText, Readers
<1>3. QED
  BY <1>1, <1>2 DEF FanOf, FanOptions

\* A threshold of those that there are, and the one that was typed if they are enough.
LEMMA ViableOf ==
  ASSUME NEW txt \in Classes, NEW size \in 1 .. 3
  PROVE  /\ MinViable(txt, size) \in 1 .. size
         /\ txt = "good" /\ size >= Good => MinViable(txt, size) = Good
         /\ txt = "large" => MinViable(txt, size) = size
BY DEF Classes, MinViable, NumberOrZero, Good, Large

\* An array starts its members, none of them launched yet.
LEMMA ArrayKeeps == ASSUME EntriesInv, ArrayLine PROVE EntriesInv'
<1>1. CASE ArrayRefused
  BY <1>1, TurnedAway DEF ArrayLine
<1>2. CASE ~ ArrayRefused
  <2> DEFINE viable == MinViable(Text("viable"), request.count)
  <2>1. /\ intake = "typed" /\ request.door = "array" /\ intake' = "started" /\ input' = Typed
        /\ fan' = FanOf(viable, Density) /\ UNCHANGED <<request, real, runs>>
    BY <1>2 DEF ArrayLine
  <2>2. request.count \in 1 .. 3
    <3>1. request \in RequestFields
      BY EntriesConstants DEF EntriesInv
    <3>2. request.count \in -1 .. 3 /\ ~ (request.count < 1)
      BY <1>2, <3>1 DEF ArrayRefused, RequestFields
    <3>3. QED
      BY <3>2
  <2>3. Text("viable") \in Classes /\ Text("density") \in Classes
    BY ClassOfText DEF EntriesInv
  <2>4. Density \in Int
    BY <2>3, Readers DEF Density
  <2>5. /\ viable \in 1 .. request.count
        /\ Text("viable") = "good" /\ request.count >= Good => viable = Good
        /\ Text("viable") = "large" => viable = request.count
    BY <2>2, <2>3, ViableOf
  <2> HIDE DEF viable
  <2>6. fan' \in FanOptions
    BY <2>1, <2>2, <2>4, <2>5, FanOptionsOf DEF EntriesInv
  <2>7. fan'.viable = viable /\ fan'.density = Density
    BY <2>1 DEF FanOf
  <2>8. ThresholdIsReachable'
    <3>1. Density > 0 => "mpi" \in request.toggles
      BY <1>2 DEF ArrayRefused, Density
    <3>2. QED
      BY <2>1, <2>5, <2>7, <3>1 DEF ThresholdIsReachable, Text
  <2>9. MembersInv'
    <3>1. \A f \in {"ttl", "idle"} : Text(f) \notin {"minus", "slip"} /\ AsTyped(Typed, f)
      BY <1>2, LineAsTyped DEF ArrayRefused, EntriesInv
    <3>2. QED
      BY <2>1, <3>1 DEF MembersInv, AsTyped, Text, FanDoors
  <2>10. HonoursRuns'
    BY <2>1, NoMoreRuns DEF HonoursRuns, EntriesInv
  <2>11. QED
    BY <2>1, <2>6, <2>8, <2>9, <2>10 DEF EntriesInv, HonoursRuns, AskedInv
<1>3. QED
  BY <1>1, <1>2

\* A fan-out that reads its durations only when it launches.
LEMMA EntriesStartKeeps ==
  ASSUME EntriesInv, intake = "typed", request.door \in FanDoors \ {"array"},
         NEW ttl, NEW idle, ttl = Text("ttl"), request.door = "sweep" => idle = Text("idle"), Starts(ttl, idle)
  PROVE  EntriesInv'
<1>1. fan' = FanOf(1, 0) /\ intake' = "started" /\ UNCHANGED <<request, real, runs>>
      /\ input' = [ttl |-> ToSpecDuration(ttl), idle |-> ToSpecDuration(idle), cost |-> 0]
  BY DEF Starts
<1>2. fan' \in FanOptions
  BY <1>1, EntriesConstants, FanOptionsOf DEF EntriesInv
<1>3. MembersInv'
  <2>1. input'.ttl = ToSpecDuration(Text("ttl"))
    BY <1>1
  <2>2. request.door = "sweep" => input'.idle = ToSpecDuration(Text("idle"))
    BY <1>1
  <2>3. \A f \in {"ttl", "idle"} : HasDoor(f) => input'[f] = ToSpecDuration(Text(f))
    BY <2>1, <2>2 DEF HasDoor, FanDoors
  <2>4. Text("ttl") \in Classes /\ Text("idle") \in Classes
    BY ClassOfText DEF EntriesInv
  <2>5. \A f \in {"ttl", "idle"} : HasDoor(f) =>
           AsTyped(input', f) /\ (Text(f) \in {"minus", "slip"} => input'[f] = Refused)
    BY <2>3, <2>4, Readers DEF AsTyped
  <2>6. QED
    BY <1>1, <2>5 DEF MembersInv, AsTyped, HasDoor, Text, FanDoors
<1>4. HonoursRuns'
  BY <1>1, NoMoreRuns DEF HonoursRuns, EntriesInv
<1>5. QED
  BY <1>1, <1>2, <1>3, <1>4 DEF EntriesInv, HonoursRuns, AskedInv, ThresholdIsReachable

\* A member launches only bounds that were typed, or is refused.
LEMMA MemberKeeps == ASSUME EntriesInv, MemberLaunches PROVE EntriesInv'
<1>1. /\ fan.left > 0 /\ fan' = [fan EXCEPT !.left = @ - 1] /\ UNCHANGED <<request, real, intake, input>>
      /\ fan \in FanOptions
  BY DEF EntriesInv, MemberLaunches
<1>2. fan' \in FanOptions /\ fan'.viable = fan.viable /\ fan'.density = fan.density
  BY <1>1 DEF FanOptions
<1>3. MembersInv /\ intake = "started"
  BY <1>1 DEF EntriesInv, MembersInv
<1>4. HonoursRuns'
  <2>1. CASE ClientTakes(input)
    <3>1. Runs(input, FALSE) /\ ~ Unlimited(input) /\ input.ttl # Refused /\ input.idle # Refused
      BY <2>1 DEF MemberLaunches, ClientTakes
    <3>2. \A f \in {"ttl", "idle"} : HasDoor(f) => Text(f) \notin {"minus", "slip"} /\ AsTyped(input, f)
      BY <1>1, <1>3, <3>1 DEF MembersInv
    <3>3. QED
      BY <1>1, <3>1, <3>2, OneMoreRun DEF HonoursRuns, EntriesInv
  <2>2. CASE ~ ClientTakes(input)
    BY <1>1, <2>2, NoMoreRuns DEF HonoursRuns, EntriesInv, MemberLaunches
  <2>3. QED
    BY <2>1, <2>2
<1>5. MembersInv' /\ ThresholdIsReachable'
  BY <1>1, <1>2, <1>3 DEF EntriesInv, MembersInv, ThresholdIsReachable, AsTyped, HasDoor, Text
<1>6. QED
  BY <1>1, <1>2, <1>3, <1>4, <1>5 DEF EntriesInv, HonoursRuns, AskedInv

\* Every door keeps the bounds it was told.
LEMMA EntriesKeep == EntriesInv /\ [EntriesNext]_entryVars => EntriesInv'
<1> SUFFICES ASSUME EntriesInv, [EntriesNext]_entryVars PROVE EntriesInv'
  OBVIOUS
<1>1. CASE LaunchLine
  BY <1>1, LaunchLineKeeps
<1>2. CASE Confirmed
  BY <1>2, ConfirmedKeeps
<1>3. CASE Declined
  BY <1>3, TurnedAway DEF Declined
<1>4. CASE FormSubmitted
  BY <1>4, FormKeeps
<1>5. CASE ArrayLine
  BY <1>5, ArrayKeeps
<1>6. CASE SweepLine
  BY <1>6, TurnedAway, EntriesStartKeeps DEF SweepLine, FanDoors
<1>7. CASE SweepForm
  BY <1>7, TurnedAway, EntriesStartKeeps DEF SweepForm, FanDoors
<1>8. CASE QueueLine
  BY <1>8, TurnedAway, EntriesStartKeeps DEF QueueLine, FanDoors
<1>9. CASE QueueForm
  BY <1>9, TurnedAway, EntriesStartKeeps DEF QueueForm, FanDoors
<1>10. CASE MemberLaunches
  BY <1>10, MemberKeeps
<1>11. CASE UNCHANGED entryVars
  <2>1. HonoursRuns'
    BY <1>11, NoMoreRuns DEF entryVars, HonoursRuns, EntriesInv
  <2>2. QED
    BY <1>11, <2>1 DEF entryVars, EntriesInv, HonoursRuns, AskedInv, MembersInv, ThresholdIsReachable,
       AsTyped, HasDoor, Text
<1>12. QED
  BY <1>1, <1>2, <1>3, <1>4, <1>5, <1>6, <1>7, <1>8, <1>9, <1>10, <1>11 DEF EntriesNext

(***************************************************************************)
(* Whatever is typed, and at whichever door: a billed instance has a bound *)
(* unless its launch line said --no-timeout and that was confirmed; a      *)
(* bound in time that somebody typed is the instance's, or there is no     *)
(* instance; and an array runs with a threshold it can reach               *)
(* (commands.ts:276-298, client.ts:610-613, fanout.ts:202-208).            *)
(***************************************************************************)
THEOREM EntriesAlwaysHonoured == EntriesSpec => []EntriesAreHonoured
<1>1. EntriesInv => EntriesAreHonoured
  BY EntriesConstants DEF EntriesInv, EntriesAreHonoured, EntriesTypeOK, FanOptions
<1>2. QED
  BY <1>1, EntriesStart, EntriesKeep, PTL DEF EntriesSpec

-----------------------------------------------------------------------------
(***************************************************************************)
(* Command lines.  What was read of a line so far is listed already: each  *)
(* list holds the texts of its places before the one the reader is at.     *)
(***************************************************************************)
Before(k, P) == {n \in P : n < k}

ArgsTypeOK ==
    /\ argv \in Seq(Token) /\ argAt \in 1 .. Len(argv) + 1 /\ parsed \in BOOLEAN
    /\ command \in Words \cup {""} /\ positionals \in Seq(Words)
    /\ flags \in [Flags -> Words \cup {Lone, Absent}] /\ lists \in [Flags -> Seq(Words)]

\* A place of the line that no -- hides and no flag takes.
Free(k) ==
    k <= Len(argv) => /\ \A n \in 1 .. k - 1 : argv[n].kind # "end"
                      /\ ~ ValueOfFlag(k, Takers)

\* The plain words before a place.
WordsTo(k, words) == ListsTexts(words, Before(k, PlainPlaces))

\* A flag's values before a place, the last of them, and whether it was there.
FlagTo(k, name, last, list) ==
    /\ ListsTexts(list, Before(k, ValuePlaces(name)))
    /\ last \in Words => list # <<>> /\ last = Last(list)
    /\ last = Absent => \A n \in DOMAIN argv :
          n < k /\ argv[n].kind \in {"flag", "pair"} /\ argv[n].name = name => n \in Behind

\* What is behind a -- before a place.
RestTo(k, rest) ==
    \A n \in DOMAIN argv : n < k /\ argv[n].kind = "end" /\ n \notin Behind => rest = SubSeq(argv, n + 1, Len(argv))

ArgsInv ==
    /\ ArgsTypeOK /\ Free(argAt) /\ WordsTo(argAt, PlainWords) /\ (command = "" => positionals = <<>>)
    /\ RestTo(argAt, remote)
    /\ \A name \in Takers : FlagTo(argAt, name, flags[name], lists[name])
    /\ parsed => argAt = Len(argv) + 1

\* A list that grows by the text of the next place.
LEMMA OneTextMore ==
  ASSUME argv \in Seq(Token), NEW list \in Seq(Words), NEW places \in SUBSET (1 .. Len(argv)), ListsTexts(list, places),
         NEW k \in 1 .. Len(argv), \A n \in places : n < k, argv[k].text \in Words
  PROVE  /\ Append(list, argv[k].text) \in Seq(Words)
         /\ ListsTexts(Append(list, argv[k].text), places \cup {k})
<1> DEFINE longer == Append(list, argv[k].text)
           upto(P, n) == {m \in P : m <= n}
<1>1. IsFiniteSet(places) /\ Len(argv) \in Nat /\ Len(list) \in Nat /\ Cardinality(places) \in Nat
      /\ Len(list) = Cardinality(places)
  <2>1. Len(argv) \in Nat /\ Len(list) \in Nat
    BY LenProperties
  <2>2. IsFiniteSet(1 .. Len(argv))
    BY <2>1, FS_Interval
  <2>3. IsFiniteSet(places)
    BY <2>2, FS_Subset
  <2>4. QED
    BY <2>1, <2>3, FS_CardinalityType DEF ListsTexts
<1>2. k \notin places
  BY <1>1
<1>3. Cardinality(places \cup {k}) = Len(list) + 1
  BY <1>1, <1>2, FS_AddElement
<1>4. longer \in Seq(Words) /\ Len(longer) = Len(list) + 1 /\ longer[Len(list) + 1] = argv[k].text
      /\ \A i \in 1 .. Len(list) : longer[i] = list[i]
  BY AppendProperties
<1>5. ASSUME NEW n \in places \cup {k} PROVE longer[Cardinality(upto(places \cup {k}, n))] = argv[n].text
  <2>1. CASE n = k
    <3>1. upto(places \cup {k}, n) = places \cup {k}
      <4>1. \A m \in places \cup {k} : m <= k
        BY <1>1
      <4>2. QED
        BY <2>1, <4>1, Zenon
    <3>2. QED
      BY <1>3, <1>4, <2>1, <3>1
  <2>2. CASE n # k
    <3>1. n \in places /\ n < k /\ n \in Nat /\ k \in Nat
      BY <1>1, <2>2
    <3>2. upto(places \cup {k}, n) = upto(places, n)
      BY <3>1
    <3>3. list[Cardinality(upto(places, n))] = argv[n].text
      BY <3>1 DEF ListsTexts
    <3>4. Cardinality(upto(places, n)) \in 1 .. Len(list)
      <4>1. upto(places, n) \subseteq places /\ n \in upto(places, n)
        BY <3>1
      <4>2. IsFiniteSet(upto(places, n)) /\ Cardinality(upto(places, n)) <= Cardinality(places)
            /\ Cardinality(upto(places, n)) \in Nat
        BY <1>1, <4>1, FS_Subset, FS_CardinalityType
      <4>3. Cardinality(upto(places, n)) # 0
        BY <4>1, <4>2, FS_EmptySet
      <4>4. QED
        BY <1>1, <4>2, <4>3
    <3>5. QED
      BY <1>4, <3>2, <3>3, <3>4
  <2>3. QED
    BY <2>1, <2>2
<1>6. QED
  BY <1>1, <1>3, <1>4, <1>5 DEF ListsTexts

\* Each token has what its kind has.
LEMMA TokenFacts ==
  ASSUME argv \in Seq(Token)
  PROVE  /\ Len(argv) \in Nat /\ DOMAIN argv = 1 .. Len(argv)
         /\ \A n \in 1 .. Len(argv) :
              /\ argv[n].kind \in {"word", "end", "flag", "pair"}
              /\ argv[n].kind \in {"word", "pair"} => argv[n].text \in Words
              /\ argv[n].kind = "flag" => argv[n].name \in Flags
              /\ argv[n].kind = "pair" => argv[n].name \in Takers
<1>1. Len(argv) \in Nat /\ DOMAIN argv = 1 .. Len(argv) /\ \A n \in 1 .. Len(argv) : argv[n] \in Token
  BY LenProperties, ElementOfSeq
<1>2. ASSUME NEW t \in Token
      PROVE  /\ t.kind \in {"word", "end", "flag", "pair"}
             /\ t.kind \in {"word", "pair"} => t.text \in Words
             /\ t.kind = "flag" => t.name \in Flags
             /\ t.kind = "pair" => t.name \in Takers
  <2>1. CASE t \in [kind : {"word"}, text : Words]
    BY <2>1
  <2>2. CASE t \in [kind : {"end"}]
    BY <2>2
  <2>3. CASE t \in [kind : {"flag"}, name : Flags]
    BY <2>3
  <2>4. CASE t \in [kind : {"pair"}, name : Takers, text : Words]
    BY <2>4
  <2>5. QED
    BY <2>1, <2>2, <2>3, <2>4 DEF Token
<1>3. QED
  BY <1>1, <1>2

\* Before anything is read nothing is listed.
LEMMA ArgsStart == ArgsInit => ArgsInv
<1>0. SUFFICES ASSUME ArgsInit PROVE ArgsInv
  OBVIOUS
<1>1. argAt = 1
  BY <1>0 DEF ArgsInit
<1>2. argv \in Seq(Token) /\ Len(argv) \in Nat /\ DOMAIN argv = 1 .. Len(argv)
  <2>1. PICK m \in 0 .. MaxWords : argv \in [1 .. m -> Token]
    BY <1>0 DEF ArgsInit, BoundedSeq, SeqOf
  <2>2. m \in Nat
    <3>1. MaxWords \in Nat
      BY ArgsConstants
    <3>2. QED
      BY <3>1
  <2>3. QED
    BY <2>1, <2>2
<1>3. flags = [f \in Flags |-> Absent]
  BY <1>0 DEF ArgsInit
<1>4. lists = [f \in Flags |-> <<>>]
  BY <1>0 DEF ArgsInit
<1>5. parsed = FALSE /\ command = "" /\ positionals = <<>>
  BY <1>0 DEF ArgsInit
<1>6. ArgsTypeOK
  <2>1. argAt \in 1 .. Len(argv) + 1
    BY <1>1, <1>2
  <2>2. flags \in [Flags -> Words \cup {Lone, Absent}]
    BY <1>3, Zenon
  <2>3. lists \in [Flags -> Seq(Words)]
    <3>1. <<>> \in Seq(Words)
      OBVIOUS
    <3>2. QED
      BY <1>4, <3>1, Zenon
  <2>4. positionals \in Seq(Words)
    <3>1. <<>> \in Seq(Words)
      OBVIOUS
    <3>2. QED
      BY <1>5, <3>1, Zenon
  <2>5. QED
    BY <1>2, <1>5, <2>1, <2>2, <2>3, <2>4 DEF ArgsTypeOK
<1>7. Free(argAt)
  <2>1. ~ (argAt > 1) /\ 1 .. argAt - 1 = {}
    BY <1>1
  <2>2. QED
    BY <2>1, Zenon DEF Free, ValueOfFlag
<1>8. \A n \in DOMAIN argv : ~ (n < argAt)
  <2>1. \A n \in 1 .. Len(argv) : ~ (n < 1)
    BY <1>2
  <2>2. QED
    BY <1>1, <1>2, <2>1, Zenon
<1>9. \A P : P \subseteq DOMAIN argv => Before(argAt, P) = {}
  BY <1>8, Zenon DEF Before
<1>10. ListsTexts(<<>>, {})
  BY FS_EmptySet DEF ListsTexts
<1>11. WordsTo(argAt, PlainWords)
  <2>1. Before(argAt, PlainPlaces) = {}
    BY <1>9 DEF PlainPlaces
  <2>2. PlainWords = <<>>
    BY <1>5 DEF PlainWords
  <2>3. QED
    BY <1>5, <1>10, <2>1, <2>2, Zenon DEF WordsTo
<1>12. ASSUME NEW name \in Takers PROVE FlagTo(argAt, name, flags[name], lists[name])
  <2>1. Before(argAt, ValuePlaces(name)) = {}
    BY <1>9 DEF ValuePlaces
  <2>2. lists[name] = <<>> /\ flags[name] = Absent /\ Absent \notin Words
    <3>1. name \in Flags
      BY DEF Flags
    <3>2. QED
      BY <1>3, <1>4, <3>1, ArgsConstants, Zenon
  <2>3. QED
    BY <1>8, <1>10, <2>1, <2>2, Zenon DEF FlagTo
<1>13. RestTo(argAt, remote)
  BY <1>8, Zenon DEF RestTo
<1>14. QED
  BY <1>5, <1>6, <1>7, <1>11, <1>12, <1>13, Zenon DEF ArgsInv

\* Where the reader stands nothing is behind a --.
LEMMA NotBehindYet ==
  ASSUME ArgsInv, argAt <= Len(argv)
  PROVE  /\ argAt \in 1 .. Len(argv) /\ argAt \in Nat /\ Len(argv) \in Nat /\ DOMAIN argv = 1 .. Len(argv)
         /\ argAt \notin Behind /\ ~ parsed
         /\ \A n \in 1 .. Len(argv) : n <= argAt => n \notin Behind
<1>1. Len(argv) \in Nat /\ DOMAIN argv = 1 .. Len(argv) /\ argAt \in 1 .. Len(argv) + 1
  BY TokenFacts DEF ArgsInv, ArgsTypeOK
<1>2. \A n \in 1 .. argAt - 1 : argv[n].kind # "end"
  BY DEF ArgsInv, Free
<1>3. \A n \in 1 .. Len(argv) : n <= argAt => n \notin Behind
  <2> SUFFICES ASSUME NEW n \in 1 .. Len(argv), n <= argAt, n \in Behind PROVE FALSE
    OBVIOUS
  <2>1. PICK m \in 1 .. n - 1 : argv[m].kind = "end"
    BY DEF Behind
  <2>2. m \in 1 .. argAt - 1
    BY <1>1
  <2>3. QED
    BY <1>2, <2>1, <2>2
<1>4. argAt \in 1 .. Len(argv) /\ argAt \in Nat
  BY <1>1
<1>5. ~ parsed
  <2>1. parsed => argAt = Len(argv) + 1
    BY DEF ArgsInv
  <2>2. QED
    BY <1>1, <2>1
<1>6. QED
  BY <1>1, <1>3, <1>4, <1>5

\* What holds of the line up to the next place, with what is set meanwhile, holds then.
LEMMA ArgsGoOn ==
  ASSUME argv \in Seq(Token), argv' = argv, parsed' \in BOOLEAN, parsed' => argAt' = Len(argv) + 1, argAt' \in 1 .. Len(argv) + 1,
         command' \in Words \cup {""}, positionals' \in Seq(Words),
         flags' \in [Flags -> Words \cup {Lone, Absent}], lists' \in [Flags -> Seq(Words)],
         Free(argAt'), command' = "" => positionals' = <<>>,
         WordsTo(argAt', PlainWords'), RestTo(argAt', remote'),
         \A name \in Takers : FlagTo(argAt', name, flags'[name], lists'[name])
  PROVE  ArgsInv'
<1>1. ArgsTypeOK'
  BY DEF ArgsTypeOK
<1>2. Behind' = Behind
  BY DEF Behind
<1>3. PlainPlaces' = PlainPlaces
  BY <1>2 DEF PlainPlaces, ValueOfFlag
<1>4. \A name : ValuePlaces(name)' = ValuePlaces(name)
  BY <1>2 DEF ValuePlaces, ValueOfFlag
<1>5. Free(argAt)'
  BY DEF Free, ValueOfFlag
<1>6. WordsTo(argAt, PlainWords)'
  BY <1>3 DEF WordsTo, ListsTexts, Before
<1>7. RestTo(argAt, remote)'
  BY <1>2 DEF RestTo
<1>8. ASSUME NEW name \in Takers PROVE FlagTo(argAt, name, flags[name], lists[name])'
  <2>1. FlagTo(argAt', name, flags'[name], lists'[name])
    OBVIOUS
  <2>2. ListsTexts(lists[name], Before(argAt, ValuePlaces(name)))'
    BY <1>4, <2>1 DEF FlagTo, ListsTexts, Before
  <2>3. QED
    BY <1>2, <2>1, <2>2 DEF FlagTo
<1>9. QED
  BY <1>1, <1>5, <1>6, <1>7, <1>8 DEF ArgsInv

\* One place further, the places before are one more, or the same.
LEMMA OnePlace ==
  ASSUME NEW k \in Nat, NEW P, \A n \in P : n \in Nat
  PROVE  /\ k \in P => Before(k + 1, P) = Before(k, P) \cup {k}
         /\ k \notin P => Before(k + 1, P) = Before(k, P)
<1>1. \A n \in P : n < k + 1 <=> n < k \/ n = k
  OBVIOUS
<1>2. k < k + 1
  OBVIOUS
<1>3. QED
  BY <1>1, <1>2, Zenon DEF Before

\* What is listed of the places before k takes the text of k.
LEMMA ListsOneMore ==
  ASSUME argv \in Seq(Token), NEW list \in Seq(Words), NEW P \in SUBSET (1 .. Len(argv)),
         NEW k \in 1 .. Len(argv), k \in P, ListsTexts(list, Before(k, P)), argv[k].text \in Words
  PROVE  /\ Append(list, argv[k].text) \in Seq(Words)
         /\ ListsTexts(Append(list, argv[k].text), Before(k + 1, P))
<1>1. Len(argv) \in Nat
  BY TokenFacts
<1>2. k \in Nat /\ \A n \in P : n \in Nat
  BY <1>1
<1>3. Before(k + 1, P) = Before(k, P) \cup {k}
  BY <1>2, OnePlace
<1>4. Before(k, P) \in SUBSET (1 .. Len(argv)) /\ \A n \in Before(k, P) : n < k
  BY DEF Before
<1>5. QED
  BY <1>3, <1>4, OneTextMore

\* A place that is no value of a flag may be the flag itself.
LEMMA FlagPasses ==
  ASSUME argv \in Seq(Token), NEW k \in 1 .. Len(argv), NEW name, NEW last, NEW list, FlagTo(k, name, last, list),
         k \notin ValuePlaces(name), NEW next \in {last, Lone},
         argv[k].kind \in {"flag", "pair"} /\ argv[k].name = name => next = Lone
  PROVE  FlagTo(k + 1, name, next, list)
<1>1. k \in Nat /\ \A n \in 1 .. Len(argv) : n \in Nat
  BY TokenFacts
<1>2. \A n \in ValuePlaces(name) : n \in Nat
  BY <1>1, TokenFacts DEF ValuePlaces
<1>3. Before(k + 1, ValuePlaces(name)) = Before(k, ValuePlaces(name))
  BY <1>1, <1>2, OnePlace
<1>4. Lone \notin Words /\ Lone # Absent
  BY ArgsConstants DEF Lone, Absent
<1>5. next = Absent => \A n \in DOMAIN argv :
          n < k + 1 /\ argv[n].kind \in {"flag", "pair"} /\ argv[n].name = name => n \in Behind
  <2> SUFFICES ASSUME next = Absent, NEW n \in DOMAIN argv, n < k + 1, argv[n].kind \in {"flag", "pair"}, argv[n].name = name
               PROVE  n \in Behind
    OBVIOUS
  <2>1. last = Absent /\ n # k
    BY <1>4
  <2>2. n < k
    BY <1>1, <2>1, TokenFacts
  <2>3. QED
    BY <2>1, <2>2 DEF FlagTo
<1>6. QED
  BY <1>3, <1>4, <1>5 DEF FlagTo

\* A flag takes the value at a place.
LEMMA FlagTakes ==
  ASSUME argv \in Seq(Token), NEW k \in 1 .. Len(argv), NEW name, NEW list \in Seq(Words),
         ListsTexts(list, Before(k, ValuePlaces(name))), k \in ValuePlaces(name), argv[k].text \in Words
  PROVE  /\ FlagTo(k + 1, name, argv[k].text, Append(list, argv[k].text))
         /\ Append(list, argv[k].text) \in Seq(Words)
<1>1. ValuePlaces(name) \in SUBSET (1 .. Len(argv))
  BY TokenFacts DEF ValuePlaces
<1>2. /\ Append(list, argv[k].text) \in Seq(Words)
      /\ ListsTexts(Append(list, argv[k].text), Before(k + 1, ValuePlaces(name)))
  BY <1>1, ListsOneMore
<1>3. argv[k].text # Absent
  BY ArgsConstants
<1>4. Append(list, argv[k].text) # <<>> /\ Last(Append(list, argv[k].text)) = argv[k].text
  BY AppendProperties, LenProperties DEF Last
<1>5. QED
  BY <1>2, <1>3, <1>4 DEF FlagTo

\* A step that takes nothing for a flag, and leaves the words.
LEMMA WordsPass ==
  ASSUME argv \in Seq(Token), NEW k \in 1 .. Len(argv), NEW words, WordsTo(k, words), k \notin PlainPlaces
  PROVE  WordsTo(k + 1, words)
<1>1. k \in Nat /\ \A n \in PlainPlaces : n \in Nat
  BY TokenFacts DEF PlainPlaces
<1>2. QED
  BY <1>1, OnePlace DEF WordsTo

\* Before the first -- nothing is the rest.
LEMMA NoRestYet ==
  ASSUME ArgsInv, argAt <= Len(argv), NEW k \in Nat, k <= argAt + 1, argv[argAt].kind # "end"
  PROVE  \A rest : RestTo(k, rest)
<1>1. \A n \in 1 .. argAt - 1 : argv[n].kind # "end"
  BY DEF ArgsInv, Free
<1>2. \A n \in DOMAIN argv : n < k => n \in 1 .. argAt - 1 \/ n = argAt
  BY NotBehindYet
<1>3. QED
  BY <1>1, <1>2, Zenon DEF RestTo

\* Behind a word that is no -- the next one is free, unless a flag stood there that takes it.
LEMMA NextIsFree ==
  ASSUME ArgsInv, argAt <= Len(argv), argv[argAt].kind # "end",
         argv[argAt].kind = "flag" => ~ TakesNext
  PROVE  Free(argAt + 1) /\ argAt + 1 \in 1 .. Len(argv) + 1
<1> DEFINE m == argAt + 1
<1>1. argAt \in Nat /\ argAt \in 1 .. Len(argv) /\ Len(argv) \in Nat
  BY NotBehindYet
<1>2. m \in 1 .. Len(argv) + 1 /\ m - 1 = argAt /\ (m <= Len(argv) => argAt < Len(argv))
  BY <1>1
<1>3. \A n \in 1 .. m - 1 : argv[n].kind # "end"
  <2>1. \A n \in 1 .. argAt - 1 : argv[n].kind # "end"
    BY DEF ArgsInv, Free
  <2>2. \A n \in 1 .. argAt : n \in 1 .. argAt - 1 \/ n = argAt
    BY <1>1
  <2>3. QED
    BY <1>2, <2>1, <2>2
<1>4. argAt < Len(argv) /\ argv[argAt].kind = "flag" /\ argv[argAt].name \in Takers => argv[m].kind # "word"
  <2>1. argv[argAt].name \in Takers => argv[argAt].name \notin Toggles
    BY ArgsConstants
  <2>2. QED
    BY <2>1 DEF TakesNext, Here, HasNext, BOOLEAN_FLAGS
<1> HIDE DEF m
<1>5. m <= Len(argv) => ~ ValueOfFlag(m, Takers)
  BY <1>2, <1>4 DEF ValueOfFlag
<1>6. Free(m)
  BY <1>3, <1>5 DEF Free
<1>7. QED
  BY <1>2, <1>6 DEF m

\* What the reader has before a step.
LEMMA ArgsHave ==
  ASSUME ArgsInv
  PROVE  /\ argv \in Seq(Token) /\ command \in Words \cup {""} /\ positionals \in Seq(Words)
         /\ flags \in [Flags -> Words \cup {Lone, Absent}] /\ lists \in [Flags -> Seq(Words)]
         /\ WordsTo(argAt, PlainWords) /\ (command = "" => positionals = <<>>) /\ RestTo(argAt, remote)
         /\ \A name \in Takers : FlagTo(argAt, name, flags[name], lists[name]) /\ name \in Flags
         /\ argAt <= Len(argv) => ~ ValueOfFlag(argAt, Takers)
  BY Zenon DEF ArgsInv, ArgsTypeOK, Free, Flags

\* A word is the command, or one more positional.
LEMMA ReadWordKeeps ==
  ASSUME ArgsInv, ReadWord, argAt <= Len(argv), UNCHANGED <<argv, parsed>>
  PROVE  ArgsInv'
<1> DEFINE k == argAt
<1>1. /\ k \in 1 .. Len(argv) /\ k \in Nat /\ k \notin Behind /\ parsed = FALSE /\ argv[k].kind = "word"
      /\ DOMAIN argv = 1 .. Len(argv)
  BY NotBehindYet DEF ReadWord, Here, ArgsInv, ArgsTypeOK
<1>2. argv' = argv /\ parsed' = FALSE /\ argAt' = k + 1 /\ flags' = flags /\ lists' = lists /\ remote' = remote
  BY <1>1 DEF ReadWord
<1>3. argv[k].text \in Words /\ argv[k].text # ""
  BY <1>1, ArgsHave, TokenFacts, ArgsConstants DEF Lone
<1>4. ~ ValueOfFlag(k, Takers)
  BY ArgsHave
<1>5. Free(k + 1) /\ k + 1 \in 1 .. Len(argv) + 1
  BY <1>1, NextIsFree
<1>6. ASSUME NEW name \in Takers PROVE FlagTo(k + 1, name, flags[name], lists[name])
  <2>1. k \notin ValuePlaces(name)
    BY <1>1, <1>4 DEF ValuePlaces, ValueOfFlag
  <2>2. FlagTo(k, name, flags[name], lists[name]) /\ argv \in Seq(Token)
    BY ArgsHave
  <2>3. QED
    BY <1>1, <2>1, <2>2, FlagPasses
<1>7. RestTo(k + 1, remote)
  <2>1. k + 1 \in Nat /\ k + 1 <= k + 1
    BY <1>1
  <2>2. QED
    BY <1>1, <2>1, NoRestYet
<1>8. k \in PlainPlaces /\ PlainPlaces \in SUBSET (1 .. Len(argv))
  BY <1>1, <1>4 DEF PlainPlaces
<1>9. PlainWords' = Append(PlainWords, argv[k].text) /\ PlainWords \in Seq(Words)
      /\ command' \in Words \cup {""} /\ positionals' \in Seq(Words) /\ (command' = "" => positionals' = <<>>)
  <2>1. CASE command = ""
    <3>1. positionals = <<>> /\ PlainWords = <<>>
      BY <2>1, ArgsHave DEF PlainWords
    <3>2. command' = argv[k].text /\ positionals' = <<>>
      BY <2>1, <3>1 DEF ReadWord, Here
    <3>3. PlainWords' = <<argv[k].text>> \o <<>>
      BY <1>3, <3>2 DEF PlainWords
    <3>4. <<argv[k].text>> \o <<>> = Append(<<>>, argv[k].text)
      OBVIOUS
    <3>5. <<>> \in Seq(Words)
      OBVIOUS
    <3>6. QED
      BY <1>3, <3>1, <3>2, <3>3, <3>4, <3>5
  <2>2. CASE command # ""
    <3>1. command' = command /\ positionals' = Append(positionals, argv[k].text) /\ command \in Words
          /\ positionals \in Seq(Words)
      BY <2>2, ArgsHave DEF ReadWord, Here
    <3>2. PlainWords = <<command>> \o positionals /\ PlainWords' = <<command>> \o Append(positionals, argv[k].text)
      BY <2>2, <3>1 DEF PlainWords
    <3>3. <<command>> \in Seq(Words) /\ <<argv[k].text>> \in Seq(Words)
      <4>1. \A x \in Words : <<x>> \in Seq(Words)
        OBVIOUS
      <4>2. QED
        BY <1>3, <3>1, <4>1, Zenon
    <3>4. <<command>> \o Append(positionals, argv[k].text) = Append(<<command>> \o positionals, argv[k].text)
      <4>1. Append(positionals, argv[k].text) = positionals \o <<argv[k].text>>
        BY <1>3, <3>1, AppendIsConcat
      <4>2. <<command>> \o positionals \in Seq(Words)
        BY <3>1, <3>3, ConcatProperties
      <4>3. Append(<<command>> \o positionals, argv[k].text) = (<<command>> \o positionals) \o <<argv[k].text>>
        BY <1>3, <4>2, AppendIsConcat
      <4>4. QED
        BY <3>1, <3>3, <4>1, <4>3, ConcatAssociative
    <3>5. PlainWords \in Seq(Words)
      BY <3>1, <3>2, <3>3, ConcatProperties
    <3>6. Append(positionals, argv[k].text) \in Seq(Words)
      BY <1>3, <3>1, AppendProperties
    <3>7. QED
      BY <2>2, <3>1, <3>2, <3>4, <3>5, <3>6
  <2>3. QED
    BY <2>1, <2>2
<1>10. WordsTo(k + 1, PlainWords')
  <2>1. ListsTexts(PlainWords, Before(k, PlainPlaces)) /\ argv \in Seq(Token)
    BY ArgsHave DEF WordsTo
  <2>2. ListsTexts(Append(PlainWords, argv[k].text), Before(k + 1, PlainPlaces))
    BY <1>1, <1>3, <1>8, <1>9, <2>1, ListsOneMore
  <2>3. QED
    BY <1>9, <2>2 DEF WordsTo
<1>11. QED
  BY <1>2, <1>5, <1>6, <1>7, <1>9, <1>10, ArgsHave, ArgsGoOn

\* A flag with its value.
LEMMA ReadPairKeeps ==
  ASSUME ArgsInv, ReadPair, argAt <= Len(argv), UNCHANGED <<argv, parsed>>
  PROVE  ArgsInv'
<1> DEFINE k == argAt
           w == argv[k].name
           v == argv[k].text
<1>1. /\ k \in 1 .. Len(argv) /\ k \in Nat /\ k \notin Behind /\ parsed = FALSE /\ argv[k].kind = "pair"
      /\ DOMAIN argv = 1 .. Len(argv)
  BY NotBehindYet DEF ReadPair, Here, ArgsInv, ArgsTypeOK
<1>2. argv' = argv /\ parsed' = FALSE /\ argAt' = k + 1 /\ command' = command /\ positionals' = positionals /\ remote' = remote
  BY <1>1 DEF ReadPair
<1>3. flags' = [flags EXCEPT ![w] = v] /\ lists' = [lists EXCEPT ![w] = Append(lists[w], v)]
  BY DEF ReadPair, SetFlag, Here
<1>4. v \in Words /\ w \in Takers /\ w \in Flags /\ argv \in Seq(Token) /\ lists[w] \in Seq(Words)
  BY <1>1, ArgsHave, TokenFacts
<1>5. Free(k + 1) /\ k + 1 \in 1 .. Len(argv) + 1
  BY <1>1, NextIsFree
<1>6. k \notin PlainPlaces /\ k \in ValuePlaces(w) /\ \A name : name # w => k \notin ValuePlaces(name)
  BY <1>1 DEF PlainPlaces, ValuePlaces, ValueOfFlag
<1> HIDE DEF w, v
<1>7. FlagTo(k + 1, w, v, Append(lists[w], v)) /\ Append(lists[w], v) \in Seq(Words)
  <2>1. ListsTexts(lists[w], Before(k, ValuePlaces(w)))
    BY <1>4, ArgsHave DEF FlagTo
  <2>2. QED
    BY <1>1, <1>4, <1>6, <2>1, FlagTakes DEF v
<1>8. ASSUME NEW name \in Takers, name # w PROVE FlagTo(k + 1, name, flags[name], lists[name])
  <2>1. FlagTo(k, name, flags[name], lists[name])
    BY ArgsHave
  <2>2. argv[k].name # name
    BY <1>8 DEF w
  <2>3. QED
    BY <1>1, <1>4, <1>6, <1>8, <2>1, <2>2, FlagPasses
<1>9. flags' \in [Flags -> Words \cup {Lone, Absent}] /\ lists' \in [Flags -> Seq(Words)]
  BY <1>3, <1>4, <1>7, ArgsHave
<1>10. ASSUME NEW name \in Takers PROVE FlagTo(k + 1, name, flags'[name], lists'[name])
  <2>1. CASE name = w
    <3>1. flags'[w] = v /\ lists'[w] = Append(lists[w], v)
      BY <1>3, <1>4, ArgsHave
    <3>2. QED
      BY <1>7, <2>1, <3>1
  <2>2. CASE name # w
    <3>1. flags'[name] = flags[name] /\ lists'[name] = lists[name]
      BY <1>3, <2>2, ArgsHave
    <3>2. QED
      BY <1>8, <2>2, <3>1
  <2>3. QED
    BY <2>1, <2>2
<1>11. RestTo(k + 1, remote)
  <2>1. k + 1 \in Nat /\ k + 1 <= k + 1
    BY <1>1
  <2>2. QED
    BY <1>1, <2>1, NoRestYet
<1>12. WordsTo(k + 1, PlainWords) /\ PlainWords' = PlainWords
  BY <1>1, <1>2, <1>4, <1>6, ArgsHave, WordsPass DEF PlainWords
<1>13. QED
  BY <1>2, <1>5, <1>9, <1>10, <1>11, <1>12, ArgsHave, ArgsGoOn

\* A flag by itself, or with the word behind it.
LEMMA ReadFlagKeeps ==
  ASSUME ArgsInv, ReadFlag, argAt <= Len(argv), UNCHANGED <<argv, parsed>>
  PROVE  ArgsInv'
<1> DEFINE k == argAt
           w == argv[k].name
<1>1. /\ k \in 1 .. Len(argv) /\ k \in Nat /\ k \notin Behind /\ parsed = FALSE /\ argv[k].kind = "flag"
      /\ DOMAIN argv = 1 .. Len(argv) /\ Len(argv) \in Nat
  BY NotBehindYet DEF ReadFlag, Here, ArgsInv, ArgsTypeOK
<1>2. argv' = argv /\ parsed' = FALSE /\ command' = command /\ positionals' = positionals /\ remote' = remote
  BY <1>1 DEF ReadFlag
<1>3. w \in Flags /\ argv \in Seq(Token) /\ lists \in [Flags -> Seq(Words)] /\ Lone \notin Words
  BY <1>1, ArgsHave, TokenFacts, ArgsConstants
<1>4. k \notin PlainPlaces /\ \A name : k \notin ValuePlaces(name)
  BY <1>1 DEF PlainPlaces, ValuePlaces, ValueOfFlag
<1> HIDE DEF w
<1>5. ASSUME NEW name \in Takers, NEW last \in {flags[name], Lone}, name = w => last = Lone
      PROVE  FlagTo(k + 1, name, last, lists[name])
  <2>1. FlagTo(k, name, flags[name], lists[name])
    BY ArgsHave
  <2>2. argv[k].name = name => last = Lone
    BY <1>5 DEF w
  <2>3. QED
    BY <1>1, <1>3, <1>4, <2>1, <2>2, FlagPasses
<1>6. WordsTo(k + 1, PlainWords) /\ PlainWords' = PlainWords
  BY <1>1, <1>2, <1>3, <1>4, ArgsHave, WordsPass DEF PlainWords
<1>7. CASE ~ TakesNext
  <2>1. flags' = [flags EXCEPT ![w] = Lone] /\ lists' = lists /\ argAt' = k + 1
    BY <1>7 DEF ReadFlag, Here, w
  <2>2. Free(k + 1) /\ k + 1 \in 1 .. Len(argv) + 1
    BY <1>1, <1>7, NextIsFree
  <2>3. flags' \in [Flags -> Words \cup {Lone, Absent}]
    BY <1>3, <2>1, ArgsHave
  <2>4. ASSUME NEW name \in Takers PROVE FlagTo(k + 1, name, flags'[name], lists'[name])
    <3>1. flags'[name] \in {flags[name], Lone} /\ (name = w => flags'[name] = Lone)
      BY <2>1, ArgsHave
    <3>2. QED
      BY <1>5, <2>1, <3>1
  <2>5. RestTo(k + 1, remote)
    <3>1. k + 1 \in Nat /\ k + 1 <= k + 1
      BY <1>1
    <3>2. QED
      BY <1>1, <3>1, NoRestYet
  <2>6. QED
    BY <1>2, <1>6, <2>1, <2>2, <2>3, <2>4, <2>5, ArgsHave, ArgsGoOn
<1>8. CASE TakesNext
  <2> DEFINE n == k + 1
             v == argv[n].text
  <2>1. w \notin Toggles /\ k < Len(argv) /\ argv[n].kind = "word"
    BY <1>8 DEF TakesNext, Here, HasNext, BOOLEAN_FLAGS, w
  <2>2. n \in 1 .. Len(argv) /\ n \in Nat /\ n > 1 /\ n - 1 = k /\ k + 2 = n + 1
    BY <1>1, <2>1
  <2>3. w \in Takers /\ v \in Words
    BY <1>3, <2>1, <2>2, TokenFacts DEF Flags
  <2>4. flags' = [flags EXCEPT ![w] = v] /\ lists' = [lists EXCEPT ![w] = Append(lists[w], v)] /\ argAt' = n + 1
    BY <1>8, <2>2 DEF ReadFlag, SetFlag, Here, w
  <2>5. \A m \in 1 .. n : argv[m].kind # "end"
    <3>1. \A m \in 1 .. k - 1 : argv[m].kind # "end"
      BY <1>1 DEF ArgsInv, Free
    <3>2. \A m \in 1 .. n : m \in 1 .. k - 1 \/ m = k \/ m = n
      BY <1>1
    <3>3. QED
      BY <1>1, <2>1, <3>1, <3>2
  <2>6. n \notin Behind
    <3>1. \A m \in 1 .. n - 1 : m \in 1 .. n
      BY <2>2
    <3>2. QED
      BY <2>5, <3>1 DEF Behind
  <2>7. ValueOfFlag(n, Takers) /\ ValueOfFlag(n, {w}) /\ \A name : name # w => ~ ValueOfFlag(n, {name})
    BY <1>1, <2>1, <2>2, <2>3 DEF ValueOfFlag, w
  <2>8. n \notin PlainPlaces /\ n \in ValuePlaces(w) /\ \A name : name # w => n \notin ValuePlaces(name)
    BY <1>1, <2>1, <2>2, <2>6, <2>7 DEF PlainPlaces, ValuePlaces
  <2> HIDE DEF n, v
  <2>9. FlagTo(n + 1, w, v, Append(lists[w], v)) /\ Append(lists[w], v) \in Seq(Words)
    <3>1. FlagTo(n, w, Lone, lists[w]) /\ lists[w] \in Seq(Words)
      BY <1>3, <1>5, <2>3 DEF n
    <3>2. ListsTexts(lists[w], Before(n, ValuePlaces(w)))
      BY <3>1 DEF FlagTo
    <3>3. QED
      BY <1>3, <2>2, <2>3, <2>8, <3>1, <3>2, FlagTakes DEF v
  <2>10. ASSUME NEW name \in Takers PROVE FlagTo(n + 1, name, flags'[name], lists'[name])
    <3>1. CASE name = w
      <4>1. flags'[w] = v /\ lists'[w] = Append(lists[w], v)
        BY <1>3, <2>4, ArgsHave
      <4>2. QED
        BY <2>9, <3>1, <4>1
    <3>2. CASE name # w
      <4>1. flags'[name] = flags[name] /\ lists'[name] = lists[name]
        BY <2>4, <3>2, ArgsHave
      <4>2. FlagTo(n, name, flags[name], lists[name])
        BY <1>5, <3>2 DEF n
      <4>3. ~ (argv[n].kind \in {"flag", "pair"})
        BY <2>1 DEF n
      <4>4. QED
        BY <1>3, <2>2, <2>8, <3>2, <4>1, <4>2, <4>3, FlagPasses
    <3>3. QED
      BY <3>1, <3>2
  <2>11. flags' \in [Flags -> Words \cup {Lone, Absent}] /\ lists' \in [Flags -> Seq(Words)]
    BY <1>3, <2>3, <2>4, <2>9, ArgsHave
  <2>12. WordsTo(n + 1, PlainWords')
    <3>1. WordsTo(n, PlainWords)
      BY <1>6 DEF n
    <3>2. QED
      BY <1>3, <1>6, <2>2, <2>8, <3>1, WordsPass
  <2>13. Free(n + 1) /\ n + 1 \in 1 .. Len(argv) + 1
    <3> DEFINE m == n + 1
    <3>1. m - 1 = n /\ m \in 1 .. Len(argv) + 1
      BY <1>1, <2>2
    <3>2. argv[n].kind # "flag"
      BY <2>1 DEF n
    <3> HIDE DEF m
    <3>3. ~ ValueOfFlag(m, Takers)
      BY <3>1, <3>2 DEF ValueOfFlag
    <3>4. Free(m)
      BY <2>5, <3>1, <3>3 DEF Free
    <3>5. QED
      BY <3>1, <3>4 DEF m
  <2>14. RestTo(n + 1, remote)
    <3>1. \A m \in DOMAIN argv : m < n + 1 => m \in 1 .. n
      BY <1>1, <2>2
    <3>2. QED
      BY <2>5, <3>1 DEF RestTo
  <2>15. QED
    BY <1>2, <2>4, <2>10, <2>11, <2>12, <2>13, <2>14, ArgsHave, ArgsGoOn
<1>9. QED
  BY <1>7, <1>8

\* The rest of the line.
LEMMA ReadEndKeeps ==
  ASSUME ArgsInv, ReadEnd, argAt <= Len(argv), UNCHANGED <<argv, parsed>>
  PROVE  ArgsInv'
<1> DEFINE k == argAt
           e == Len(argv) + 1
<1>1. /\ k \in 1 .. Len(argv) /\ k \in Nat /\ k \notin Behind /\ parsed = FALSE /\ argv[k].kind = "end"
      /\ DOMAIN argv = 1 .. Len(argv) /\ Len(argv) \in Nat /\ \A n \in 1 .. Len(argv) : n <= k => n \notin Behind
  BY NotBehindYet DEF ReadEnd, Here, ArgsInv, ArgsTypeOK
<1>2. argv' = argv /\ parsed' = FALSE /\ argAt' = e /\ command' = command /\ positionals' = positionals
      /\ flags' = flags /\ lists' = lists /\ remote' = SubSeq(argv, k + 1, Len(argv))
  BY <1>1 DEF ReadEnd
<1>3. \A n \in 1 .. Len(argv) : n > k => n \in Behind
  <2> SUFFICES ASSUME NEW n \in 1 .. Len(argv), n > k PROVE n \in Behind
    OBVIOUS
  <2>1. k \in 1 .. n - 1
    BY <1>1
  <2>2. QED
    BY <1>1, <2>1 DEF Behind
<1>4. \A n \in 1 .. Len(argv) : n \notin Behind => n < k \/ n = k
  BY <1>1, <1>3
<1>5. \A n \in 1 .. Len(argv) : n < e
  BY <1>1
<1>6. \A P : P \subseteq 1 .. Len(argv) \ (Behind \cup {k}) => Before(e, P) = Before(k, P)
  BY <1>4, <1>5 DEF Before
<1>7. Before(e, PlainPlaces) = Before(k, PlainPlaces)
  <2>1. PlainPlaces \subseteq 1 .. Len(argv) \ (Behind \cup {k})
    BY <1>1 DEF PlainPlaces
  <2>2. QED
    BY <1>6, <2>1
<1>8. ASSUME NEW name \in Takers PROVE FlagTo(e, name, flags[name], lists[name])
  <2>1. ValuePlaces(name) \subseteq 1 .. Len(argv) \ (Behind \cup {k})
    BY <1>1 DEF ValuePlaces, ValueOfFlag
  <2>2. Before(e, ValuePlaces(name)) = Before(k, ValuePlaces(name))
    BY <1>6, <2>1
  <2>3. FlagTo(k, name, flags[name], lists[name])
    BY ArgsHave
  <2>4. flags[name] = Absent => \A n \in DOMAIN argv :
          n < e /\ argv[n].kind \in {"flag", "pair"} /\ argv[n].name = name => n \in Behind
    BY <1>1, <1>4, <2>3 DEF FlagTo
  <2>5. QED
    BY <2>2, <2>3, <2>4 DEF FlagTo
<1>9. RestTo(e, remote')
  <2>1. \A n \in 1 .. k - 1 : argv[n].kind # "end"
    BY <1>1 DEF ArgsInv, Free
  <2>2. \A n \in 1 .. Len(argv) : argv[n].kind = "end" /\ n \notin Behind => n = k
    <3>1. \A n \in 1 .. Len(argv) : n < k => n \in 1 .. k - 1
      BY <1>1
    <3>2. QED
      BY <1>4, <2>1, <3>1
  <2>3. QED
    BY <1>1, <1>2, <2>2 DEF RestTo
<1>10. Free(e) /\ e \in 1 .. Len(argv) + 1
  BY <1>1 DEF Free
<1>11. WordsTo(e, PlainWords) /\ PlainWords' = PlainWords
  BY <1>2, <1>7, ArgsHave DEF WordsTo, PlainWords
<1> HIDE DEF e
<1>12. QED
  BY <1>2, <1>8, <1>9, <1>10, <1>11, ArgsHave, ArgsGoOn

\* No step of the reader loses a word.
LEMMA ArgsKeep == ArgsInv /\ [ArgsNext]_argsVars => ArgsInv'
<1> SUFFICES ASSUME ArgsInv, [ArgsNext]_argsVars PROVE ArgsInv'
  OBVIOUS
<1>1. CASE ReadToken
  <2>1. argAt <= Len(argv) /\ UNCHANGED <<argv, parsed>> /\ (ReadEnd \/ ReadPair \/ ReadFlag \/ ReadWord)
    BY <1>1 DEF ReadToken
  <2>2. QED
    BY <2>1, ReadEndKeeps, ReadPairKeeps, ReadFlagKeeps, ReadWordKeeps
<1>2. ASSUME /\ argv' = argv /\ argAt' = argAt /\ command' = command
             /\ positionals' = positionals /\ remote' = remote /\ flags' = flags /\ lists' = lists,
             parsed' \in BOOLEAN, parsed' => argAt = Len(argv) + 1
      PROVE  ArgsInv'
  <2>1. argAt \in 1 .. Len(argv) + 1 /\ Free(argAt)
    BY DEF ArgsInv, ArgsTypeOK
  <2>2. PlainWords' = PlainWords
    BY <1>2 DEF PlainWords
  <2>3. QED
    BY <1>2, <2>1, <2>2, ArgsHave, ArgsGoOn
<1>3. argAt \in 1 .. Len(argv) + 1 /\ Len(argv) \in Nat /\ parsed \in BOOLEAN /\ (parsed => argAt = Len(argv) + 1)
  BY TokenFacts DEF ArgsInv, ArgsTypeOK
<1>4. CASE Parsed
  <2>1. /\ argAt > Len(argv) /\ parsed' = TRUE /\ argv' = argv /\ argAt' = argAt /\ command' = command
        /\ positionals' = positionals /\ remote' = remote /\ flags' = flags /\ lists' = lists
    BY <1>4 DEF Parsed
  <2>2. argAt = Len(argv) + 1
    BY <1>3, <2>1
  <2>3. QED
    BY <1>2, <2>1, <2>2
<1>5. CASE UNCHANGED argsVars
  <2>1. /\ argv' = argv /\ argAt' = argAt /\ command' = command /\ parsed' = parsed
        /\ positionals' = positionals /\ remote' = remote /\ flags' = flags /\ lists' = lists
    BY <1>5 DEF argsVars
  <2>2. QED
    BY <1>2, <1>3, <2>1
<1>6. QED
  BY <1>1, <1>4, <1>5 DEF ArgsNext

\* What was read of the whole line is the line.
LEMMA ReadIsTyped == ArgsInv => LineIsReadAsTyped
<1> SUFFICES ASSUME ArgsInv PROVE LineIsReadAsTyped
  OBVIOUS
<1>1. Len(argv) \in Nat /\ DOMAIN argv = 1 .. Len(argv)
  BY TokenFacts, ArgsHave
<1>2. parsed => \A n \in DOMAIN argv : n < argAt
  <2>1. parsed => argAt = Len(argv) + 1
    BY DEF ArgsInv
  <2>2. QED
    BY <1>1, <2>1
<1>3. parsed => \A P : P \subseteq DOMAIN argv => Before(argAt, P) = P
  BY <1>2 DEF Before
<1>4. TogglesEatNothing
  <2>1. PlainPlaces \subseteq DOMAIN argv
    BY DEF PlainPlaces
  <2>2. QED
    BY <1>3, <2>1, ArgsHave DEF TogglesEatNothing, WordsTo
<1>5. RemoteCommandIsWhole
  BY <1>2, ArgsHave DEF RemoteCommandIsWhole, RestTo
<1>6. RepeatsAreKept
  <2> SUFFICES ASSUME parsed, NEW name \in Takers
               PROVE  /\ ListsTexts(FlagList(name), ValuePlaces(name))
                      /\ FlagStr(name) # "" => FlagList(name) # <<>> /\ FlagStr(name) = Last(FlagList(name))
    BY DEF RepeatsAreKept
  <2>1. FlagTo(argAt, name, flags[name], lists[name])
    BY ArgsHave
  <2>2. Before(argAt, ValuePlaces(name)) = ValuePlaces(name)
    BY <1>3 DEF ValuePlaces
  <2>3. ListsTexts(FlagList(name), ValuePlaces(name))
    BY <2>1, <2>2 DEF FlagTo, FlagList
  <2>4. FlagStr(name) # "" => flags[name] \in Words /\ FlagStr(name) = flags[name]
    BY DEF FlagStr
  <2>5. QED
    BY <2>1, <2>3, <2>4 DEF FlagTo, FlagList
<1>7. ThresholdNeverDefaults
  <2> SUFFICES ASSUME parsed, NEW name \in Takers, NumFlag(name) = "absent", NEW n \in DOMAIN argv,
                      argv[n].kind \in {"flag", "pair"}, argv[n].name = name
               PROVE  n \in Behind
    BY DEF ThresholdNeverDefaults
  <2>1. flags[name] = Absent
    BY DEF NumFlag
  <2>2. FlagTo(argAt, name, flags[name], lists[name]) /\ n < argAt
    BY <1>2, ArgsHave
  <2>3. QED
    BY <2>1, <2>2 DEF FlagTo
<1>8. QED
  BY <1>4, <1>5, <1>6, <1>7 DEF LineIsReadAsTyped

(***************************************************************************)
(* Whatever the line, of any length, and whatever flags are registered: a  *)
(* command gets the words, the flags and their values as they were typed,  *)
(* in their order, and the host what stands behind -- (args.ts:55-98).     *)
(***************************************************************************)
THEOREM LineAlwaysReadAsTyped == ArgsSpec => []LineIsReadAsTyped
  BY ArgsStart, ArgsKeep, ReadIsTyped, PTL DEF ArgsSpec

-----------------------------------------------------------------------------
(***************************************************************************)
(* Durations.  The two readers go through one text at their own paces;     *)
(* what each has added up is one sum of its first segments.                *)
(***************************************************************************)
ReaderType == [at : {"reads", "refused", "read"}, n : Nat, total : Int]

\* S adds up the first M segments.
AddsUp(S, M) ==
    /\ S \in [Nat -> Nat] /\ S[0] = 0
    /\ \A k \in 1 .. M : S[k] = S[k - 1] + Ticks(text.segs[k])
    /\ \A i, j \in 0 .. M : i <= j => S[i] <= S[j]

\* Where a reader is: before a segment, or behind them all.
StandsAt(r, S) ==
    /\ r \in ReaderType /\ r.n \in 1 .. Len(text.segs) + 1
    /\ r.at # "read" => r.total = S[r.n - 1]
    /\ r.at = "read" => \/ IsZero /\ r.total = 0
                        \/ ~ IsZero /\ text.segs # <<>> /\ text.tail = "" /\ r.n = Len(text.segs) + 1
    /\ r.at = "refused" => ~ IsZero

TypedOK(r, S) ==
    /\ StandsAt(r, S)
    /\ \A k \in 1 .. r.n - 1 : TypedSegment(text.segs[k])
    /\ r.n > 1 \/ (r.at = "read" /\ ~ IsZero) => text.sign = "" /\ ~ text.padded
    /\ r.at = "read" /\ ~ IsZero => r.total = S[r.n - 1]
    /\ r.at = "refused" =>
         \/ text.sign # "" \/ text.padded \/ text.segs = <<>> \/ text.tail # ""
         \/ /\ r.n <= Len(text.segs)
            /\ ~ TypedSegment(text.segs[r.n]) \/ ~ (r.total + Ticks(text.segs[r.n]) <= MaxTicks)

TagOK(r, S) ==
    /\ StandsAt(r, S)
    /\ \A k \in 1 .. r.n - 1 : TagSegment(text.segs[k])
    /\ r.at = "read" /\ ~ IsZero => r.total = (IF text.sign = "-" THEN -S[r.n - 1] ELSE S[r.n - 1])
    /\ r.at = "refused" =>
         \/ text.segs = <<>> \/ text.tail # ""
         \/ r.n <= Len(text.segs) /\ ~ TagSegment(text.segs[r.n])

\* A sum as far as either reader has come.
SumOf(S, M) ==
    /\ M \in Nat /\ AddsUp(S, M) /\ typed.n - 1 <= M /\ tag.n - 1 <= M /\ M <= Len(text.segs)
    /\ TypedOK(typed, S) /\ TagOK(tag, S)

DurInv == text \in Texts /\ \E S, M : SumOf(S, M)

\* A text has so many segments, each of them some time.
LEMMA TextFacts ==
  ASSUME text \in Texts
  PROVE  /\ Len(text.segs) \in Nat /\ (text.segs = <<>> <=> Len(text.segs) = 0)
         /\ \A k \in 1 .. Len(text.segs) : text.segs[k] \in Segments /\ Ticks(text.segs[k]) \in Nat
         /\ IsZero => Len(text.segs) = 1 /\ text.segs[1].unit = ""
<1>1. text.segs \in BoundedSeq(Segments, MaxSegments)
  BY DEF Texts
<1>2. PICK m \in 0 .. MaxSegments : text.segs \in [1 .. m -> Segments]
  BY <1>1 DEF BoundedSeq, SeqOf
<1>3. m \in Nat /\ Len(text.segs) = m
  <2>1. MaxSegments \in Nat
    BY DurationConstants
  <2>2. m \in Nat
    BY <2>1
  <2>3. QED
    BY <1>2, <2>2
<1>4. ASSUME NEW s \in Segments PROVE Ticks(s) \in Nat
  <2>1. s.th \in Nat
    BY DurationConstants
  <2>2. QED
    BY <2>1, SMT DEF Ticks
<1>5. \A k \in 1 .. Len(text.segs) : text.segs[k] \in Segments
  BY <1>2, <1>3
<1>6. text.segs = <<>> <=> Len(text.segs) = 0
  BY <1>2, <1>3
<1>7. IsZero => Len(text.segs) = 1 /\ text.segs[1].unit = ""
  BY DEF IsZero
<1>8. QED
  BY <1>3, <1>4, <1>5, <1>6, <1>7

\* One segment further there is one sum more.
LEMMA SumGoesOn ==
  ASSUME text \in Texts, NEW S, NEW M \in Nat, AddsUp(S, M), M < Len(text.segs)
  PROVE  \E R : AddsUp(R, M + 1) /\ \A k \in 0 .. M : R[k] = S[k]
<1> DEFINE next == S[M] + Ticks(text.segs[M + 1])
           R == [k \in Nat |-> IF k = M + 1 THEN next ELSE S[k]]
<1>1. Ticks(text.segs[M + 1]) \in Nat /\ S[M] \in Nat /\ S \in [Nat -> Nat]
  <2>1. Len(text.segs) \in Nat
    BY TextFacts
  <2>2. M + 1 \in 1 .. Len(text.segs)
    BY <2>1
  <2>3. QED
    BY <2>2, TextFacts DEF AddsUp
<1>2. R \in [Nat -> Nat]
  <2> HIDE DEF R
  <2>1. next \in Nat
    <3>1. \A a, b \in Nat : a + b \in Nat
      OBVIOUS
    <3>2. QED
      BY <1>1, <3>1, Zenon
  <2> HIDE DEF next
  <2>2. QED
    BY <1>1, <2>1 DEF R
<1>3. \A k \in 0 .. M : R[k] = S[k]
  BY <1>1
<1>4. R[M + 1] = S[M] + Ticks(text.segs[M + 1])
  BY <1>1
<1>5. R[0] = 0
  BY <1>3 DEF AddsUp
<1> HIDE DEF R
<1>6. \A k \in 1 .. M + 1 : R[k] = R[k - 1] + Ticks(text.segs[k])
  <2> SUFFICES ASSUME NEW k \in 1 .. M + 1 PROVE R[k] = R[k - 1] + Ticks(text.segs[k])
    OBVIOUS
  <2>1. CASE k = M + 1
    <3>1. k - 1 = M /\ M \in 0 .. M
      BY <2>1
    <3>2. R[k - 1] = S[M]
      BY <1>3, <3>1
    <3>3. QED
      BY <1>4, <2>1, <3>2
  <2>2. CASE k # M + 1
    <3>1. k \in 1 .. M /\ k - 1 \in 0 .. M /\ k \in 0 .. M
      BY <2>2
    <3>2. R[k] = S[k] /\ R[k - 1] = S[k - 1]
      BY <1>3, <3>1
    <3>3. QED
      BY <3>1, <3>2 DEF AddsUp
  <2>3. QED
    BY <2>1, <2>2
<1>7. \A i, j \in 0 .. M + 1 : i <= j => R[i] <= R[j]
  <2> SUFFICES ASSUME NEW i \in 0 .. M + 1, NEW j \in 0 .. M + 1, i <= j PROVE R[i] <= R[j]
    OBVIOUS
  <2>1. \A a, b \in 0 .. M : a <= b => S[a] <= S[b]
    BY DEF AddsUp
  <2>2. CASE j # M + 1
    <3>1. i \in 0 .. M /\ j \in 0 .. M
      BY <2>2
    <3>2. QED
      BY <1>3, <2>1, <3>1
  <2>3. CASE j = M + 1 /\ i = M + 1
    BY <1>2, <2>3
  <2>4. CASE j = M + 1 /\ i # M + 1
    <3>1. i \in 0 .. M /\ M \in 0 .. M /\ i <= M
      BY <2>4
    <3>2. R[i] = S[i] /\ S[i] <= S[M]
      BY <1>3, <2>1, <3>1
    <3>3. S[i] \in Nat /\ R[j] = S[M] + Ticks(text.segs[M + 1])
      <4>1. i \in Nat
        BY <3>1
      <4>2. S[i] \in Nat
        BY <1>1, <4>1
      <4>3. R[j] = S[M] + Ticks(text.segs[M + 1])
        BY <1>4, <2>4, Zenon
      <4>4. QED
        BY <4>2, <4>3
    <3>4. QED
      BY <1>1, <3>2, <3>3
  <2>5. QED
    BY <2>2, <2>3, <2>4
<1>8. QED
  BY <1>2, <1>3, <1>5, <1>6, <1>7 DEF AddsUp

\* Before anything is read the sum is none.
LEMMA DurStarts == DurInit => DurInv
<1> SUFFICES ASSUME DurInit PROVE DurInv
  OBVIOUS
<1> DEFINE S == [k \in Nat |-> 0]
<1>1. text \in Texts /\ typed = Reading /\ tag = Reading
  BY DEF DurInit
<1>2. Len(text.segs) \in Nat
  BY <1>1, TextFacts
<1>3. typed.n = 1 /\ tag.n = 1
  BY <1>1 DEF Reading
<1>4. AddsUp(S, 0)
  BY DEF AddsUp
<1>5. Reading \in ReaderType /\ StandsAt(Reading, S)
  BY <1>2 DEF Reading, ReaderType, StandsAt
<1>6. TypedOK(typed, S) /\ TagOK(tag, S)
  BY <1>1, <1>5 DEF TypedOK, TagOK, Reading
<1>7. SumOf(S, 0)
  BY <1>2, <1>3, <1>4, <1>6 DEF SumOf
<1>8. QED
  BY <1>1, <1>7 DEF DurInv

\* There is always a sum for the next segment of a reader.
LEMMA SumForNext ==
  ASSUME DurInv, NEW n \in {typed.n, tag.n}, n <= Len(text.segs)
  PROVE  \E S, M : SumOf(S, M) /\ n <= M
<1>1. PICK S, M : SumOf(S, M)
  BY DEF DurInv
<1>2. text \in Texts /\ Len(text.segs) \in Nat /\ M \in Nat /\ M <= Len(text.segs) /\ AddsUp(S, M)
  BY <1>1, TextFacts DEF DurInv, SumOf
<1>3. typed.n \in Nat /\ tag.n \in Nat /\ typed.n >= 1 /\ tag.n >= 1 /\ typed.n - 1 <= M /\ tag.n - 1 <= M
  <2>1. typed.n \in 1 .. Len(text.segs) + 1 /\ tag.n \in 1 .. Len(text.segs) + 1
    BY <1>1 DEF SumOf, TypedOK, TagOK, StandsAt
  <2>2. typed.n - 1 <= M /\ tag.n - 1 <= M
    BY <1>1 DEF SumOf
  <2>3. QED
    BY <1>2, <2>1, <2>2
<1>4. CASE n <= M
  BY <1>1, <1>4
<1>5. CASE ~ (n <= M)
  <2>1. M < Len(text.segs) /\ M + 1 \in Nat /\ n <= M + 1
    BY <1>2, <1>3, <1>5
  <2>2. PICK R : AddsUp(R, M + 1) /\ \A k \in 0 .. M : R[k] = S[k]
    BY <1>2, <2>1, SumGoesOn
  <2>3. typed.n - 1 \in 0 .. M /\ tag.n - 1 \in 0 .. M
    BY <1>2, <1>3
  <2>4. R[typed.n - 1] = S[typed.n - 1] /\ R[tag.n - 1] = S[tag.n - 1]
    BY <2>2, <2>3
  <2>5. TypedOK(typed, R)
    BY <1>1, <2>4 DEF SumOf, TypedOK, StandsAt
  <2>6. TagOK(tag, R)
    BY <1>1, <2>4 DEF SumOf, TagOK, StandsAt
  <2>7. typed.n - 1 <= M + 1 /\ tag.n - 1 <= M + 1 /\ M + 1 <= Len(text.segs)
    BY <1>2, <1>3, <2>1
  <2>8. QED
    BY <2>1, <2>2, <2>5, <2>6, <2>7 DEF SumOf
<1>6. QED
  BY <1>4, <1>5

\* A reader that stays on a segment or goes over it, or over the text.
LEMMA ReaderMoves ==
  ASSUME NEW r \in ReaderType, NEW s, Ticks(s) \in Nat, r.at = "reads"
  PROVE  /\ Adds(r, s) \in ReaderType /\ Adds(r, s).at = "reads"
         /\ Adds(r, s).n = r.n + 1 /\ Adds(r, s).total = r.total + Ticks(s)
         /\ LET q == [r EXCEPT !.at = "read", !.total = IF text.sign = "-" THEN -@ ELSE @]
            IN  /\ q \in ReaderType /\ q.at = "read" /\ q.n = r.n
                /\ q.total = (IF text.sign = "-" THEN -r.total ELSE r.total)
<1>1. r.n \in Nat /\ r.total \in Int
  BY DEF ReaderType
<1>2. r.n + 1 \in Nat /\ r.total + Ticks(s) \in Int /\ -r.total \in Int
  <2>1. \A a \in Int, b \in Nat : a + b \in Int /\ -a \in Int
    OBVIOUS
  <2>2. QED
    BY <1>1, <2>1
<1>3. /\ Adds(r, s) \in ReaderType /\ Adds(r, s).at = "reads"
      /\ Adds(r, s).n = r.n + 1 /\ Adds(r, s).total = r.total + Ticks(s)
  <2>1. \A a \in Nat, b \in Int : LET q == [r EXCEPT !.n = a, !.total = b]
                                  IN  q \in ReaderType /\ q.at = "reads" /\ q.n = a /\ q.total = b
    BY DEF ReaderType
  <2>2. QED
    BY <1>2, <2>1 DEF Adds
<1>4. LET q == [r EXCEPT !.at = "read", !.total = IF text.sign = "-" THEN -@ ELSE @]
      IN  /\ q \in ReaderType /\ q.at = "read" /\ q.n = r.n
          /\ q.total = (IF text.sign = "-" THEN -r.total ELSE r.total)
  <2>1. \A b \in Int : LET q == [r EXCEPT !.at = "read", !.total = b]
                       IN  q \in ReaderType /\ q.at = "read" /\ q.n = r.n /\ q.total = b
    BY DEF ReaderType
  <2>2. QED
    BY <1>1, <1>2, <2>1
<1>5. QED
  BY <1>3, <1>4

\* What a reader's place says of the segments.
LEMMA AtZero ==
  ASSUME DurInv, IsZero
  PROVE  /\ typed.at = "reads" => typed.n = 1 /\ typed.total = 0
         /\ tag.at = "reads" => tag.n = 1 /\ tag.total = 0
<1>1. PICK S, M : SumOf(S, M)
  BY DEF DurInv
<1>2. Len(text.segs) \in Nat /\ Len(text.segs) = 1 /\ text.segs[1].unit = ""
  BY TextFacts DEF DurInv
<1>3. typed.n \in 1 .. 2 /\ tag.n \in 1 .. 2 /\ S[0] = 0
  <2>1. Len(text.segs) + 1 = 2
    <3>1. \A l : l = 1 => l + 1 = 2
      OBVIOUS
    <3>2. QED
      BY <1>2, <3>1, Zenon
  <2>2. typed.n \in 1 .. Len(text.segs) + 1 /\ tag.n \in 1 .. Len(text.segs) + 1 /\ S[0] = 0
    BY <1>1 DEF SumOf, TypedOK, TagOK, StandsAt, AddsUp
  <2>3. QED
    BY <2>1, <2>2
<1>4. ~ TypedSegment(text.segs[1]) /\ ~ TagSegment(text.segs[1])
  BY <1>2 DEF TypedSegment, TagSegment
<1>5. typed.n = 1 /\ tag.n = 1
  <2>1. 1 \in 1 .. 2 - 1
    OBVIOUS
  <2>2. typed.n # 2
    BY <1>1, <1>4, <2>1 DEF SumOf, TypedOK
  <2>3. tag.n # 2
    BY <1>1, <1>4, <2>1 DEF SumOf, TagOK
  <2>4. QED
    BY <1>3, <2>2, <2>3
<1>6. QED
  <2>1. typed.n - 1 = 0 /\ tag.n - 1 = 0
    BY <1>5
  <2>2. QED
    BY <1>1, <1>3, <1>5, <2>1 DEF SumOf, TypedOK, TagOK, StandsAt

\* The launch's reader goes on.
LEMMA ReadTypedKeeps ==
  ASSUME DurInv, ReadTyped
  PROVE  DurInv'
<1>1. text' = text /\ tag' = tag /\ typed.at = "reads" /\ text \in Texts /\ IsZero' = IsZero
  BY DEF ReadTyped, DurInv, IsZero
<1>2. Len(text.segs) \in Nat /\ (text.segs = <<>> <=> Len(text.segs) = 0)
  BY <1>1, TextFacts
<1>3. \A S, M : SumOf(S, M) =>
        /\ typed \in ReaderType /\ typed.n \in 1 .. Len(text.segs) + 1 /\ typed.total = S[typed.n - 1]
        /\ M \in Nat /\ M <= Len(text.segs) /\ typed.n - 1 <= M /\ TypedOK(typed, S)
  BY <1>1 DEF SumOf, TypedOK, StandsAt
<1>4. SUFFICES \E S, M : SumOf(S, M) /\ typed'.n - 1 <= M /\ TypedOK(typed', S)
  <2>1. PICK S, M : SumOf(S, M) /\ typed'.n - 1 <= M /\ TypedOK(typed', S)
    BY <1>4
  <2>2. TypedOK(typed, S)' <=> TypedOK(typed', S)
    BY <1>1 DEF TypedOK, StandsAt
  <2>3. AddsUp(S, M)' /\ TagOK(tag, S)'
    BY <1>1, <2>1 DEF SumOf, AddsUp, TagOK, StandsAt
  <2>4. SumOf(S, M)'
    BY <1>1, <2>1, <2>2, <2>3 DEF SumOf
  <2>5. QED
    BY <1>1, <2>4 DEF DurInv
<1>5. CASE IsZero
  <2>1. PICK S, M : SumOf(S, M)
    BY DEF DurInv
  <2>2. typed' = [typed EXCEPT !.at = "read"] /\ typed.n = 1 /\ typed.total = 0
    BY <1>1, <1>5, AtZero DEF ReadTyped
  <2>3. typed'.at = "read" /\ typed'.n = typed.n /\ typed'.total = 0 /\ typed' \in ReaderType
    BY <1>3, <2>1, <2>2 DEF ReaderType
  <2>4. TypedOK(typed', S)
    BY <1>3, <1>5, <2>1, <2>2, <2>3 DEF TypedOK, StandsAt
  <2>5. QED
    BY <1>3, <2>1, <2>3, <2>4
<1>6. CASE ~ IsZero /\ typed' = [typed EXCEPT !.at = "refused"] /\ ~ HasMore(typed) /\ text.tail # ""
  <2>1. PICK S, M : SumOf(S, M)
    BY DEF DurInv
  <2>2. typed'.at = "refused" /\ typed'.n = typed.n /\ typed'.total = typed.total /\ typed' \in ReaderType
    BY <1>3, <1>6, <2>1 DEF ReaderType
  <2>3. TypedOK(typed', S)
    BY <1>1, <1>3, <1>6, <2>1, <2>2 DEF TypedOK, StandsAt
  <2>4. QED
    BY <1>3, <2>1, <2>2, <2>3
<1>7. CASE ~ IsZero /\ typed' = [typed EXCEPT !.at = "refused"]
           /\ (text.sign # "" \/ text.padded \/ text.segs = <<>>)
  <2>1. PICK S, M : SumOf(S, M)
    BY DEF DurInv
  <2>2. typed'.at = "refused" /\ typed'.n = typed.n /\ typed'.total = typed.total /\ typed' \in ReaderType
    BY <1>3, <1>7, <2>1 DEF ReaderType
  <2>3. TypedOK(typed', S)
    BY <1>1, <1>3, <1>7, <2>1, <2>2 DEF TypedOK, StandsAt
  <2>4. QED
    BY <1>3, <2>1, <2>2, <2>3
<1>8. CASE ~ IsZero /\ typed' = [typed EXCEPT !.at = "refused"] /\ HasMore(typed)
           /\ ~ (TypedSegment(Segment(typed)) /\ typed.total + Ticks(Segment(typed)) <= MaxTicks)
  <2>1. PICK S, M : SumOf(S, M)
    BY DEF DurInv
  <2>2. typed'.at = "refused" /\ typed'.n = typed.n /\ typed'.total = typed.total /\ typed' \in ReaderType
    BY <1>3, <1>8, <2>1 DEF ReaderType
  <2>3. TypedOK(typed', S)
    BY <1>1, <1>3, <1>8, <2>1, <2>2 DEF TypedOK, StandsAt, HasMore, Segment
  <2>4. QED
    BY <1>3, <2>1, <2>2, <2>3
<1>9. CASE ~ IsZero /\ text.sign = "" /\ ~ text.padded /\ HasMore(typed)
           /\ TypedSegment(Segment(typed)) /\ typed' = Adds(typed, Segment(typed))
  <2>1. typed.n <= Len(text.segs)
    BY <1>9 DEF HasMore
  <2>2. PICK S, M : SumOf(S, M) /\ typed.n <= M
    BY <2>1, SumForNext
  <2>3. typed.n \in Nat /\ typed.n >= 1 /\ typed.n \in 1 .. M /\ typed.n \in 1 .. Len(text.segs) /\ typed.n + 1 - 1 = typed.n
        /\ typed.n + 1 \in 1 .. Len(text.segs) + 1
    BY <1>2, <1>3, <2>1, <2>2
  <2>4. S[typed.n] = S[typed.n - 1] + Ticks(text.segs[typed.n])
    BY <2>2, <2>3 DEF SumOf, AddsUp
  <2>5. typed \in ReaderType /\ typed.total = S[typed.n - 1] /\ Segment(typed) = text.segs[typed.n]
        /\ text.segs[typed.n] \in Segments /\ TypedOK(typed, S)
    BY <1>1, <1>3, <2>2, <2>3, TextFacts DEF Segment
  <2>6. typed'.at = "reads" /\ typed'.n = typed.n + 1 /\ typed'.total = S[typed.n] /\ typed' \in ReaderType
    <3>1. Ticks(text.segs[typed.n]) \in Nat
      BY <1>1, <2>3, TextFacts
    <3>2. typed' = Adds(typed, text.segs[typed.n])
      BY <1>9, <2>5
    <3>3. typed' \in ReaderType /\ typed'.at = "reads" /\ typed'.n = typed.n + 1
          /\ typed'.total = typed.total + Ticks(text.segs[typed.n])
      BY <1>1, <2>5, <3>1, <3>2, ReaderMoves
    <3>4. QED
      BY <2>4, <2>5, <3>3
  <2>7. \A k \in 1 .. typed.n : TypedSegment(text.segs[k])
    <3>1. \A k \in 1 .. typed.n - 1 : TypedSegment(text.segs[k])
      BY <2>5 DEF TypedOK
    <3>2. \A k \in 1 .. typed.n : k \in 1 .. typed.n - 1 \/ k = typed.n
      BY <2>3
    <3>3. QED
      BY <1>9, <2>5, <3>1, <3>2
  <2>8. StandsAt(typed', S)
    BY <2>3, <2>6 DEF StandsAt
  <2>9. TypedOK(typed', S)
    <3>1. typed'.n - 1 = typed.n
      BY <2>3, <2>6
    <3>2. QED
      BY <1>9, <2>6, <2>7, <2>8, <3>1 DEF TypedOK
  <2>10. QED
    BY <2>2, <2>3, <2>6, <2>9
<1>10. CASE ~ IsZero /\ text.sign = "" /\ ~ text.padded /\ text.segs # <<>> /\ ~ HasMore(typed)
            /\ text.tail = "" /\ typed' = [typed EXCEPT !.at = "read"]
  <2>1. PICK S, M : SumOf(S, M)
    BY DEF DurInv
  <2>2. typed'.at = "read" /\ typed'.n = typed.n /\ typed'.total = typed.total /\ typed' \in ReaderType
    BY <1>3, <1>10, <2>1 DEF ReaderType
  <2>3. typed.n = Len(text.segs) + 1
    <3>1. typed.n \in 1 .. Len(text.segs) + 1 /\ ~ (typed.n <= Len(text.segs))
      BY <1>3, <1>10, <2>1 DEF HasMore
    <3>2. QED
      BY <1>2, <3>1
  <2>4. TypedOK(typed', S)
    BY <1>1, <1>3, <1>10, <2>1, <2>2, <2>3 DEF TypedOK, StandsAt
  <2>5. QED
    BY <1>3, <2>1, <2>2, <2>4
<1>11. QED
  BY <1>5, <1>6, <1>7, <1>8, <1>9, <1>10 DEF ReadTyped

\* The reader of tags goes on.
LEMMA ReadTagKeeps ==
  ASSUME DurInv, ReadTag
  PROVE  DurInv'
<1>1. text' = text /\ typed' = typed /\ tag.at = "reads" /\ text \in Texts /\ IsZero' = IsZero
  BY DEF ReadTag, DurInv, IsZero
<1>2. Len(text.segs) \in Nat /\ (text.segs = <<>> <=> Len(text.segs) = 0)
  BY <1>1, TextFacts
<1>3. \A S, M : SumOf(S, M) =>
        /\ tag \in ReaderType /\ tag.n \in 1 .. Len(text.segs) + 1 /\ tag.total = S[tag.n - 1]
        /\ M \in Nat /\ M <= Len(text.segs) /\ tag.n - 1 <= M /\ TagOK(tag, S)
  BY <1>1 DEF SumOf, TagOK, StandsAt
<1>4. SUFFICES \E S, M : SumOf(S, M) /\ tag'.n - 1 <= M /\ TagOK(tag', S)
  <2>1. PICK S, M : SumOf(S, M) /\ tag'.n - 1 <= M /\ TagOK(tag', S)
    BY <1>4
  <2>2. TagOK(tag, S)' <=> TagOK(tag', S)
    BY <1>1 DEF TagOK, StandsAt
  <2>3. AddsUp(S, M)' /\ TypedOK(typed, S)'
    BY <1>1, <2>1 DEF SumOf, AddsUp, TypedOK, StandsAt
  <2>4. SumOf(S, M)'
    BY <1>1, <2>1, <2>2, <2>3 DEF SumOf
  <2>5. QED
    BY <1>1, <2>4 DEF DurInv
<1>5. CASE IsZero
  <2>1. PICK S, M : SumOf(S, M)
    BY DEF DurInv
  <2>2. tag' = [tag EXCEPT !.at = "read"] /\ tag.n = 1 /\ tag.total = 0
    BY <1>1, <1>5, AtZero DEF ReadTag
  <2>3. tag'.at = "read" /\ tag'.n = tag.n /\ tag'.total = 0 /\ tag' \in ReaderType
    BY <1>3, <2>1, <2>2 DEF ReaderType
  <2>4. TagOK(tag', S)
    BY <1>3, <1>5, <2>1, <2>2, <2>3 DEF TagOK, StandsAt
  <2>5. QED
    BY <1>3, <2>1, <2>3, <2>4
<1>6. CASE ~ IsZero /\ tag' = [tag EXCEPT !.at = "refused"]
           /\ (text.segs = <<>> \/ text.tail # "" \/ (HasMore(tag) /\ ~ TagSegment(Segment(tag))))
  <2>1. PICK S, M : SumOf(S, M)
    BY DEF DurInv
  <2>2. tag'.at = "refused" /\ tag'.n = tag.n /\ tag'.total = tag.total /\ tag' \in ReaderType
    BY <1>3, <1>6, <2>1 DEF ReaderType
  <2>3. TagOK(tag', S)
    BY <1>1, <1>3, <1>6, <2>1, <2>2 DEF TagOK, StandsAt, HasMore, Segment
  <2>4. QED
    BY <1>3, <2>1, <2>2, <2>3
<1>9. CASE ~ IsZero /\ HasMore(tag) /\ TagSegment(Segment(tag)) /\ tag' = Adds(tag, Segment(tag))
  <2>1. tag.n <= Len(text.segs)
    BY <1>9 DEF HasMore
  <2>2. PICK S, M : SumOf(S, M) /\ tag.n <= M
    BY <2>1, SumForNext
  <2>3. tag.n \in Nat /\ tag.n >= 1 /\ tag.n \in 1 .. M /\ tag.n \in 1 .. Len(text.segs) /\ tag.n + 1 - 1 = tag.n
        /\ tag.n + 1 \in 1 .. Len(text.segs) + 1
    BY <1>2, <1>3, <2>1, <2>2
  <2>4. S[tag.n] = S[tag.n - 1] + Ticks(text.segs[tag.n])
    BY <2>2, <2>3 DEF SumOf, AddsUp
  <2>5. tag \in ReaderType /\ tag.total = S[tag.n - 1] /\ Segment(tag) = text.segs[tag.n]
        /\ text.segs[tag.n] \in Segments /\ TagOK(tag, S)
    BY <1>1, <1>3, <2>2, <2>3, TextFacts DEF Segment
  <2>6. tag'.at = "reads" /\ tag'.n = tag.n + 1 /\ tag'.total = S[tag.n] /\ tag' \in ReaderType
    <3>1. Ticks(text.segs[tag.n]) \in Nat
      BY <1>1, <2>3, TextFacts
    <3>2. tag' = Adds(tag, text.segs[tag.n])
      BY <1>9, <2>5
    <3>3. tag' \in ReaderType /\ tag'.at = "reads" /\ tag'.n = tag.n + 1
          /\ tag'.total = tag.total + Ticks(text.segs[tag.n])
      BY <1>1, <2>5, <3>1, <3>2, ReaderMoves
    <3>4. QED
      BY <2>4, <2>5, <3>3
  <2>7. \A k \in 1 .. tag.n : TagSegment(text.segs[k])
    <3>1. \A k \in 1 .. tag.n - 1 : TagSegment(text.segs[k])
      BY <2>5 DEF TagOK
    <3>2. \A k \in 1 .. tag.n : k \in 1 .. tag.n - 1 \/ k = tag.n
      BY <2>3
    <3>3. QED
      BY <1>9, <2>5, <3>1, <3>2
  <2>8. StandsAt(tag', S)
    BY <2>3, <2>6 DEF StandsAt
  <2>9. TagOK(tag', S)
    <3>1. tag'.n - 1 = tag.n
      BY <2>3, <2>6
    <3>2. QED
      BY <1>9, <2>6, <2>7, <2>8, <3>1 DEF TagOK
  <2>10. QED
    BY <2>2, <2>3, <2>6, <2>9
<1>10. CASE ~ IsZero /\ text.segs # <<>> /\ ~ HasMore(tag) /\ text.tail = ""
            /\ tag' = [tag EXCEPT !.at = "read", !.total = IF text.sign = "-" THEN -@ ELSE @]
  <2>1. PICK S, M : SumOf(S, M)
    BY DEF DurInv
  <2>2. tag'.at = "read" /\ tag'.n = tag.n /\ tag' \in ReaderType
        /\ tag'.total = (IF text.sign = "-" THEN -tag.total ELSE tag.total)
    <3>1. tag \in ReaderType /\ Ticks(text.segs[1]) \in Nat
      <4>1. 1 \in 1 .. Len(text.segs)
        <5>1. text.segs # <<>>
          BY <1>10
        <5>2. QED
          BY <1>2, <5>1
      <4>2. QED
        BY <1>1, <1>3, <2>1, <4>1, TextFacts
    <3>2. QED
      BY <1>1, <1>10, <3>1, ReaderMoves
  <2>3. tag.n = Len(text.segs) + 1
    <3>1. tag.n \in 1 .. Len(text.segs) + 1 /\ ~ (tag.n <= Len(text.segs))
      BY <1>3, <1>10, <2>1 DEF HasMore
    <3>2. QED
      BY <1>2, <3>1
  <2>4. TagOK(tag', S)
    BY <1>1, <1>3, <1>10, <2>1, <2>2, <2>3 DEF TagOK, StandsAt
  <2>5. QED
    BY <1>3, <2>1, <2>2, <2>4
<1>11. QED
  BY <1>5, <1>6, <1>9, <1>10 DEF ReadTag

\* Each step of either reader keeps the sum.
LEMMA DurKeeps == DurInv /\ [DurNext]_durVars => DurInv'
<1> SUFFICES ASSUME DurInv, [DurNext]_durVars PROVE DurInv'
  OBVIOUS
<1>1. CASE ReadTyped
  BY <1>1, ReadTypedKeeps
<1>2. CASE ReadTag
  BY <1>2, ReadTagKeeps
<1>3. CASE UNCHANGED durVars
  <2>1. text' = text /\ typed' = typed /\ tag' = tag
    BY <1>3 DEF durVars
  <2>2. PICK S, M : SumOf(S, M)
    BY DEF DurInv
  <2>3. AddsUp(S, M)' /\ TypedOK(typed, S)' /\ TagOK(tag, S)'
    BY <2>1, <2>2 DEF SumOf, AddsUp, TypedOK, TagOK, StandsAt, IsZero
  <2>4. SumOf(S, M)'
    BY <2>1, <2>2, <2>3 DEF SumOf
  <2>5. QED
    BY <2>1, <2>4 DEF DurInv
<1>4. QED
  BY <1>1, <1>2, <1>3 DEF DurNext

\* What the sum says of one segment.
LEMMA SumFacts ==
  ASSUME NEW S, NEW M \in Nat, AddsUp(S, M)
  PROVE  \A k \in 1 .. M : /\ S[k - 1] \in Nat /\ S[k] \in Nat /\ S[M] \in Nat
                           /\ S[k] = S[k - 1] + Ticks(text.segs[k]) /\ S[k] <= S[M]
<1> SUFFICES ASSUME NEW k \in 1 .. M
             PROVE  /\ S[k - 1] \in Nat /\ S[k] \in Nat /\ S[M] \in Nat
                    /\ S[k] = S[k - 1] + Ticks(text.segs[k]) /\ S[k] <= S[M]
  OBVIOUS
<1>1. k - 1 \in Nat /\ k \in Nat /\ k \in 0 .. M /\ M \in 0 .. M /\ k <= M
  OBVIOUS
<1>2. S \in [Nat -> Nat] /\ (\A i, j \in 0 .. M : i <= j => S[i] <= S[j])
      /\ \A i \in 1 .. M : S[i] = S[i - 1] + Ticks(text.segs[i])
  BY DEF AddsUp
<1>3. S[k - 1] \in Nat /\ S[k] \in Nat /\ S[M] \in Nat
  BY <1>1, <1>2
<1>4. S[k] <= S[M]
  BY <1>1, <1>2
<1>5. QED
  BY <1>2, <1>3, <1>4

\* The two readers agree, as each has read a sum of the same segments.
LEMMA SumsAgree == DurInv => ReadersAgree
<1>0. SUFFICES ASSUME DurInv, typed.at # "reads", tag.at # "reads"
             PROVE  /\ tag.at = "read" => \A n \in DOMAIN text.segs : text.segs[n].unit # "d"
                    /\ tag.at = "read" /\ text.sign = "" /\ ~text.padded /\ tag.total <= MaxTicks =>
                           typed.at = "read" /\ typed.total = tag.total
                    /\ typed.at = "read" =>
                           \/ tag.at = "read" /\ tag.total = typed.total
                           \/ \E n \in DOMAIN text.segs : text.segs[n].unit = "d" \/ text.segs[n].form \in {".5", "4."}
  BY DEF ReadersAgree
<1>1. PICK S, M : SumOf(S, M)
  BY <1>0 DEF DurInv
<1> DEFINE L == Len(text.segs)
<1>2. /\ L \in Nat /\ M \in Nat /\ M <= L /\ MaxTicks \in Nat
      /\ DOMAIN text.segs = 1 .. L
      /\ \A k \in 1 .. L : Ticks(text.segs[k]) \in Nat /\ text.segs[k] \in Segments
  <2>1. text.segs \in BoundedSeq(Segments, MaxSegments)
    BY <1>0 DEF DurInv, Texts
  <2>2. PICK m \in 0 .. MaxSegments : text.segs \in [1 .. m -> Segments]
    BY <2>1 DEF BoundedSeq, SeqOf
  <2>3. MaxSegments \in Nat /\ MaxTicks \in Nat
    BY DurationConstants
  <2>4. m \in Nat /\ L = m /\ DOMAIN text.segs = 1 .. m
    BY <2>2, <2>3
  <2>5. QED
    BY <1>0, <1>1, <2>3, <2>4, TextFacts DEF DurInv, SumOf
<1>3. TypedOK(typed, S) /\ TagOK(tag, S) /\ AddsUp(S, M) /\ typed.n - 1 <= M /\ tag.n - 1 <= M
      /\ StandsAt(typed, S) /\ StandsAt(tag, S)
  BY <1>1 DEF SumOf, TypedOK, TagOK
<1> HIDE DEF L
<1>4. CASE IsZero
  <2>1. typed.at = "read" /\ tag.at = "read" /\ typed.total = 0 /\ tag.total = 0
    BY <1>0, <1>3, <1>4 DEF StandsAt, ReaderType
  <2>2. L = 1 /\ text.segs[1].unit = ""
    BY <1>0, <1>4, TextFacts DEF DurInv, L
  <2>3. \A n \in 1 .. L : n = 1
    <3>1. L = 1
      BY <2>2
    <3>2. QED
      BY <3>1
  <2>4. QED
    BY <1>2, <2>1, <2>2, <2>3
<1>5. CASE ~ IsZero
  <2>1. tag.at = "read" => \A n \in 1 .. L : TagSegment(text.segs[n])
    <3>0. SUFFICES ASSUME tag.at = "read", NEW n \in 1 .. L PROVE TagSegment(text.segs[n])
      OBVIOUS
    <3>1. tag.n = L + 1
      BY <1>3, <1>5, <3>0 DEF StandsAt, L
    <3>2. n \in 1 .. tag.n - 1
      BY <1>2, <3>1
    <3>3. QED
      BY <1>3, <3>2 DEF TagOK
  <2>2. typed.at = "read" => \A n \in 1 .. L : TypedSegment(text.segs[n])
    <3>0. SUFFICES ASSUME typed.at = "read", NEW n \in 1 .. L PROVE TypedSegment(text.segs[n])
      OBVIOUS
    <3>1. typed.n = L + 1
      BY <1>3, <1>5, <3>0 DEF StandsAt, L
    <3>2. n \in 1 .. typed.n - 1
      BY <1>2, <3>1
    <3>3. QED
      BY <1>3, <3>2 DEF TypedOK
  <2>3. tag.at = "read" => \A n \in DOMAIN text.segs : text.segs[n].unit # "d"
    BY <1>2, <2>1 DEF TagSegment
  <2>4. \A g : TagSegment(g) => TypedSegment(g)
    BY DEF TagSegment, TypedSegment
  <2>5. typed.n \in 1 .. L + 1 /\ tag.n \in 1 .. L + 1 /\ typed.n \in Nat /\ tag.n \in Nat
        /\ (typed.at = "read" \/ typed.at = "refused") /\ (tag.at = "read" \/ tag.at = "refused")
    <3>1. typed.n \in 1 .. L + 1 /\ tag.n \in 1 .. L + 1 /\ typed \in ReaderType /\ tag \in ReaderType
      BY <1>3 DEF StandsAt, L
    <3>2. QED
      BY <1>0, <3>1 DEF ReaderType
  <2>6. tag.at = "read" /\ text.sign = "" /\ ~ text.padded /\ tag.total <= MaxTicks =>
          typed.at = "read" /\ typed.total = tag.total
    <3>0. SUFFICES ASSUME tag.at = "read", text.sign = "", ~ text.padded, tag.total <= MaxTicks
                 PROVE  typed.at = "read" /\ typed.total = tag.total
      OBVIOUS
    <3>1. tag.n = L + 1 /\ text.tail = "" /\ text.segs # <<>> /\ tag.total = S[tag.n - 1]
      BY <1>3, <1>5, <3>0 DEF StandsAt, TagOK, L
    <3>2. M = L /\ tag.n - 1 = L /\ tag.total = S[L]
      <4>1. L \in Nat /\ M \in Nat /\ M <= L /\ tag.n = L + 1 /\ tag.n - 1 <= M
        BY <1>2, <1>3, <3>1
      <4>2. M = L /\ tag.n - 1 = L
        BY <4>1
      <4>3. QED
        BY <3>1, <4>2
    <3>3. typed.at # "refused"
      <4>0. SUFFICES ASSUME typed.at = "refused" PROVE FALSE
        OBVIOUS
      <4>1. typed.n <= L /\ (~ TypedSegment(text.segs[typed.n]) \/ ~ (typed.total + Ticks(text.segs[typed.n]) <= MaxTicks))
            /\ typed.total = S[typed.n - 1]
        BY <1>3, <3>0, <3>1, <4>0 DEF TypedOK, StandsAt, L
      <4>2. typed.n \in 1 .. L /\ typed.n \in 0 .. M /\ L \in 0 .. M
        <5>1. typed.n \in 1 .. L + 1 /\ typed.n <= L /\ L \in Nat /\ M = L
          BY <1>2, <2>5, <3>2, <4>1
        <5>2. QED
          BY <5>1
      <4>3. TypedSegment(text.segs[typed.n])
        BY <2>1, <2>4, <3>0, <4>2
      <4>4. S[typed.n] = S[typed.n - 1] + Ticks(text.segs[typed.n]) /\ S[typed.n] <= S[L]
            /\ S[typed.n] \in Nat /\ S[L] \in Nat
        <5>1. M \in Nat /\ M = L /\ typed.n \in 1 .. M /\ AddsUp(S, M)
          BY <1>2, <1>3, <3>2, <4>2
        <5>2. QED
          BY <5>1, SumFacts
      <4>5. MaxTicks \in Nat /\ S[L] <= MaxTicks /\ ~ (S[typed.n] <= MaxTicks) /\ S[typed.n] <= S[L]
            /\ S[typed.n] \in Nat /\ S[L] \in Nat
        BY <1>2, <3>0, <3>2, <4>1, <4>3, <4>4
      <4>6. \A a, b, c \in Nat : ~ (b <= a /\ c <= b /\ ~ (c <= a))
        OBVIOUS
      <4>7. QED
        BY <4>5, <4>6, Zenon
    <3>4. typed.at = "read"
      BY <2>5, <3>3
    <3>5. typed.n = L + 1 /\ typed.total = S[typed.n - 1]
      BY <1>3, <1>5, <3>4 DEF StandsAt, TypedOK, L
    <3>6. QED
      BY <3>1, <3>4, <3>5
  <2>7. typed.at = "read" => \/ tag.at = "read" /\ tag.total = typed.total
                             \/ \E n \in DOMAIN text.segs : text.segs[n].unit = "d" \/ text.segs[n].form \in {".5", "4."}
    <3>0. SUFFICES ASSUME typed.at = "read",
                        ~ \E n \in DOMAIN text.segs : text.segs[n].unit = "d" \/ text.segs[n].form \in {".5", "4."}
                 PROVE  tag.at = "read" /\ tag.total = typed.total
      OBVIOUS
    <3>1. typed.n = L + 1 /\ text.tail = "" /\ text.segs # <<>> /\ typed.total = S[typed.n - 1]
      BY <1>3, <1>5, <3>0 DEF StandsAt, TypedOK, L
    <3>2. text.sign = ""
      BY <1>3, <1>5, <3>0 DEF TypedOK
    <3>3. \A n \in 1 .. L : TagSegment(text.segs[n])
      <4>1. \A n \in 1 .. L : TypedSegment(text.segs[n]) /\ text.segs[n].unit # "d" /\ text.segs[n].form \notin {".5", "4."}
        BY <1>2, <2>2, <3>0
      <4>2. QED
        BY <4>1 DEF TypedSegment, TagSegment
    <3>4. tag.at # "refused"
      <4>0. SUFFICES ASSUME tag.at = "refused" PROVE FALSE
        OBVIOUS
      <4>1. tag.n <= L /\ ~ TagSegment(text.segs[tag.n])
        BY <1>3, <3>1, <4>0 DEF TagOK, L
      <4>2. tag.n \in 1 .. L
        BY <1>2, <2>5, <4>1
      <4>3. QED
        BY <3>3, <4>1, <4>2
    <3>5. tag.at = "read"
      BY <2>5, <3>4
    <3>6. tag.n = L + 1 /\ tag.total = S[tag.n - 1]
      BY <1>3, <1>5, <3>2, <3>5 DEF StandsAt, TagOK, L
    <3>7. typed.n = L + 1 /\ typed.total = S[typed.n - 1]
      BY <1>3, <1>5, <3>0 DEF StandsAt, TypedOK, L
    <3>8. QED
      BY <3>5, <3>6, <3>7
  <2>8. QED
    BY <2>3, <2>6, <2>7
<1>6. QED
  BY <1>4, <1>5

\* A sum of none is of segments of none.
LEMMA SumOfNone == DurInv => NothingReadsAsNone
<1>0. SUFFICES ASSUME DurInv, typed.at = "read", typed.total = 0, ~ IsZero
             PROVE  text.tail = "" /\ \A n \in DOMAIN text.segs : text.segs[n].unit # "" /\ Ticks(text.segs[n]) = 0
  BY DEF NothingReadsAsNone
<1>1. PICK S, M : SumOf(S, M)
  BY <1>0 DEF DurInv
<1> DEFINE L == Len(text.segs)
<1>2. /\ L \in Nat /\ M \in Nat /\ M <= L
      /\ DOMAIN text.segs = 1 .. L
      /\ \A k \in 1 .. L : Ticks(text.segs[k]) \in Nat /\ text.segs[k] \in Segments
  <2>1. text.segs \in BoundedSeq(Segments, MaxSegments)
    BY <1>0 DEF DurInv, Texts
  <2>2. PICK m \in 0 .. MaxSegments : text.segs \in [1 .. m -> Segments]
    BY <2>1 DEF BoundedSeq, SeqOf
  <2>3. MaxSegments \in Nat
    BY DurationConstants
  <2>4. m \in Nat /\ L = m /\ DOMAIN text.segs = 1 .. m
    BY <2>2, <2>3
  <2>5. QED
    BY <1>0, <1>1, <2>4, TextFacts DEF DurInv, SumOf
<1>3. TypedOK(typed, S) /\ AddsUp(S, M) /\ typed.n - 1 <= M /\ StandsAt(typed, S)
  BY <1>1 DEF SumOf, TypedOK
<1> HIDE DEF L
<1>4. typed.n = L + 1 /\ text.tail = "" /\ S[typed.n - 1] = 0
  BY <1>0, <1>3 DEF StandsAt, TypedOK, L
<1>5. M = L /\ typed.n - 1 = L /\ S[L] = 0
  <2>1. L \in Nat /\ M \in Nat /\ M <= L /\ typed.n = L + 1 /\ typed.n - 1 <= M
    BY <1>2, <1>3, <1>4
  <2>2. M = L /\ typed.n - 1 = L
    BY <2>1
  <2>3. QED
    BY <1>4, <2>2
<1>6. ASSUME NEW n \in 1 .. L PROVE text.segs[n].unit # "" /\ Ticks(text.segs[n]) = 0
  <2>1. TypedSegment(text.segs[n])
    BY <1>3, <1>5 DEF TypedOK
  <2>2. n \in 0 .. M /\ L \in 0 .. M /\ n - 1 \in Nat /\ n \in Nat
    BY <1>2, <1>5
  <2>3. S[n] <= S[L] /\ S[n] = S[n - 1] + Ticks(text.segs[n]) /\ S[n - 1] \in Nat /\ S[n] \in Nat
    <3>1. M \in Nat /\ n \in 1 .. M /\ M = L
      BY <1>2, <1>5
    <3>2. QED
      BY <1>3, <3>1, SumFacts
  <2>4. Ticks(text.segs[n]) = 0
    <3>1. \A a, b, c \in Nat : a <= 0 /\ a = b + c => c = 0
      OBVIOUS
    <3>2. Ticks(text.segs[n]) \in Nat /\ S[n] <= 0
      BY <1>2, <1>5, <2>3
    <3>3. QED
      BY <2>3, <3>1, <3>2, Zenon
  <2>5. QED
    BY <2>1, <2>4 DEF TypedSegment
<1>7. QED
  BY <1>2, <1>4, <1>6

\* What is written of a time, unit by unit, is read back as that time to the nearest millisecond.
LEMMA WrittenIsReadBack ==
  ASSUME NEW ticks \in Nat, ticks > 0, NEW asTag \in FormatDuration(ticks)
  PROVE  TagMs(asTag) \in Rounded(ticks) /\ (ticks > 2 => TagMs(asTag) > 0)
<1> DEFINE h == ticks \div 14400000
           m == (ticks \div 240000) % 60
           sec == ticks % 240000
           units == (IF h > 0 THEN {"h"} ELSE {})
                      \cup (IF m > 0 \/ (h > 0 /\ sec > 0) THEN {"m"} ELSE {})
                      \cup (IF sec > 0 \/ (h = 0 /\ m = 0) THEN {"s"} ELSE {})
<1>1. PICK ms \in Rounded(sec) : asTag = [u \in units |-> [h |-> h, m |-> m, s |-> ms][u]]
  BY SMT DEF FormatDuration
<1>2. h \in Nat /\ m \in Nat /\ sec \in Nat /\ ticks = 14400000 * h + 240000 * m + sec /\ sec < 240000
  BY SMT
<1>3. ms \in Nat /\ 4 * ms - sec \in -2 .. 2 /\ ms \in {sec \div 4, sec \div 4 + 1}
  BY <1>2, SMT DEF Rounded
<1> HIDE DEF h, m, sec
<1>4. (sec = 0 /\ ~ (h = 0 /\ m = 0)) => ms = 0
  BY <1>2, <1>3, SMT
<1>5. TagMs(asTag) = 3600000 * h + 60000 * m + ms
  <2>1. DOMAIN asTag = units
    BY <1>1
  <2>2. "h" \in units <=> h > 0
    OBVIOUS
  <2>3. "m" \in units <=> (m > 0 \/ (h > 0 /\ sec > 0))
    OBVIOUS
  <2>4. "s" \in units <=> (sec > 0 \/ (h = 0 /\ m = 0))
    OBVIOUS
  <2>5. ("h" \in units => asTag["h"] = h) /\ ("m" \in units => asTag["m"] = m) /\ ("s" \in units => asTag["s"] = ms)
    BY <1>1
  <2> DEFINE n(u) == IF u \in DOMAIN asTag THEN asTag[u] ELSE 0
  <2>6. n("h") = h
    BY <1>2, <2>1, <2>2, <2>5, SMT
  <2>7. n("m") = m
    BY <1>2, <2>1, <2>3, <2>5, SMT
  <2>8. n("s") = ms
    <3>1. CASE "s" \in units
      BY <2>1, <2>5, <3>1
    <3>2. CASE "s" \notin units
      <4>1. sec = 0 /\ ~ (h = 0 /\ m = 0)
        <5>1. ~ (sec > 0)
          BY <2>4, <3>2
        <5>2. sec = 0
          BY <1>2, <5>1, SMT
        <5>3. QED
          BY <2>4, <3>2, <5>2
      <4>2. QED
        BY <1>4, <2>1, <3>2, <4>1
    <3>3. QED
      BY <3>1, <3>2
  <2>9. TagMs(asTag) = n("h") * 3600000 + n("m") * 60000 + n("s")
    BY SMT DEF TagMs
  <2> HIDE DEF n, units
  <2>10. QED
    BY <1>2, <1>3, <2>6, <2>7, <2>8, <2>9, SMT
<1>6. 4 * TagMs(asTag) - ticks = 4 * ms - sec /\ TagMs(asTag) \in Nat
  BY <1>2, <1>3, <1>5, SMT
<1>7. TagMs(asTag) * 4 - ticks \in -2 .. 2
  BY <1>3, <1>6, SMT
<1>8. TagMs(asTag) \in {ticks \div 4, ticks \div 4 + 1}
  <2>1. ticks = 4 * (ticks \div 4) + (ticks % 4) /\ ticks % 4 \in 0 .. 3 /\ ticks \div 4 \in Nat
    BY SMT
  <2>2. ticks \div 4 = 3600000 * h + 60000 * m + sec \div 4
    BY <1>2, SMT
  <2>3. QED
    BY <1>2, <1>3, <1>5, <2>2, SMT
<1>9. QED
  BY <1>6, <1>7, <1>8, SMT DEF Rounded

\* What a launch accepts survives its tag.
LEMMA AcceptedSurvives == DurInv => BoundSurvivesItsTag
<1> SUFFICES ASSUME DurInv, typed.at = "read", typed.total > 0, NEW asTag \in FormatDuration(typed.total)
             PROVE  TagMs(asTag) \in Rounded(typed.total) /\ (typed.total > 2 => TagMs(asTag) > 0)
  BY Zenon DEF BoundSurvivesItsTag, ReadForLaunch
<1>1. typed.total \in Nat
  <2>1. PICK S, M : SumOf(S, M)
    BY DEF DurInv
  <2>2. typed.total \in Int
    BY <2>1 DEF SumOf, TypedOK, StandsAt, ReaderType
  <2>3. QED
    BY <2>2, SMT
<1>2. QED
  BY <1>1, WrittenIsReadBack, Zenon

(***************************************************************************)
(* Whatever the segments and the ceiling, a duration typed for a launch,   *)
(* written to a tag and read back stays what it was and stays a bound, the *)
(* readers agree, and nothing asked for is read as none (duration.ts).     *)
(***************************************************************************)
THEOREM DurationsAlwaysAgree == DurSpec => []DurationsAgree
<1>1. DurInv => DurationsAgree
  BY SumsAgree, SumOfNone, AcceptedSurvives DEF DurationsAgree
<1>2. QED
  BY <1>1, DurStarts, DurKeeps, PTL DEF DurSpec

-----------------------------------------------------------------------------
(***************************************************************************)
(* What is typed, in the behaviours of all the parts.  A part at rest has  *)
(* launched nothing, and has refused what nobody typed.                    *)
(***************************************************************************)
\* A command line, in every behaviour of the parts together.
LEMMA LinesAreReadThere == FrontSpec => []LineIsReadAsTyped
<1>1. FrontInit => ArgsInv
  BY ArgsStart DEF FrontInit
<1>2. ArgsInv /\ [FrontNext]_FrontVars => ArgsInv'
  <2>1. [FrontNext]_FrontVars => [ArgsNext]_argsVars
    BY DEF FrontNext, FrontVars, Only
  <2>2. QED
    BY <2>1, ArgsKeep
<1>3. QED
  BY <1>1, <1>2, ReadIsTyped, PTL DEF FrontSpec

\* A duration, in every behaviour of the parts together.
LEMMA DurationsAgreeThere == FrontSpec => []DurationsAgree
<1>1. FrontInit => DurInv
  BY DurStarts DEF FrontInit
<1>2. DurInv /\ [FrontNext]_FrontVars => DurInv'
  <2>1. [FrontNext]_FrontVars => [DurNext]_durVars
    BY DEF FrontNext, FrontVars, Only
  <2>2. QED
    BY <2>1, DurKeeps
<1>3. DurInv => DurationsAgree
  BY SumsAgree, SumOfNone, AcceptedSurvives DEF DurationsAgree
<1>4. QED
  BY <1>1, <1>2, <1>3, PTL DEF FrontSpec

\* The doors, where one is asked at; elsewhere nobody has launched anything.
LEMMA EntriesAreHonouredThere == FrontSpec => []EntriesAreHonoured
<1> DEFINE Rest  == request = AtRest /\ real = FALSE /\ intake = "typed" /\ fan = NoFan /\ runs = {}
           There == (focus = "entries" /\ EntriesInv) \/ (focus # "entries" /\ Rest)
<1>1. FrontInit => There
  BY EntriesStart DEF FrontInit
<1>2. There /\ [FrontNext]_FrontVars => There'
  <2>1. [FrontNext]_FrontVars => focus' = focus /\ (focus = "entries" => [EntriesNext]_entryVars)
                                  /\ (focus # "entries" => UNCHANGED entryVars)
    BY DEF FrontNext, FrontVars, Only
  <2>2. UNCHANGED entryVars => (Rest => Rest')
    BY DEF entryVars
  <2> HIDE DEF Rest
  <2>3. QED
    BY <2>1, <2>2, EntriesKeep
<1>3. There => EntriesAreHonoured
  <2>1. EntriesInv => EntriesAreHonoured
    BY EntriesConstants DEF EntriesInv, EntriesAreHonoured, EntriesTypeOK, FanOptions
  <2>2. AtRest \in RequestFields
    BY DEF AtRest, Req, RequestFields, Classes, FanDoors
  <2>3. ASSUME Rest PROVE EntriesAreHonoured
    <3>1. EntriesTypeOK
      <4>1. request \in RequestFields /\ real \in BOOLEAN /\ intake = "typed"
        BY <2>2, <2>3
      <4>2. fan.left = 0 /\ fan.cap = 0 /\ fan.delay = 0
        BY <2>3 DEF NoFan
      <4>3. QED
        BY <4>1, <4>2 DEF EntriesTypeOK
    <3>2. NothingBillsUnbounded /\ SlipsNeverLaunch
      BY <2>3 DEF NothingBillsUnbounded, SlipsNeverLaunch
    <3>3. ThresholdIsReachable
      BY <2>3 DEF ThresholdIsReachable
    <3>4. QED
      BY <3>1, <3>2, <3>3 DEF EntriesAreHonoured
  <2> HIDE DEF Rest
  <2>4. QED
    BY <2>1, <2>3
<1>4. QED
  BY <1>1, <1>2, <1>3, PTL DEF FrontSpec

\* A sweep, where one is typed; elsewhere one of nothing was refused.
LEMMA SweepsAreSoundThere == FrontSpec => []SweepIsSound
<1> DEFINE Rest  == phase = "refused" /\ spec.params = <<>> /\ grid = <<>>
           There == (focus = "sweep" /\ SweepInv) \/ (focus # "sweep" /\ Rest)
<1>1. FrontInit => There
  BY SweepStarts DEF FrontInit, RestingUnless
<1>2. There /\ [FrontNext]_FrontVars => There'
  <2>1. [FrontNext]_FrontVars => focus' = focus /\ (focus = "sweep" => [SweepNext]_sweepVars)
                                  /\ (focus # "sweep" => UNCHANGED sweepVars)
    BY DEF FrontNext, FrontVars, Only
  <2>2. UNCHANGED sweepVars => (Rest => Rest')
    BY DEF sweepVars
  <2> HIDE DEF Rest
  <2>3. QED
    BY <2>1, <2>2, SweepKeeps
<1>3. There => SweepIsSound
  <2>1. SweepInv => SweepIsSound
    BY AllCombined, OwnValuesWin, UnnamedAreApart, AllAreAnswered DEF SweepIsSound
  <2>2. Rest => SweepIsSound
    BY DEF SweepIsSound, IndexIsMixedRadix, OwnValueWins, UnnamedDiffer, AnsweredRightly
  <2> HIDE DEF Rest
  <2>3. QED
    BY <2>1, <2>2
<1>4. QED
  BY <1>1, <1>2, <1>3, PTL DEF FrontSpec

(***************************************************************************)
(* What is typed is taken as it was meant, or refused before anything is   *)
(* launched (TypedIsTaken), whatever it is: lines of any length, durations *)
(* of any segments, bounds at every door, sweeps of any keys and values    *)
(* (args.ts:55-98, duration.ts, commands.ts:276-298, client.ts:610-613,    *)
(* fanout.ts:202-208, params.ts:41-112, sweep.ts:95).                      *)
(***************************************************************************)
THEOREM TypedAlwaysTaken == FrontSpec => []TypedIsTaken
<1>1. LineIsReadAsTyped /\ DurationsAgree /\ EntriesAreHonoured /\ SweepIsSound => TypedIsTaken
  BY DEF TypedIsTaken
<1>2. QED
  BY <1>1, LinesAreReadThere, DurationsAgreeThere, EntriesAreHonouredThere, SweepsAreSoundThere, PTL
=============================================================================
