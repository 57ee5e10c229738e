-------------------------------- MODULE Sim --------------------------------
(***************************************************************************)
(* SpawnClient on the MockProvider: the default backend, with a simulated  *)
(* clock.  The mock answers within the event-loop turn of the call, so a   *)
(* monitor tick and an operation each complete before the next begins, and *)
(* one action is one of them, the refreshes that end it included.          *)
(*                                                                         *)
(* Operations come from the dashboard's cards, which offer a button only   *)
(* in the states that suit it but address the instance by NAME, or from    *)
(* the API and the terminal, which check no state and may use the id.      *)
(***************************************************************************)
EXTENDS Lifecycle, Sequences

CONSTANTS
  Requests,      \* launch inputs: [ttl, idleTimeout, hibernates, budget, onComplete]
  Names,         \* names given to instances
  FreshNames,    \* whether no name is given twice
  Dashboard,     \* whether all operations come from the dashboard
  Extensions,    \* durations extend is called with
  Steps,         \* how far a tick moves the clock: speed times interval, or step()
  MaxStep,       \* the furthest of them
  Second,        \* a second, in units of the clock
  Grace,         \* ORPHAN_GRACE_MS
  MaxInstances, MaxExtends, Horizon   \* bounds of the exploration

ASSUME RequestsAssumption ==
  \A r \in Requests :
    /\ r.ttl \in Nat /\ r.idleTimeout \in Nat /\ r.budget \in Nat
    /\ r.hibernates \in BOOLEAN
    /\ r.onComplete \in {"none", "terminate", "stop", "hibernate", "exit"}
ASSUME TimesAssumption ==
  /\ MaxStep \in Nat /\ Steps \subseteq 0 .. MaxStep
  /\ Extensions \subseteq Nat \ {0}
  /\ Second \in Nat \ {0}
  /\ Grace \in Nat
  /\ MaxInstances \in Nat /\ MaxExtends \in Nat /\ Horizon \in Nat \ {0}

VARIABLES
  clock,
  fleet,    \* the mock's instances in the order of their launch
  warned,   \* warnings given: <<instance, rule>>
  hist      \* history of each instance, see NewHistory

vars == <<clock, fleet, warned, hist>>

Instances == 1 .. Len(fleet)

\* What the properties need to remember: the time the instance really ran, the
\* running time its TTL and its extensions allowed, how often it was extended
\* and how often a tick ended it, when it was last started, whether a tick has
\* found it close to its present deadline, whether the user was told of that
\* deadline, and whether he was told of an earlier one.
NewHistory(ttl) ==
  [ran |-> 0, allowed |-> ttl, extends |-> 0, kills |-> 0, woke |-> clock,
   close |-> FALSE, told |-> FALSE, heard |-> FALSE]

Init ==
  /\ clock = 1
  /\ fleet = << >>
  /\ warned = {}
  /\ hist = << >>

\* get: the first instance of that name, whatever its state.
Named(name) ==
  CHOOSE t \in Instances :
    /\ fleet[t].name = name
    /\ \A k \in Instances : fleet[k].name = name => t <= k

\* The instance that an operation on instance i reaches: a card offers the
\* operation in the states given and passes the name on.
Reaches(i, t, states) ==
  /\ Dashboard => fleet[i].state \in states /\ t = Named(fleet[i].name)
  /\ ~ Dashboard => t \in {i, Named(fleet[i].name)}

SetState(t, state) ==
  /\ fleet' = [fleet EXCEPT ![t].state = state]
  /\ UNCHANGED <<clock, warned>>

-----------------------------------------------------------------------------
\* A launch is running at once; its deadline is fixed by the clock.
Launch(r, name) ==
  /\ Len(fleet) < MaxInstances
  /\ FreshNames => \A i \in Instances : fleet[i].name # name
  /\ fleet' = Append(fleet,
       [name |-> name, state |-> "running", launch |-> clock, lastActivity |-> clock,
        ttl |-> r.ttl, deadline |-> IF r.ttl > 0 THEN clock + r.ttl ELSE 0,
        idleTimeout |-> r.idleTimeout, hibernates |-> r.hibernates,
        budget |-> r.budget, compute |-> 0, onComplete |-> r.onComplete])
  /\ hist' = Append(hist, NewHistory(r.ttl))
  /\ UNCHANGED <<clock, warned>>

Stop(i) ==
  /\ \E t \in Instances : Reaches(i, t, {"running"}) /\ SetState(t, "stopped")
  /\ UNCHANGED hist

Hibernate(i) ==
  /\ \E t \in Instances : Reaches(i, t, {"running"}) /\ SetState(t, "hibernated")
  /\ UNCHANGED hist

Terminate(i) ==
  /\ \E t \in Instances :
       Reaches(i, t, {"running", "stopped", "hibernated"}) /\ SetState(t, "terminated")
  /\ UNCHANGED hist

\* Variant: starting an instance begins its TTL anew.
Start_NewDeadline(i) ==
  \E t \in Instances :
    /\ Reaches(i, t, {"stopped", "hibernated"})
    /\ fleet' = [fleet EXCEPT ![t].state = "running",
                              ![t].deadline = IF fleet[t].ttl > 0 THEN clock + fleet[t].ttl ELSE 0]
    /\ hist' = [hist EXCEPT ![t].woke = clock]
    /\ UNCHANGED <<clock, warned>>

\* Variant: starting an instance begins its compute time anew.
Start_NewCompute(i) ==
  \E t \in Instances :
    /\ Reaches(i, t, {"stopped", "hibernated"})
    /\ fleet' = [fleet EXCEPT ![t].state = "running", ![t].compute = 0]
    /\ hist' = [hist EXCEPT ![t].woke = clock]
    /\ UNCHANGED <<clock, warned>>

\* The idle clock becomes the later of the last activity and the launch.
Start(i) ==
  \E t \in Instances :
    /\ Reaches(i, t, {"stopped", "hibernated"})
    /\ fleet' = [fleet EXCEPT ![t].state = "running",
                              ![t].lastActivity = Later(@, fleet[t].launch)]
    /\ hist' = [hist EXCEPT ![t].woke = clock]
    /\ UNCHANGED <<clock, warned>>

\* setTags decodes the whole configuration again, and with it the compute
\* time, which its tag holds rounded to the second.
Rounded(compute) == ((2 * compute + Second) \div (2 * Second)) * Second

Extend(i, by) ==
  \E t \in Instances :
    /\ Reaches(i, t, {"running"})
    /\ TtlDeadline(fleet[t]) # 0
    /\ hist[t].extends < MaxExtends
    /\ fleet' = [fleet EXCEPT ![t] =
                   [Extended(fleet[t], by, clock) EXCEPT !.compute = Rounded(@)]]
    /\ hist' = [hist EXCEPT ![t].allowed = @ + by, ![t].extends = @ + 1,
                            ![t].close = FALSE, ![t].told = FALSE,
                            ![t].heard = @ \/ hist[t].told]
    /\ UNCHANGED <<clock, warned>>

SignalComplete(i) ==
  \E t \in Instances :
    /\ Reaches(i, t, {"running"})
    /\ fleet[t].onComplete # "none"
    /\ SetState(t, StateAfter(fleet[t].onComplete, fleet[t].state))
    /\ UNCHANGED hist

\* findOrphans and reapOrphans: every live instance overdue beyond the grace.
Orphans ==
  {i \in Instances :
     /\ fleet[i].state \in {"running", "pending"}
     /\ TtlDeadline(fleet[i]) > 0
     /\ clock > TtlDeadline(fleet[i]) + Grace}

ReapOrphans ==
  /\ Orphans # {}
  /\ fleet' = [i \in Instances |->
                 IF i \in Orphans THEN [fleet[i] EXCEPT !.state = "terminated"] ELSE fleet[i]]
  /\ UNCHANGED <<clock, warned, hist>>

\* simTick: a running instance accrues the time that passed.
Accrued(i, d) == IF i.state = "running" THEN [i EXCEPT !.compute = @ + d] ELSE i

\* Variant: a warning once given is taken for the warnings of every rule.
News_OnePerInstance(i, now) ==
  {rule \in Warnings(i[2], now, FALSE, TRUE) : \A r \in {"ttl", "cost-limit", "idle"} : <<i[1], r>> \notin warned}

\* The warnings a tick gives for i, an instance and its number.
News(i, now) == {rule \in Warnings(i[2], now, FALSE, TRUE) : <<i[1], rule>> \notin warned}

\* What the monitor decides about f, d later: it passes for idle, and for
\* unsignalled.
Judged(f, d, now) == Decision(Accrued(f, d), now, FALSE, TRUE)

AfterTick(f, d, now) ==
  [Accrued(f, d) EXCEPT !.state = StateAfter(Judged(f, d, now).action, @)]

\* A tick moves the clock, accrues, evaluates every running instance, gives
\* the warnings not given before and acts.
Tick(d) ==
  LET now == clock + d
      news(i) == News(<<i, Accrued(fleet[i], d)>>, now)
      close(i) == "ttl" \in Warnings(Accrued(fleet[i], d), now, FALSE, TRUE)
  IN /\ now <= Horizon
     /\ clock' = now
     /\ fleet' = [i \in Instances |-> AfterTick(fleet[i], d, now)]
     /\ warned' = warned \cup UNION {{i} \X news(i) : i \in Instances}
     /\ hist' = [i \in Instances |->
          [hist[i] EXCEPT
             !.ran = IF fleet[i].state = "running" THEN @ + d ELSE @,
             !.kills = IF Judged(fleet[i], d, now).action = "terminate" THEN @ + 1 ELSE @,
             !.close = @ \/ close(i),
             !.told = @ \/ "ttl" \in news(i)]]

Next ==
  \/ \E r \in Requests, name \in Names : Launch(r, name)
  \/ \E i \in Instances :
       \/ Stop(i)
       \/ Hibernate(i)
       \/ Terminate(i)
       \/ Start(i)
       \/ \E by \in Extensions : Extend(i, by)
       \/ SignalComplete(i)
  \/ ReapOrphans
  \/ \E d \in Steps : Tick(d)

Spec == Init /\ [][Next]_vars

-----------------------------------------------------------------------------
InstanceStates == {"running", "stopped", "hibernated", "terminated"}

SimTypeOK ==
  /\ clock \in 1 .. Horizon
  /\ Len(fleet) <= MaxInstances /\ Len(hist) = Len(fleet)
  /\ warned \subseteq Instances \X {"ttl", "cost-limit", "idle"}
  /\ \A i \in Instances :
       /\ fleet[i].state \in InstanceStates
       /\ fleet[i].launch \in 1 .. clock
       /\ fleet[i].lastActivity \in 1 .. clock
       /\ fleet[i].deadline \in Nat
       /\ fleet[i].ttl \in Nat
       /\ fleet[i].compute \in Nat

\* What is left of an instance's TTL.
Remaining(i) == Later(TtlDeadline(fleet[i]) - clock, 0)

\* The TTL bounds how long an instance really runs, through any mix of stops,
\* starts, extensions before and after the deadline, and revivals: never
\* longer than its TTL and the extensions it was given, and one tick for each
\* time a tick found it due.  No stop or start buys life.
TtlBoundsRunning ==
  \A i \in Instances :
    TtlDeadline(fleet[i]) > 0 =>
      hist[i].ran + Remaining(i) <= hist[i].allowed + MaxStep * hist[i].kills

\* The cost limit bounds it too: total compute counts, not that of one boot,
\* and a rewrite of the tags rounds it by half a second at most.
BudgetBoundsRunning ==
  \A i \in Instances :
    fleet[i].budget > 0 =>
      2 * hist[i].ran <= 2 * (fleet[i].budget + MaxStep * hist[i].kills)
                         + Second * hist[i].extends

\* The two TTL tags never disagree, whatever was extended and when.
TtlTagsAgree ==
  \A i \in Instances :
    fleet[i].ttl > 0 => fleet[i].deadline = fleet[i].launch + fleet[i].ttl

\* The ttl tag and the deadline tag never drift apart, through launches,
\* extensions, stops and starts.
TagsAreConsistent == SimTypeOK /\ TtlTagsAgree

\* The monitor destroys only what a backstop tells it to, and what a backstop
\* tells it to destroy it never merely stops.
OnlyBackstopsDestroy ==
  [][clock' # clock =>
       \A i \in Instances :
         fleet[i].state = "running" =>
           LET due == \/ TtlDeadline(fleet[i]) \in 1 .. clock'
                      \/ fleet[i].budget \in 1 .. fleet'[i].compute
           IN fleet'[i].state = "terminated" <=> due]_vars

\* An extension is never lost: the new deadline is later than the old one and
\* leaves the instance the whole duration from now, however overdue it was.
ExtensionReachesFuture ==
  [][\A i \in Instances :
       hist'[i].extends # hist[i].extends =>
         LET by == hist'[i].allowed - hist[i].allowed IN
         /\ TtlDeadline(fleet'[i]) >= TtlDeadline(fleet[i]) + by
         /\ TtlDeadline(fleet'[i]) >= clock + by]_vars

\* Each instance is warned of its TTL once in its life, whichever rules warn of
\* it too and whatever is stopped, started and extended in between: once a tick
\* has found it within five minutes of its deadline, that deadline was announced
\* unless one before it had been, and one that an extension set after a warning
\* never is (warned is never reset).
WarnedOnce ==
  \A i \in Instances : hist[i].close => (hist[i].told <=> ~ hist[i].heard)

\* A started instance is given its idle timeout again before it is stopped as
\* idle.
IdleRearmsOnStart ==
  [][\A i \in Instances :
       (clock' # clock /\ fleet[i].state = "running"
          /\ fleet'[i].state \in {"stopped", "hibernated"})
       => clock' - hist[i].woke >= fleet[i].idleTimeout]_vars

\* What was terminated stays terminated.
TerminatedIsFinal ==
  [][\A i \in Instances :
       fleet[i].state = "terminated" => fleet'[i].state = "terminated"]_vars
-----------------------------------------------------------------------------
(***************************************************************************)
(* What the pane of cards (ui/dashboard.ts), drawn from the list after     *)
(* every operation and every tick, shows of the TTL: its meter, and the    *)
(* buttons that suit the state.  It adds no state.                         *)
(***************************************************************************)
NoMeter == [part |-> 0, whole |-> 0]

\* What is left of a whole.  Both tags are needed: a deadline alone has no
\* whole, a ttl alone no end.
TtlMeter(i) ==
  IF fleet[i].deadline = 0 \/ fleet[i].ttl = 0 THEN NoMeter
  ELSE [part |-> fleet[i].deadline - clock, whole |-> fleet[i].ttl]

Buttons(i) ==
  {"terminate"}
  \cup (IF fleet[i].state = "running" THEN {"stop", "hibernate", "extend"} ELSE {})
  \cup (IF fleet[i].state = "running" /\ fleet[i].onComplete # "none" THEN {"signal complete"} ELSE {})
  \cup (IF fleet[i].state \in {"stopped", "hibernated"} THEN {"start"} ELSE {})

\* What is terminated has no card.
Carded == {i \in Instances : fleet[i].state # "terminated"}

\* A ttl meter is never fuller than full, whatever was extended: that its bar is
\* cut at 100 percent hides nothing.
MeterFits == \A i \in Carded : TtlMeter(i).part <= TtlMeter(i).whole

\* Whatever the banner counts, such as an instance that was stopped past its
\* deadline and started again, has a card, whose meter is empty, and can be
\* ended there too.
OrphanIsEmpty ==
  Orphans \subseteq Carded /\ \A i \in Orphans : TtlMeter(i).part < 0 /\ "terminate" \in Buttons(i)

(***************************************************************************)
(* What the user is told and shown of a TTL: one warning in the life of an *)
(* instance, of the first deadline that came near; a meter that fits its   *)
(* frame; and a banner over nothing but empty meters (client.ts:234,       *)
(* dashboard.ts:493-549).                                                  *)
(***************************************************************************)
TtlNotices == WarnedOnce /\ MeterFits /\ OrphanIsEmpty
=============================================================================
