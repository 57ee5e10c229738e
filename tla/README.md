# TLA+ models of spawn-ts

This directory holds TLA+ modules that model spawn-ts, the TLC configurations
that check them on small instances, and proofs that TLAPS checks for every
value of the constants. Paths below are relative to the package: `core/x.ts` is
`src/src/core/x.ts` in `PROJECT.json`, `demo/x.ts` is `src/demo/x.ts`.

- [The system](#the-system): components, state, operations, what is hard
- [The modules](#the-modules): how state and actions correspond to the code
- [The runs](#the-runs): what each shows, its bounds and why they are enough
- [Fairness](#fairness)
- [The proofs](#the-proofs)
- [What the checks found](#what-the-checks-found)
- [Not modelled](#not-modelled), and [the plan](#the-plan)

To check it: `tlasany M.tla`, `tlc -config M_x.cfg MCM.tla`, `tlapm M.tla`.

## The system

spawn-ts launches virtual machines with limits on their life and watches over
them, from a browser page or a script, with no server. It is single-threaded
JavaScript: nothing is preempted, but at every `await` any other callback may
run, so the unit of atomicity is the stretch of code between two awaits.

```
  terminal, dashboard, forms       direct page      portal page --- portal service
          |                             |                |            (a role per request)
          |  lines, cards, dialogs      |  keys, shell   |  shell
          v                             v                v
   SpawnClient ---- tick, every 250 ms      SSM session (WebSocket) --- agent
     |  lastInstances, warned, fanOuts
     |  launch / terminate / extend
     +<------- FanOut (sweep, queue, array), pumped by the tick
     v
   Provider: MockProvider (simulated clock)  or  EC2Provider (AWS calls)
                                                   |  tags, user data, config object
                                                   v
                                         the instance: bootstrap, spored
```

| Component | State it keeps | Operations | Interacts through | What must be right |
|---|---|---|---|---|
| Fan-out engine `core/fanout.ts` | each member's state, attempts, last launch and attempt times | `pump`, gating, viability, `summary` | calls `client.launch`, is given the client's instance list | cap, dependencies before dependents, nothing launched in vain, spacing, every member settles |
| Job arrays `core/jobarray.ts` | the set of members already drained | `enforceViability` | `client.terminate`, called at each tick and by the user | a non-viable array stops billing; each survivor reported once |
| Client `core/client.ts` | `lastInstances`, `warned`, `fanOuts`, `clockMs`, the timer | `launch`, `refresh`, `stop`, `start`, `hibernate`, `terminate`, `extend`, `signalComplete`, `reapOrphans`, `tick`, `startSweep/Queue/JobArray`, `setProvider` | awaits every provider call; emits events | the backstops act, and act only on what is due; no instance runs that nobody knows of |
| Lifecycle rules `core/lifecycle.ts` | none | `evaluate`, `computeExtension`, `ttlDeadline` | called by `tick` and `extend` | order of the rules; an extension reaches the future |
| Mock provider `core/mock.ts` | instances, compute time | `launch`, `list`, `get`, `stop`, ..., `setTags`, `simTick` | answers within the event-loop turn | life bounded by TTL and budget across stops and starts |
| EC2 provider `aws/ec2.ts`, `aws/eip.ts` | none of its own: EC2 and its tags | the same, as API calls that take time and fail | AWS | an unbounded launch is refused; what a launch reports is so |
| User data `aws/userdata.ts` | none; its script runs on the instance | build, size check | the instance's boot | an instance whose set-up fails ends itself |
| Orphans `core/orphans.ts` | none; the dashboard keeps its result during a dialog | `findOrphans` | `reapOrphans` | only what is overdue is reaped |
| Sweeps, queues `core/sweep.ts`, `core/params.ts`, `core/queue.ts` | none | expansion, validation, order | build the members of a fan-out | the expansion meant by the specification; no cycle accepted |
| Bounds, durations, tags `core/bounds.ts`, `core/duration.ts`, `core/tags.ts`, `core/gojson.ts`, `core/launchconfig.ts` | none | encode, decode, refuse | used by both providers, read by spored | round trip; EC2's limit on tags; the same bytes as Go writes |
| Plug-ins, notices `core/plugins.ts`, `core/notices.ts` | none | parse, declare, say | status, launch | what is said of an instance is so |
| SSM session `ssm/*` | sequence numbers, pending input, handshake state | `open`, `sendInput`, `resize`, `close` | WebSocket callbacks, asynchronous digests | frames numbered in order, input kept until the shell is live, `onClose` |
| Sign-in `auth/*` | verifier and state in `sessionStorage` | `beginLogin`, `completeLogin`, federation | redirects, HTTP | only the login that was begun is completed |
| Globus transfer `transfer/globus.ts` | task identifiers | submit, poll, wait, cancel | HTTP | one submission is one transfer |
| Portal `demo/portal`, `portal/portal-core.ts` | the page's session; the service keeps none | launch, list, terminate, shell | a role assumed per request | no shell left open; the status tells what happened |
| Direct page `demo/direct`, `quotas.ts`, `dns/` | credentials, run, timers, terminal, account | connect, launch, poll, shell, reset | AWS with the user's keys | quiet once expired; what is shown is of this account and run |
| Dashboard, terminal `ui/*`, `cli/*`, `main.ts` | dialogs, orphans shown, the picker's query | buttons, commands, forms | call the client, by name | an operation reaches what it was meant for; what is typed is taken as meant |

### What is hard here

- **Awaits.** A launch in flight is in no list and no count, while other
  ticks, drains and lists go by. A tick acts, await after await, on the list
  it began with. `extend` reads, computes and writes in three steps.
- **Overlap.** `setInterval` does not wait for the tick before; the engine
  guards itself with a flag, the monitor does not. `enforceViability` and
  `pumpFanOuts` have several callers.
- **Order.** `refresh` assigns whichever list answers last; quotas, DNS
  lookups, instance searches and session openings are shown as they arrive;
  two digests of one session end in either order.
- **Swaps.** The backend, the credentials, the account or the run may change
  under a request that was made for the one before.
- **Partial failure.** A launch may fail after its instance exists, the
  terminate that is to clean up may fail too, one refused call ends a whole
  tick, and a bootstrap may die at any of its blocks.
- **Clocks.** Deadlines, idle clock and compute time through every mix of
  stops, starts and extensions, with a compute time that its tag rounds;
  identifiers cut from a clock; timers of a sleeping laptop.
- **Names and texts.** The cards address instances by a name that need not be
  unique; each door reads a bound in its own way; a value goes through a tag
  that another program reads.

`PROJECT.json` lists these hazards at their lines, with the properties that
cover them. Seven have none. An instance stopped before its deadline is not
looked at again, which is the first line of `evaluate` and so by design. In the
six others the code has the defect, so that a property would be false of it; the
note of each says what is checked beside it, and
[what the checks found](#what-the-checks-found) lists it.

## The modules

| Module | Models | Extends |
|---|---|---|
| `JobDag` | abstract: what a schedule of dependent jobs promises | |
| `FanOut` | the engine, against any list of instances and any launch outcome | |
| `SpawnFanOut` | the engine on the client, with a provider whose answers take time | `FanOut` |
| `JobArray` | arrays, with drains beside that engine; what a fan-out says of itself | `SpawnFanOut` |
| `Registry` | the client's fan-outs over two backends, their pumps, events and log | |
| `Members` | what an array, a sweep and a queue give the engine: ids, keys, names, tags | |
| `JobQueue`, `Sweep` | a queue's configuration and a sweep's specification, up to their members | |
| `Lifecycle` | the rules, as operators | |
| `Sim` | client and dashboard on the mock provider; the pane of cards | `Lifecycle` |
| `Monitor` | ticks, `extend`, the orphan banner and the user on EC2 | `Lifecycle` |
| `ExtendRace` | several `extend` at once | |
| `Console` | commands, cards, dialogs and the banner over a backend that is swapped; the instance picker of the launch form | |
| `Args`, `Durations`, `Entries` | a command line; a duration; the seven doors to a launch | |
| `Status` | `list`, `status`, `connect`, `extend` and their notices | |
| `TagBudget`, `TagContract` | how many tags, what they say | |
| `LaunchObject` | what leaves the tags: the config object, and the bootstrap that fetches it | |
| `Plugins` | plug-ins declared and detected | |
| `Ec2Launch` | a launch on EC2 from its bounds to its end | |
| `ShellChannel` | abstract: what a page relies on in a shell | |
| `SsmSession`, `Frames` | the session; the layout of its messages | |
| `Portal`, `PortalService` | the portal's page; its service behind both of its fronts | `ShellChannel` |
| `DirectPage`, `DirectAccount` | the direct page: run, shell, expiry; account, quotas, name | |
| `SignIn`, `GlobusTransfer` | sign-in and federation; transfers | |
| `MC*` | values of the constants for TLC, and the specifications of several parts in one run | |
| `FanOutProofs` | theorems about the engine, the client that runs it and the arrays wound down beside it, and their proofs | `MCWorlds`, `JobArray` |
| `SimProofs`, `SessionProofs`, `SweepProofs` | the same for the mock world, the session and sweeps | `Sim`, `SsmSession`, `Sweep` |
| `MonitorProofs`, `RemoteProofs`, `FrontProofs`, `PartsProofs` | the same for the parts of `monitor_scenarios`, `remote` and, in two, `front` | `MCMonitors`, `MCRemote`, `MCFront` (`FrontProofs` also `SweepProofs`) |

Definitions with a suffix (`Eligible_OverCap`) are variants that no
specification uses: each is what a plausible slip in the code would make of
the definition after it, and substituting it must violate a property.

### FanOut and JobDag

One fan-out, whose members are `1 .. N`, with `DependsOn`, `MaxAttempts` and
the options as constants: a sweep and an array have no dependencies, a queue
has any. `st`, `attempts` are the member's record. The state names are the
code's. `pump` is a sequence of segments between awaits, and so are the
actions:

| Action | Code |
|---|---|
| `Pump(live)` | `pump` (fanout.ts:337) from its entry to the first `await client.launch` or its return: members `running` whose instance is not in `live` are completed, gating is applied, the first eligible member goes to `launching`. `live` is the list `refresh` left; here it is any set. The guard is the flag that makes a second pump return at once |
| `LaunchSucceeded` | the rest of the iteration after the await (fanout.ts:386), then on to the next eligible member |
| `LaunchFailed` | the catch block (fanout.ts:390): back to `pending` while attempts are left, else failed, and gating again |
| `Tick` | time passes, between pumps and during a launch |

Times are kept as ages, `sinceLaunch`, `sinceAttempt` and `pumpAge`, that
saturate at the delay they are compared with: two states that differ only in
how long ago a delay ran out behave alike, and the state space is finite with no
bound on time. The code measures delays from the `nowMs` its pump was called
with (fanout.ts:87, 403), which `pumpAge` reproduces. `sinceBegin` is history:
the real time of the last launch call, which `LaunchSpacing` is about.

Gating is a loop in the code that repeats until nothing changes. Here `Skips`
is the least set of members closed under its rules, a definition that the
proofs can use; the theorem `SkipsAreClosed` shows it is one.

`JobDag` knows five statuses and three kinds of step: start a job whose
dependencies are done, end an active one, skip a waiting one that can no
longer succeed or that the stop policy or the threshold gave up.
`ImplementsDag` maps the engine to it by `DagStatus`: `launching` and `running`
are active.

### SpawnFanOut and JobArray

`SpawnFanOut` adds `world` (the instances a provider would list), `listed`
(`lastInstances`), `reads` (lists on their way, each with its content) and
`stage` (where the launch in flight is: creating, refreshing, retiring).
`client.launch` is thus three awaits: the instance is created, the list is
refreshed, and if that fails the instance is terminated
(`retireFailedLaunch`), which may fail too. Constants switch hostile
behaviour on: `FifoReads = FALSE` lets lists overtake one another,
`KeepOnError` are the members that keep an instance whose launch failed, and
`RetireMayFail` and `MayRestart` are what their names say.
`ImplementsEngine` says that every step is one of `FanOut`. `MCWorlds` puts an
orderly world beside a hostile one.

`JobArray` adds the drains. Each entry of `Drains` is one call of
`enforceViability` under way, at the same point of its loop as the code:
survivors are read at entry, each is claimed in `drained` before its
`terminate`, a refused terminate gives the claim back, and a terminate that
succeeded but whose refresh failed does too. `summary`, `missingIndexes` and
the card drawn from them are views of that state.

### Registry, Members, JobQueue and Sweep

`Registry` is around the engine: which fan-outs the client holds, under which
id, what backend each of their instances is on, which pumps of `pumpFanOuts`
are under way and over which entries, and what events and the dashboard's log
have said. A fan-out is reduced to how many of its members wait and are up.
`SwapBackend` is `setProvider` as main.ts calls it.

`Members` builds the three kinds of set at given moments (`generateSweepId`
and its kin with their moduli, scaled), and `StartSweep`, `StartQueue`,
`StartJobArray` are what the client hands on to the engine. `JobQueue` goes
from the raw configuration (`NormalizeQueueConfig`) over `validateQueue` to
Kahn's algorithm, one action a step of its loop; `Sweep` from the grid
shorthand over `expandGrid` and the merge to the launch of each member, with
objects as sequences of pairs, since the order of their keys decides which of two
spellings of a field is the last. `Assign` is every loop that sets keys one by
one: the merges, the seeds, the grid and `mapMember`.

### Lifecycle, Sim, Monitor and ExtendRace

`Lifecycle` has the rules of `core/lifecycle.ts` one by one. A cost limit at a
price is kept as `budget`, the compute time it buys.

`Sim` is the default backend. The mock's answers are promises already
resolved, so a tick or an operation runs to its end before a timer can fire:
one action is one of them, whole. Cards offer an operation only in some states
and pass the instance's name; API and terminal check nothing and may pass the
id (`Reaches`). `get` returns the first instance of a name (`Named`), and
`setTags` decodes the configuration again, which rounds the compute time to
the second (`Rounded`). `hist` is history: the time an instance really ran,
what its TTL and extensions allowed, how often a tick ended it. The pane of
cards is a view of it: meters, buttons, banner.

`Monitor` is the other backend, where every call takes time and may fail.
An action is a call being served together with what the client does from its
answer to its next await; a list is split into served and answered, because
its content ages on the way. `Slots` ticks may be under way at once, each with
the list it acts on (`snap`); `ext` are extend calls; `reap` is the banner,
from the question to the user until the last orphan is terminated. A call
that fails may or may not have been performed. What spored or the user do
elsewhere are actions of EC2's own. `ExtendRace` has three extensions at once,
before and after the deadline, with what each reports; of one that fails the tags
may be written all the same.

### Console, Args, Durations, Entries and Status

In `Console` a task is a command or a press of a button, from the gesture to its
last await: a command resolves the name against the backend it was typed on and
keeps that backend, a card acts by name on whatever backend is there when each
request is sent, and dialogs may be answered late. "Signal complete" on a
running card is a task with no dialog, which does what the instance's
`onComplete` says. `main.ts`'s picker of backends is `SetProvider`. The form's
instance picker (`PickerNext`) is the debounce of 200 ms and the sequence number
that drops overtaken answers.

`Args` is `parseArgs`, one action a token, and the readers of flags on top of
it (`DurFlag` is in `Entries`). `Durations` has both readers, segment by
segment, in quarters of a millisecond so that rounding shows, and the writer
through which a bound goes to its tag. `Entries` compares the terminal's
`launch`, `array`, `sweep`, `queue` with the three forms: the same classes of
text (absent, a lone flag, 0, good, large, negative, a slip) through each
door's reading, refusals and defaults up to the instances launched.

`Status` collects the lines that make a claim while the instance moves under
the command: deadline, completion, cost limit and idle timeout, DNS, the Elastic
IP, the version, and what `extend` says of the reload. An `extend` that fails may
have written its tags. The rules it is compared with are those of `Lifecycle`, by
`Decision`.

### Ec2Launch, TagBudget, TagContract, LaunchObject and Plugins

`Ec2Launch` follows one launch: refusals before any call (`EvaluateBounds`,
nested spawn, Spot, and the flaws only found later), identity, image,
`RunInstances`, the list, the retirement of what was launched in vain; then
the bootstrap (set-up, fetch from two places, check, body, the fatal path) and
what can still end the instance if spored does not run. A retirement that can
neither terminate nor shut down is abandoned (userdata.ts:186).

`TagBudget` counts: `BuildLaunchTags`, what moves to the config object, the
reserve for tags written later, and the writes of spored and the commands that
fail whole beyond the limit. `TagContract` writes options to tags and reads
them back through `toManaged`, with any few tags spoiled by other tools.
`LaunchObject` is Go's JSON: escapes, surrogates, HTML, order of fields; and
the order of the blocks of the script that fetches the object, each of which
may fail, and the script's size against EC2's limit before and after base64.
`Plugins` parses references and tags and says what `status` says.

### ShellChannel, SsmSession, Frames, Portal and DirectPage

`ShellChannel` is what the pages are written against: a channel that is
connecting, open, closing or closed and reports its end. `SsmSession`
implements it (`ImplementsChannel`): the request, the handshake with or
without its last message, acknowledgements, input that waits, and `digests`,
the frames whose `await serialize` has not returned, which may end in any
order. `Frames` is the byte layout in a small base, and frames cut short.

`Portal` extends `ShellChannel` with the page's one `active` session, its
requests and their answers in any order; `PortalService` is the handler of
each path, behind `server.ts` and behind `lambda.ts`, against an AWS that
refuses, answers in part or loses its answer. `DirectPage` has credentials
that age, the timers of their expiry, a launch, its poll and shells; a poll asks
in one step and shows its answer, as it was read, in another.
`DirectAccount` is the other half of that page: who is connected, the quotas
on their way, the name that spored registers and the lookup that confirms it.

### SignIn and GlobusTransfer

`SignIn` is one tab and its storage: click, redirect, the way back with a code
or a refusal, the exchange, the tokens in one answer or in sections, the
federation, a reload, and the callback of a login that was begun elsewhere
(`sessionStorage` is per tab). `GlobusTransfer` is submission with an
identifier drawn first, the watch with its limit, and the cancellation.

## The runs

Counts are of distinct states. Every run checks deadlock but `remote` and
`front`, whose parts come to an end: a launch is over, a command line is read.

| Run | States | Question |
|---|---|---|
| `fanout_engine` | 305 | cap, dependencies, gating, counts, viability, `JobDag` |
| `fanout_worlds` | 503,561 | an orderly world: what holds of the instances themselves, and every member settles; a hostile one: what runs beyond record and cap was let go of |
| `array_drain` | 45,140 | overlapping drains; a non-viable array is drained; spaced launches; what the card says |
| `sim_rules` | 250,420 | TTL, budget, extensions, order of the rules; one warning of the TTL in the life of an instance, meters that fit, a banner over empty ones |
| `monitor_scenarios` | 369,192 | only a race kills early; extensions that follow each other all count; an overdue instance ends |
| `remote` | 300,018 | the shell, the portal and its service, the direct page, an EC2 launch, a transfer, the sign-in, the frames |
| `front` | 751,219 | registry, members, console, picker, queues, sweeps, command lines, durations, doors, tags, config object, bootstrap, plug-ins, status, the direct page's account, extensions at once |

`remote` and `front` hold several parts that share no state in the model
because they share none in the code, or touch only through a call that each
models from its side. A behaviour exercises one of them, named by `part` or
`focus`, and the others rest in an initial state; a property of such a run is
the conjunction of what its parts promise, named in the `MC` module.

Instances, and why they are enough:

- `fanout_engine`: 5 jobs: a join (3 after 1 and 2), a chain (4 after 3) and a
  free job; cap 2 below the width of the graph, retries on a job with a
  dependent, threshold 3, the stop policy; no launch delay, so that one pump
  launches several. The same is proved for every instance.
- `fanout_worlds`, orderly: a chain and a free job, one retried after a backoff,
  2 lists of others on their way. Hostile: two free jobs, one of them kept by
  `keepOnError`, and a third after both: one list hides the other's instance,
  and a job that starts on a stale one exceeds the cap. What ends there stops
  (`OnlyStops`): it may start again, and one that never does is as good as
  terminated.
- `array_drain`: 3 members and a threshold of 3: one failure makes the array
  non-viable with one member up and one in flight; 2 drains, since a third
  claims no differently; a launch delay of 1.
- `sim_rules`: any caller, one instance of one of three kinds (all rules; cost
  and idle; TTL alone), clock steps of half a second and a second, 2
  extensions, 8 units of time: past the deadline of every kind extended twice
  by one. Instances do not affect one another but by name, so one is enough;
  the theorems are for any number.
- `monitor_scenarios`, one instance with TTL and idle timeout in the first two.
  Races: 2 overlapping ticks, an extend, the banner, the user. Extensions: a
  tick and 2 extend calls, which follow or overlap each other, before the
  deadline or after it (`Horizon` 4 has room for both, `LastMoment` 5 for what
  comes after them). Backstop: an idle stop due before the TTL of the next in
  the list.
- `remote`: 3 keystrokes and 1 output, so that input is typed before, during and
  after the flush; 2 sessions or shells, since what is overwritten is always the
  one before; one unanswered request of a card beside those of the shell; 2 sets
  of credentials; every combination of bounds, market and completion of a
  launch; 2 submissions of one file with 2 identifiers; 3 clicks on "sign in",
  so that one login replaces another and the callback of the first still comes;
  frames with numbers on both sides of a word (`Base` 4 stands for 256); 2
  requests to the service, because it keeps nothing. `PollIsQuick`: no instance
  moves while its own poll is being answered, since the page sees it only
  through the next poll, before which it may move. `OneLapses`: one of two
  sign-ins of the direct page is through Globus, whose credentials lapse.
  `OneIsWatched`: of two submissions one is watched and cancelled; watches share
  nothing.
- `front`: 2 fan-outs with overlapping pumps on 2 backends; a clock whose ids
  collide at `Period`; 2 instances of one name on different backends, one that
  stops on completion and one that exits, and 2 gestures (`stop` is not among
  them: it is looked up and called as `start` is, and signal complete stops),
  where those that run are overdue until they are extended; 3 jobs with every
  list of up to 2 dependencies (repeated, of itself, of nobody); 4 words of a
  command line; 2 segments of a duration, of every form; every class of text in
  every field at every door; tags of every group of options around the limit;
  names of up to 5 characters against labels of 3; texts of up to 3 units, so
  that a half of a surrogate pair stands alone, in order, and out of order; an
  instance of every state that `status` tells apart, overdue by either tag,
  overdue and pending, or with all the other bounds; 3 extensions, and a clock
  that passes the deadline (`LastTick` 2), where of two equal ones the first
  begins first (`BegunInTurn`).

Bounds, all of them constants, constraints or named guards: `MaxReads` (lists
on their way), `MaxInstances`, `MaxExtends` and `Horizon` in `Sim`, `Horizon`
and `Grace` for the clock in `Monitor`, where an extend that would pass
`Horizon` is not taken, and those marked "bound" in the declarations of the
other modules. What they exclude: a backend that is left and returned to
(`MaxSwaps` and `MaxHostSwaps` are 1; in the code a return with the mock makes
a new, empty one, and a return to EC2 finds the same account); a second run on
the direct page while the first is still being told about (one in
`DirectPage`; `DirectAccount` has two, one after the other). `FanOut` has none.

What the properties say, beyond their names:

- `NothingDoomedWaits`: between two segments no member waits that gating
  should have skipped. It is what makes a queue end.
- `ClientConsistent` (`LiveWithinCap`, `NothingRunsUntracked`): the cap bounds
  the instances, and every running one belongs to a member that the engine
  counts as launching or running.
- `ArrayIsSound` (`ReportedOnce`, `ClaimsDisjoint`, `DrainsOnlyNonViable`,
  `ReportedHasEnded`, `CardIsTrue`): overlapping drains report each survivor
  once and truly; an index called missing has no worker.
- `TtlBoundsRunning`: time run plus time left never exceeds what TTL and
  extensions allowed, but for the one step of each tick that ends the
  instance. Since a name can revive a terminated instance on the mock, there
  can be several.
- `OnlyBackstopsDestroy`: a tick terminates a running instance if *and only
  if* its deadline has come or its budget is spent. An idle rule that came
  first would leave it stopped, where no rule looks at it again.
- `TtlNotices` (`WarnedOnce`, `MeterFits`, `OrphanIsEmpty`): an instance gets
  one warning of its TTL in its life, whichever rules announce it and whatever is
  stopped, started and extended in between: of the deadline that a tick first
  finds near. That later deadlines are *not* announced is part of the
  statement. Meters stay within their whole, and the banner offers
  nothing that is not overdue.
- `RacesKillOnlyTheDue`: a termination by the client is of an instance overdue
  or out of budget when the call is served, or of one extended since the list
  was read.
- `RacesKeepExtensions`: extensions that follow one another all count in the
  deadline, whatever ticks, banner and user do meanwhile; those of an overdue
  instance and those whose answer was lost count too, and one that overlaps
  others takes only the place of those written since it read.
- `ExtensionsAddUp`: extensions that do not cross add up, from now where the
  instance is overdue, and of those that do one is kept. One whose answer was
  lost counts.
- `ExtrasWereLetGo`: in the hostile world, what runs beyond the record, and what
  runs beyond the cap with it, is an instance that was let go of for one of
  four reasons: kept by `keepOnError`, its termination refused, started again,
  or completed on a stale list.
- `RegistryIsSound`: a fan-out leaves the registry unreported only if another
  took its id; nothing without a bound runs on a real backend; a
  completion is logged once.
- `HandsAreSafe`: an operation hits what was meant when it was confirmed,
  destructive ones were confirmed, the picker's list is of its field. Its
  exceptions are the names two instances share, the swaps, and "signal
  complete", which ends an instance that ends on completion without a dialog.
- `TypedIsTaken`: a toggle never eats a word; both readers agree on a bound
  that both accept, and it survives its tag; a slip in a duration never
  launches; whatever the door, what bills has a bound or somebody said yes; a
  sweep has one member per point of its grid, each under a name of its own.
- `FanOutsAreWhole`: a queue is refused exactly if it has a cycle or a flaw,
  jobs come after what they depend on and peers stay in order; ids and groups
  are apart unless the clock has turned; a threshold can be met.
- `LaunchIsHandedOn`: no launch passes AWS's limit, now or when spored writes,
  and none is refused that need not be; what `list` decodes is what was asked
  for, or the defaults of what was spoiled; equal settings are equal bytes;
  spored finds its files.
- `StatusIsTruthful`: no rule that the next check may act on (`Decision`, with any
  signal and activity) is without its line in `status`; what the TTL is about to
  end is called past due, whichever tag says so, and what is called past due is
  that or a pending instance. The address of a stopped instance is never passed
  over, even when the look for it fails.
- `ShownIsTrue`: what is said of plug-ins is what was last written; the
  direct page's quotas, DNS line and "reaped" are of this account and this run,
  unless an answer was under way when one of them changed.
- `InputIsKept`: each number is used once, nothing typed is lost
  before the end, and only inputs that waited for the flush are overtaken, by
  those typed during it. An end is reported once, or twice if the agent
  announced it.
- `ShellsAreKept`: no page ends a shell in use, and the handle of an open one
  is lost only where two of the page's own steps crossed.
- `LaunchIsTruthful`: what is to be refused is refused before EC2 is asked; a
  launch that rejects tells whether an instance is left; no body runs but
  the released one; a Spot instance is never given what it cannot be stopped by.
- `PagesSettle`: the launch button comes back, each run comes to offer its
  reset, a shell that the page closed is ended in SSM unless the service could
  not, and an opening ends unless its connection failed. It says nothing of
  shells that crossed or of sessions whose answer was lost: these may stay live.
- `NothingBillsForEver`: past the trap an instance comes under spored or is
  retired, or abandoned by a retirement that failed; a TTL ends it in any case,
  another bound unless spored was never there, of which the launch has warned.
- `AnswersAreTrue`: each submission is one task or none, "succeeded" is said
  only of one that has; the portal answers 200 for something done and below 500
  otherwise for nothing, and what it launches has a TTL; a frame read is the
  frame written, or is refused.
- `SignInIsSafe`: only the login that was begun here is exchanged, once; a
  failed exchange can be repeated; a reload is clean; the transfer token is
  what was consented to.

## Fairness

- `fanout_worlds`: weak fairness of time, of the pump
  (`setInterval` fires for ever) and of every answer: a launch in flight is
  resolved or rejected. An instance that runs ends (its TTL or completion),
  weakly fair. No fairness makes a launch succeed.
- `array_drain` (`FairArraySpec`) adds that `enforceViability` is called again
  (each tick does) and strong fairness of an accepted terminate: a throttle is
  not for ever.
- `monitor_scenarios`: the timer fires, answers come; strong fairness of a
  list served and of each instance's action served, since a call that is made
  tick after tick fails only for a while. Where EC2 never accepts the call,
  `ActionServed` is never enabled and the assumption is void: that is
  `monitor_spot`.
- `remote`: weak fairness of answers (one way or another), of timers, of the
  socket's end once it is closing, of digests. `Ec2Launch` has it of the
  reaper, which acts only if there is a TTL, and of spored's end if it
  runs. Nobody's clicks are fair.
- `front`: weak fairness of pumps, of answers, of the debounce and of the
  timer; of the loops of a queue and a sweep.

`Sim` has no fairness: its properties are of safety.

## The proofs

Forty-four theorems are listed in `PROJECT.json`; a few more are the parts they are
put together from. Each is for every value of the constants that the `ASSUME`s
of its module allow, and each of the safety invariants among them was first
checked by TLC together with the inductive invariant that proves it.

| Module | Theorems, with the property of a run that each states |
|---|---|
| `FanOutProofs` | `EngineAlwaysConsistent`, `DependenciesAlwaysFirst`, `SkipsAlwaysJustified`, `NothingDoomedEverWaits`, `NonViableAlwaysLatches`, `LaunchesAlwaysSpaced`, `EngineImplementsDag`; `ClientImplementsEngine`; `ClientAlwaysConsistent` (`ClientConsistent`), `EndsAlwaysTrue` (`EndsAreTrue`); `ArrayAlwaysSound` (`ArrayIsSound`) |
| `SimProofs` | `TagsAlwaysConsistent`, `TtlAlwaysBounds`, `BudgetAlwaysBounds`, `BackstopsAlone`, `ExtensionsReachFuture`, `TtlAlwaysNoticed` (`TtlNotices`), `AlwaysWarnedOnce` |
| `SessionProofs` | `EveryInputIsKept` (`InputIsKept`), `SessionStepsAreChannelSteps` |
| `MonitorProofs` | `RacesAlwaysKillOnlyTheDue` (`RacesKillOnlyTheDue`), `RacesAlwaysKeepExtensions` (`RacesKeepExtensions`) |
| `RemoteProofs` | `FramesAlwaysFaithful`, `SignInAlwaysSafe` (`SignInIsSafe`), `LaunchAlwaysTruthful` (`LaunchIsTruthful`), `TransferAlwaysTruthful`, `ServiceAlwaysTruthful`, `AnswersAlwaysTrue` (`AnswersAreTrue`), `ShellsAlwaysKept` (`ShellsAreKept`) |
| `FrontProofs` | `RegistryAlwaysSound` (`RegistryIsSound`), `HandsAlwaysSafe` (`HandsAreSafe`), `CrossedAlwaysKeepsOne`, `ExtensionsAlwaysAddUp` (`ExtensionsAddUp`), `EntriesAlwaysHonoured`, `LineAlwaysReadAsTyped`, `DurationsAlwaysAgree`, `TypedAlwaysTaken` (`TypedIsTaken`) |
| `SweepProofs` | `SweepsAlwaysSound` |
| `PartsProofs` | `FanOutsAlwaysWhole` (`FanOutsAreWhole`), `StatusAlwaysTruthful` (`StatusIsTruthful`), `ShownAlwaysTrue` (`ShownIsTrue`), `TagsAlwaysFit`, `TagsAlwaysReadBack`, `BootAlwaysFindsItsFiles`, `LaunchAlwaysHandedOn` (`LaunchIsHandedOn`) |

### FanOutProofs

The engine: for every `N`, dependency relation (cyclic ones included), number of
attempts and option. Nothing is assumed of the environment: `Pump` takes any set
of live instances and a launch ends in any way.

The inductive invariant `IInv` is the conjunction of the properties with what
makes them inductive: a member launching is not doomed (else its success could
unlock a skip that came too late), members not started have attempts left, and
a member pending while a pump runs is one that may still start. The lemma
`SkipsAreClosed` shows that the least set of `Skips` is closed under its own
rules, from which one application of gating leaves nothing to gate: the
property the code's loop establishes by iterating.

The refinement is proved step by step: initial states map to the initial
state of `JobDag`, each action to one of its steps or a stutter.

The client: `ClientImplementsEngine`: every step of `SpawnFanOut` is a step of
`FanOut` or a stutter, for every provider behaviour its constants allow. So what
is proved above of an arbitrary environment holds under the client. The one step
that needs an argument is `Pump(listed)`: `FanOut` lets a pump be shown only
instances of running members, and a list with others in it reconciles to the
same states.

The theorems of the client itself have the hypothesis `Orderly`: lists answer in
the order of their calls, no instance of a failed launch is kept, its retirement
succeeds, and nothing that stopped starts again. The mock provider is orderly;
on EC2 each of the four can fail, and where one does the properties are false
(`fanout_stale_list` and `fanout_retry_leak` show two of the ways), so the
hypothesis says exactly when a user may rely on them.

`ClientConsistent` is not inductive: whether the engine tracks what runs depends
on the lists under way. `ClientInv` adds that every instance fits its member's
record (no attempt runs that the engine does not know of, and only the last),
that every live instance of a running member is in `lastInstances` and in each
list on its way (`RunningAreListed`: else the next pump would call it completed),
and that the list a launch waits for, and every later one, has its instance in
it (`LaunchListFits`: with FIFO answers no earlier one is left when it arrives).
The lemmas are stated of `ClientInv(callers)`, with the set of callers of
`refresh` as a parameter, so that the last theorem can use them with the drains as
callers.

`ArrayAlwaysSound`, in the same orderly world, for any set `Drains` of overlapping
calls of `enforceViability`; `DrainsAssumption` says that no call is called
"launch" or "other". The invariant adds to `ClientInv(Drains)` what each call is
at: its target is claimed in `drained`, is a survivor of the array, and of no
other call; one that is past its `terminate` has a target that ended; what is
reported is claimed for ever and was reported once; a call has at most one list
on its way, and only while it waits for it. The key is `HeldStays`: a member that
runs or completed is never launched again, so that its instance, once a target,
stays its last. The properties of the card follow from `ArrayInv` by counting
(`CountsHold`, `CardHolds`).

### SimProofs

For every set of launch requests, names, extensions, steps, and every order of
operations by any caller. Assumptions: requests hold natural numbers, steps are
at most `MaxStep`, extensions are positive, a second is positive.

The invariant says of each instance (`InstanceOK`) that its tags agree, that
its TTL bounds its time, that its compute time falls behind the time it really
ran by half a second an extension at most (`ComputeOK`: the bound of the budget
is not inductive without it, because the tick compares compute time and the
property is about time run), and that its budget bounds it. One lemma for each
kind of change to one instance (`StateKept`, `StartKept`, `ExtendKept`,
`RestingKept`, `RunningKept`), and two that lift them to the fleet.
`RunningKept` is the heart: a tick overshoots a bound only in the step that
ends the instance.

`TtlAlwaysNoticed` adds `WarnInv`: an instance is in `warned` exactly if it was told
of its deadline or had been told of one before it (`Told`), and never both. What
the meters and the banner show follows from `IInv`.

### SessionProofs

For any number of keystrokes and outputs, any order in which digests end and
any end of the socket. The invariant orders three things: the line of what
waits (`LineOK`: increasing, and all of it typed before anything that did not
wait), the frames made (`FramesOK`: an input has one frame, and one numbered
after a later one is one that waited, overtaken by one that did not), and their
count (`WholeOK`: as many data frames as `seq`, with all the numbers below it,
hence each once). `Asked` and `Handled` tie the agent's
state to the handshake, without which the response could take a number twice.

`SessionStepsAreChannelSteps` is the safety half of `ImplementsChannel`: initial
states map to initial states and steps to steps of `ShellChannel` or stutters.

### MonitorProofs

For any instances (`MonitorConstants` gives the types of what they were launched
with), any number of ticks and extensions under way at once, any durations,
and any set of one-time Spot instances. It extends `MCMonitors`, so that the
theorems are about the run's specification `MonitorsSpec`.

`MonitorInv` says what a list that is some steps old can still be trusted for.
An instance's launch, budget and compute never change, and its deadline only
when an extension writes it; so for all but the instances in `moved` a list has the
deadline of the fleet (`Current`), and what was decided on it was due by it
(`Decided`). The clock only goes on, and what is due on a deadline stays due
until the deadline moves: the call is of an instance that is due, or in `moved`.
Without `moved` that is false: see "What the checks found", under clocks and
extensions.

`RacesAlwaysKeepExtensions` needs no hypothesis, since its property says what
overlapping extensions do. `GrantInv`: the tags that an `extend` is about to write
reach the first deadline, what counted when it read (`base`) and its own
duration; what others write in between loses its place in `granted` when it is
written itself.

### RemoteProofs

It extends `MCRemote`, so that its theorems are about the run's specification
`RemoteSpec`, with the parts that rest; each is proved of its own part first.

- Frames: for every number base, message whose fields fit theirs, and cut. The
  digits of a number give it back (`U32Survives`, `ReadsU64`); the writes of
  `serialize` lie one after the other, but for the type, which lies over its
  padding, so the last write at a byte is the field's (`LastWriteStands`); a cut
  frame has the same bytes as far as it goes (`FieldArrives`); so each field is
  read as it was written (`ReadIsMessage`). `FrameConstants` says that a base is
  at least 2, and how long each field is.
- `SignInInv`: an exchange under way is of a login this tab began, with its code
  in hand; a login that was begun is the one stored, or another came after it,
  or its code is spent.
- `LaunchInv`: there is no instance before `RunInstances` is answered, and a
  request that is to be refused never gets that far.
- `TransferInv`: Globus has a task for exactly the submissions it has seen, and
  an end that was observed is the task's.
- `ServiceInv`: nothing is done for a request before a role is assumed for it,
  and none is assumed but for a request of the API.
- `PortalInv`: requests fit the state of the shell they are for (`RequestFits`),
  and no two are for the same session (`Alone`). Without it an answer could
  come for a shell that another had ended. `PortalBound` says that `None` is no
  session.
- `DirectInv`: what stands of credentials, runs and handles; unless an opening was
  overtaken one shell at most is being set up, and none beside an open one
  (`OneShell`). `DirectBounds` says that sessions are positive numbers.

### SweepProofs

What a model computes by going through data is a recursive function in it. That
such a function has a value for every input is shown once, in `RecursionExists`,
from the least number at which it would not; what holds of its values follows
step by step by `Stepwise`, over a set and not an operator.

The invariant is `SweepInv`. The keys that are left are those behind some place
of the sorted ones, and the combinations are all of the keys up to it, each at
the index that the products of the sizes give it (`ComboIs`, `ComboGrows`,
`FlattenIs`). Assignments one after the other leave of each field the last value
that hit it (`AssignIs`); a member's own keys stand behind those of the defaults
(`ResolvedIs`), hence `OwnWins`. Assumed: no key is twice in an object, fallback
names are all different, and a flag's key is the one spelling of its field and
never the name, as for the six keys that the command seeds.

### FrontProofs

It extends `MCFront`, and is about six of its parts: what a user does and
types.

- Registry: `RegistryInv`, six named parts. An id that was derived stands, and a
  fan-out that is complete stays so; hence what is registered, what a pump goes
  through (`PumpsOK`), what is shown (`ShownOK`) and what is logged (`LoggedOK`)
  keep to the id and the completion they had. `LostOnlyBySharedId` alone is not
  inductive: a pump may remove what it holds in its own list of entries, long
  after the registry has changed.
- Hands: `TaskOK` says, of each command or button between two awaits, what its
  record can still be trusted for: the name resolved and the backend it was
  resolved on, the confirmation given for it, whether a swap or another
  instance of the name came in between. `PickerInv`: of the answers on their way
  only that to the latest lookup would be shown, and it was begun for what
  stands in the field.
- Extensions: `ExtendInv`; what an `extend` computed is at least the first TTL
  and its own, so whichever of those that cross is written last is kept whole,
  for any number of them. `AddInv`: while none have crossed, the deadline is the
  first TTL and what was counted, each once, with the time that had passed the
  deadline when it read (`lapsed`, `Added`). `Sums` says what a sum over a set
  is without an order of adding; `SumIsFold`, that the fold is it.
- Doors: `EntriesInv`. A bound is kept between two steps only as the input that
  waits for its confirmation (`AskedInv`) or for its members (`MembersInv`): both
  are as the door read them from the texts, and a slip that the door did not
  refuse is one the client will. `OneMoreRun` says when one more launch leaves
  the launches honoured. Assumed: nothing but `--count` is below zero.
- Command lines: `ArgsInv`. What was read is what stands before the place the
  reader is at: each list has the texts of its places in order (`ListsTexts`), a
  flag's value is its last (`FlagTo`), and no place that is still to be read is
  hidden by a `--` or is the value of a flag (`Free`). For lines of any length.
- Durations: `DurInv`. The two readers go through one text at their own paces;
  there is one sum of its first segments, and each reader has added up as much of
  it as it has read (`SumOf`). What is written is the same moment to the nearest
  millisecond, and reads back (`WrittenIsReadBack`).

`TypedAlwaysTaken` puts the last three and the sweeps of `SweepProofs` together
for `FrontSpec`: the part in focus keeps its invariant, and a part at rest has
launched nothing.

### PartsProofs

It extends `MCFront`, and is about nine more of its parts.

- Queues: for every configuration. The order so far and the line of ready jobs
  are one line, `order \o ready`, in which no job stands twice; a job stands in
  it exactly when all it waits for was taken, and its degree is the number of
  those that were not (`Sorted`). When the line is spent, a job that is not in
  it waits for another that is not: what is refused as circular has a cycle.
  Jobs of the same dependencies stay in the order they were declared in, because
  the seed is in that order and each job that is taken frees its dependents in
  it.
- Members: for any wishes and moments. Fan-outs are built one
  after another on a clock that does not go back (`BuiltInTurn`). An id is the
  rest of the clock after whole turns of it, so two that agree are of one tick or
  a turn apart (`OneQuotient`); what one fan-out gives its members (`WholeGroup`)
  needs no invariant.
- Status: `StatusInv` is about types alone. `StatusIsTruthful` is about the step
  that answers: `DueWhen` and `DueByTtl` say which rules `Decision` may give of
  the instance that was read, and each is followed to its line of the notice.
- Plug-ins: `PluginInv`. The places that are accepted, in turn, are all of
  them when none is rejected (`AllInTurn`), so what is declared is what was
  asked. The parse of a tag is a recursive function of its parts: that it has
  a value for every number of parts is shown by the least number for which it
  would not (`ParseExists`), and what is read so far of each field
  (`ReadSoFar`) goes on with the next part (`ReadFurther`).
- Account: `AccountInv`. A lookup asks for the name of its run and a record is
  of the slug of its run's name (`RunsInv`); what did not overlap is of the
  account and of the run on the page (`OverlapInv`). Without that, an answer
  says nothing of whose it is.
- Tags that fit: `BudgetInv`. What spored writes later was counted before the
  launch (`ReserveStands`), a launch without a name counts no more than one
  with it (`StandInCountsMore`), and a sweep's parameters are cut to what is left
  (`CarriedIs`). The sets of tags are finite and apart, so that their sizes add
  up (`CountIsNat`), for any limit.
- Tags read back: `ContractInv`. What nobody spoiled is in the store as it was
  sent, what was spoiled is gone or unreadable (`KeptTags`); the merge of the
  five decoders is one field per tag (`ToManagedIs`), and a field that depends on
  another tag was spoiled with it or not at all (`ListReads`). Assumed: a flag
  is set or not.
- The boot: `BootInv`. What was written are the blocks before the one that runs;
  the guard is the third of them, the body the last and the files stand between
  (`ScriptIs`). Base64 counts back to the bytes it was made of (`SizeIsKept`), so
  what is refused here is what EC2 would refuse. Assumed: `MaxBytes` bytes
  encoded are within `MaxEncoded`, as 16384 and 25600 are.
- Labels: `LabelInv`. The label under which an instance is registered is the slug
  of the name it was asked for with, spoiled or not; a slug is a DNS label or
  empty and its own slug (`LabelValid`). Names are of any length.
- The config object: `ObjectInv`. What is encoded is the settings that are set,
  the last of each key, in the one order of the fields (`Clean`, `KeepIs`); unit by
  unit an encoded text reads as it was, a lone surrogate replaced
  (`UnitReadBack`). Assumed: no text holds what an escape stands for in the model.

`LaunchAlwaysHandedOn` puts tags, contract, label, object and boot together for
`FrontSpec`, as `TypedAlwaysTaken` does.

The assumptions are the types of the constants, that a day is a whole number
of seconds, that no account is called `NoAccount` and that the plug-ins that may
be declared are not among those refused for a reason of their own, as in the
three lists of `plugins.ts`.

### Only model-checked

- Liveness: `EveryMemberSettles`, `NonViableIsDrained`, `OverdueOnesEnd`,
  `PagesSettle`, `NothingBillsForEver`, `EveryRequestIsAnswered`,
  `FrontSettles`, and the fairness half of `ImplementsChannel`. They are out of
  the prover's reach, as is anything about ENABLED.
- `ExtrasWereLetGo`, about the hostile world. With these, every other safety
  invariant that a passing run checks is a theorem.

## What the checks found

Each of these runs checks one property that a comment or document states, and
TLC shows how the code departs from it. `PROJECT.json` quotes the lines.

| Run | Property | What happens |
|---|---|---|
| `fanout_retry_leak` | `LeaksAreShown` | the error naming an instance that still bills is dropped when the launch is retried |
| `fanout_stale_list` | `CompletedMeansEnded` | a list that answers late makes a running member `completed` |
| `sim_samename` | `TerminatedIsFinal` | a card's button reaches the first instance of the name and revives it |
| `sim_rearm` | `IdleRearmsOnStart` | the idle clock is not re-armed by a start |
| `monitor_spot` | `OverdueOnesEnd` | one Spot instance that cannot be stopped keeps every later one from being looked at |

What else came up while modelling, without a run of its own. Where a property
would fail, its exception names the case (`SharesId`, `overlapped`, `mixed`,
`moved`, ...) and says no more than the case needs.

Clocks and extensions:

- Two extensions at once add up to one: `extend` reads the deadline, awaits,
  and writes the sum (`ExtendRace`, `CrossedKeepsOne`).
- An instance extended while the banner asks for confirmation is reaped all
  the same: `RacesKillOnlyTheDue` needs its exception for `reap.moved`.
- An instance that was warned of its TTL is never warned again: the deadline that
  a later extension sets ends it without a word in the log, because `warned` is
  never reset (client.ts:234-236; docs/lifecycle.md:26: "once, when ≤ 5 minutes
  remain"). `WarnedOnce` says exactly this.
- An `extend` whose answer was lost has counted, though its caller was told that it
  failed (client.ts:540); repeated, it counts twice. An overdue instance is
  extended too, from now (lifecycle.ts:104-106).
- `extend` prints "reload requested" when the request was accepted, not when spored
  has reloaded, and then says nothing of the old deadline, on which
  spored may still act (commands.ts:526-529, ec2.ts:424).
- `status` calls a pending instance past due that the next check leaves alone
  (notices.ts:89, 104; lifecycle.ts:127). One that is about to end on its cost
  limit is not called past due; it has its cost and limit lines.
- An instance stopped before its deadline is not looked at again until it is
  started: its volumes bill past the deadline, and `status` shows it as due.
- On EC2 `lastActivityMs` is the launch time (ec2.ts:483), so a busy instance
  is stopped as idle when its timeout has passed since launch.

Fan-outs:

- `maxConcurrent` counts members, not instances: those let go of (kept by
  `keepOnError`, client.ts:478; termination refused; completed on a stale
  list; started again) are beyond it, and `ExtrasWereLetGo` shows that no others
  are. A lost answer of `RunInstances` leaves one more, in `Ec2Launch` only.
- A queue's id has a resolution of a second and a sweep's repeats every 16 min
  40 s. Ids are the registry's keys: of two sets of one name and one id the
  later replaces the earlier, which is not pumped any more.
- A fan-out's members are launched on the backend of the moment, after a swap
  on another than those before, and the latter look ended.

Doors and texts:

- A lone `--ttl` reads as absent; `--cost-limit` or `--max-concurrent` with no
  number are 0, which is no limit. `on-complete` is decoded without a check.
- "Signal complete" terminates an instance with `onComplete` "terminate" or
  "exit" at once, with no dialog, unlike "terminate"; it acts by name, so that
  of two instances of one name the other's policy may be applied
  (dashboard.ts:607, client.ts:572-584).
- A double click on the launch form launches twice (dashboard.ts:245).
- With the mock selected, Apply in the backend's dialog makes a new, empty one
  and drops the world there was.
- Settings of a real launch that move to the config object are unset in later
  lists (ec2.ts:258); the digest is never verified on read by spawn-ts.
- A card's TTL meter needs both tags; it is absent with a deadline alone.

Pages:

- Reset on the direct page enables the launch button though the page is
  expired (main.ts:461), which says "disabled until you sign in again"
  (main.ts:245); the launch then fails.
- The panel of quotas and the DNS line show answers that belong to the account
  or run before. The page resolves the name as typed (main.ts:520), spored
  registers the slug of it (tags.ts:205): a name with a space is never
  confirmed. Connecting another account during a run makes the page call an
  instance reaped that runs.
- Of two shells opened at once in the portal the first cannot be closed from
  the page; a terminal of the direct page may be assigned after a reset. A
  session whose opening was not answered is not known to the page. In all three
  nothing but SSM's own timeout ends the session.
- A connection that fails neither resolves nor rejects `open` (session.ts:80),
  and the portal's button stays on "Opening" (portal.js:74-85).
- What is typed while the flush awaits a digest is numbered before the inputs
  that still wait, and the agent gets it first (session.ts:182-192). An end that the
  agent announces is reported twice (session.ts:81, 103-104).
- A transfer submitted again after a lost answer moves the data twice: each call
  draws a fresh identifier, and none can be passed (globus.ts:228, 262).
- `lambda.ts` parses a body outside its `try` and answers 502 where
  `server.ts` takes it for `{}` and launches with the default TTL.
- Shell output is decoded message by message: a character cut in two by a
  frame's end is lost. A message's payload digest is not verified on read.

## Not modelled

- `demo/portal/public/portal-terminal.js`, 9,461 lines: the bundle built from
  `portal-terminal.ts` (modelled in `Portal`) and vendored xterm.js. It is
  nearly half of the repository's lines.
- Rendering and layout, help texts, the tables `list` prints, wording of
  events, reasons and refusals, type declarations, the shell text of the user
  data, prices.
- Conversions that no property tells apart: JSON's own syntax, `parseScalar`
  (a number and its text), the base-36 of an account (taken for one to one),
  SHA-256 and PKCE (equality of what was hashed).
- `runCommand`, console output, the listing of Globus endpoints and
  directories: single calls that hand on an answer.
- In `Monitor` the fan-outs pumped at a tick's end are `SpawnFanOut`'s, and a
  second client on the same account appears only as the user's calls. Of EC2,
  STS, S3, Globus, DNS, the SSM agent and spored only what the code relies on
  is modelled, and marked external.

## The plan

1. done: `FanOut`, `JobDag`, `SpawnFanOut`, `JobArray`; `FanOutProofs`.
2. done: `Lifecycle`, `Sim`, `Monitor`; `SimProofs`.
3. done: the remaining components, in `front` and `remote`.
4. done: proofs for the client and its two worlds, job arrays, the session and
   its frames, the monitor, and the state machines of `remote` and `front`;
   queues and members, the status, the plug-ins and the direct page's account.
5. done: proofs of what the readers, the sweep, the slug and the encoder compute;
   `TypedIsTaken`, `LaunchIsHandedOn`, `ExtensionsAddUp`.
6. Compositions: the engine over two backends (`Registry` on `FanOut`), the
   direct page on `SsmSession` rather than on `ShellChannel`.
