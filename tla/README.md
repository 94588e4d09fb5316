# Sparktop in TLA+

Sparktop watches a small cluster of DGX Spark machines over SSH and serves a
dashboard.  This directory holds TLA+ models of the parts of it that keep state
and react to events in an order nobody controls, the TLC runs that check the
models on small instances, and TLAPS proofs about them for every instance.

Everything is translated from the TypeScript under `src/packages/`.  Line numbers
in the modules and in `PROJECT.json` refer to those files.

## The system

| part | source | state | operations | talks to |
|---|---|---|---|---|
| Node collector | `core/src/node.ts` | status, ssh2 client, three timers, two in-flight flags, last slow-tier result, rate windows | `start`, `stop`, `update`, `withClient`, ssh2 `ready`/`error`/`close`, two polling tiers | emits `snapshot` to the monitor; lends its connection to control operations |
| Cluster monitor | `core/src/cluster.ts:55-167` | map of collectors, latest snapshot per node, emit timer | `addNode`, `removeNode`, coalesced emit | server |
| Cluster analysis | `core/src/cluster.ts:190-646` | links once confirmed, warnings raised | `buildClusterSnapshot` | monitor |
| Chart history | `core/src/history.ts` | one timeline, a ring per series | `record`, `payload`, `prune` | server |
| Durable history | `core/src/store.ts` | SQLite tables `runs`, `samples`; two throttles in memory | `record`, `prune`, `runs`, `samples`, `summary` | server |
| Node registry | `core/src/config.ts`, `server/src/index.ts:207-211, 368-384, 498-540` | node list in memory and in a JSON file | POST, PATCH, DELETE, load, save | monitor, history |
| Server | `server/src/index.ts` | last snapshot, sockets, metrics and update caches, fault log | snapshot handler, websocket, HTTP | all of the above |
| Container control | `core/src/control.ts` | none (the node's Docker has) | stop/start/restart, plan and apply an image swap | a collector's connection |
| Update checks | `core/src/updates.ts`, `server/src/index.ts:594-634` | an answer cached for an hour | ask GitHub, ask each node for its images, answer | the collectors' connections |
| Connection test | `core/src/probeConnection.ts` | one session, one timer | test a node before it is saved | the node |
| Probe scripts and parsers | `core/src/probe.ts`, `parse.ts`, `inference.ts`, `variants.ts` | none | what a node prints, and what is read of it | collector |
| Exposition | `core/src/prometheus.ts` | the body of the last scrape | `renderPrometheus` | server |
| Web client | `web/src/lib/useCluster.ts` | latest snapshot, merged history | reconnect, messages | server |
| Web views | `web/src/components` | the control panel's dialog and requests, the draft of a node | preview, confirm; edit, test, save | server |
| Terminal | `tui/src` | view, selection, pause, size, what is drawn | keys, resizing, drawing | monitor |

The program is one JavaScript thread (plus the browser's), so its concurrency is
that of callbacks: between the `await` of one handler and its continuation, and
between a timer's setting and its firing, any other handler may run.  What is hard,
in the order of the models:

1. *The collector.*  ssh2 events, two polling tiers sharing one connection, exec
   answers that arrive after the connection or the collector is gone, a reconnect
   timer that is the only way back, timers that can be overwritten.
   Correct means: one connection, never none for good, nothing left after `stop()`,
   polls that go on for as long as the connection does.
2. *The durable history.*  `record()` is a sequence of SQL statements, any of
   which can be the last one; engines restart, clocks jump.  Correct means: one
   open session per engine and model, sessions neither split nor merged, token
   counts that were really generated, retention in both directions.
3. *The chart history.*  Series are created late, retired and pruned, while their
   rings must stay aligned with one shared timeline.
4. *The registry and the monitor.*  PATCH and DELETE read, await and write; saves race;
   a replaced collector still emits.  Correct means: one running collector for every enabled
   node, an answered change that stays in memory and file, broadcasts that miss nothing.
5. *The analysis.*  State is carried from one build to the next: links once confirmed, warnings
   once raised.  Correct means: confirmed exactly when the counters agreed, no link invented on
   a shared segment, no warning that flaps.
6. *The feed.*  Messages are lost with their connection, the server restarts, the backlog
   overlaps what the page holds.  Correct means: no tick that was never sent, none missing.
7. *Discovery.*  Ports and identities are read by one script at different moments, by
   polls that fail or are cut.  Correct means: what answers is found, and kept.
8. *Control.*  A command outlives the request that sent it.  Correct means: the running
   container is taken down only for an image that is there, and success is not claimed falsely.
9. *Rates.*  Counters reset, change their source, miss from a scrape; clocks are set back.  Correct
   means: nothing is reported that was not there, and nothing is counted twice.
10. *Probes.*  A script prints text that may end anywhere, on nodes that lack things; a parser reads
   it by names and positions.  Correct means: both agree on every section, and what is cut is missing.
11. *Sums and scrapes.*  One server is reached through several nodes, polled at different times.
   Correct means: what is summed or exported is what the nodes said, once.
12. *Checks and tests.*  Requests overlap at every await, and several events want to answer one
   of them.  Correct means: one answer, not older than it claims.
13. *Screens.*  Answers arrive for what is no longer on the screen, and lists change under a
   selection.  Correct means: current on the screen, shown before it is confirmed, tested before it is saved.

`PROJECT.json` lists every component with its status and every hazard at its line.

## Modules

| module | models | proved in |
|---|---|---|
| `NodeCollector` | class `NodeCollector`: connection, reconnect, polling | `NodeCollectorProofs` |
| `SampleRing` | class `Ring`, as operators on ring values | (used by the next) |
| `HistoryLog` | what the chart history promises: a log of ticks | |
| `HistoryStore` | class `HistoryStore`; implements `HistoryLog` | `HistoryStoreProofs` |
| `RunStore` | class `HistoryDb`, statement by statement | `RunStoreProofs` |
| `ClusterMonitor` | class `ClusterMonitor`, over collectors that emit anything | `NodeRegistryProofs` |
| `NodeRegistry` | the registry's handlers, its file; extends `ClusterMonitor` | `NodeRegistryProofs` |
| `Analysis` | `buildClusterSnapshot`: links and warnings | `ServerProofs` |
| `ClusterSummary` | `buildClusterSnapshot`: sums and distributed jobs | `ServerProofs` (jobs) |
| `Exposition` | `renderPrometheus` and the cache of its body | |
| `ClientFeed` | server end and browser end of the websocket; uses `HistoryLog` | `ServerProofs` |
| `Discovery` | what the slow poll asks and keeps of servers | `PollsProofs` |
| `ContainerUse` | what both polls keep of containers and GPU memory | `PollsProofs` |
| `FabricRates` | traffic and faults of a port and its interface | `PollsProofs` |
| `InferenceRates` | windows, rates and latency bases of `buildInference` | `PollsProofs` |
| `EngineReadings` | what a scrape of each engine is read as, and the shares made of two | |
| `ProbeScripts` | both probe scripts, as the lines they print | |
| `Parsers`, `Variants` | the parsers of those lines, and the maker told from the firmware | |
| `ProbeOutput` | a poll whose output arrives line by line; composes the four above | |
| `ContainerControl` | control operations and the node's Docker | `ControlProofs` |
| `UpdateChecks` | checks for updates and their cache | `ServerProofs` |
| `ConnectionTest` | the test of a connection | `ControlProofs` |
| `Terminal` | the terminal dashboard: keys and frames | `TerminalProofs` |
| `ControlPanel`, `SetupForm` | the two web components with requests of their own | `ControlProofs` |
| `Polls` | the four parts of a poll side by side, for any constants | `PollsProofs` |
| `Server` | the ten parts of the server and its pages side by side, for any constants | `ControlProofs`, `ServerProofs`, `TerminalProofs` |
| `MCPolls`, `MCServer` | their instances for TLC | |
| `MCReadings` | scripts and engines side by side, for one run | |
| other `MC...` | model values and constant definitions for TLC | |

A definition whose comment begins with "Mutant:" is a plausible bug in the
definition that follows it.  No specification uses it; substituting it for the
original must break the property that `PROJECT.json` names, which shows that the
property looks at that code.

### NodeCollector

A step is one turn of the event loop.  `status`, `error`, `stopped`, `client` are
the fields of that name.  `conns` is the state of every ssh2 client object, also
those that no field names any more; `auths` counts calls of `connect()` suspended
in `await this.buildAuth()`; `held[t]` says that the timer in `fastTimer` or
`slowTimer` is pending and `orphans[t]` counts pending timers whose field has been
overwritten; `poll[t]` is the in-flight flag with what the exec runs on; `shown`
is the status of the last snapshot emitted.  `attempt` saturates at `MaxBackoff`, as
the delay does; its value influences nothing else.

The actions are the handlers: `Stop`, `UpdateAndReconnect`, `UpdateInPlace`, the
two continuations of `connect()` (`AuthFails`, `OpenConnection`/`ConnectThrows`),
`Ready`, `ConnError`, `Close`, `ReconnectFires`, `TimerFires`, `OrphanFires`,
`PollSucceeds`, `PollFails`.  The part of `pollFast` before its await is inside the
action that calls it (`PollAfter`); the part after it, with the `finally`, is
`PollSucceeds`/`PollFails`.

The ssh2 library is external.  The model lets it report `ready` once per connection,
`error` at any time before `close`, and `close` with or without `error`; a stream that closes
because its connection did resolves the exec as the code has it (node.ts:388), so
`PollSucceeds` is possible after the connection or the collector is gone.

### SampleRing, HistoryLog, HistoryStore

`HistoryLog` is the promise in the header of history.ts: the last `Capacity` ticks,
each with the reading of every series, NaN where there was none.  `HistoryStore`
is the code: one timeline `ts`, rings with head, length and a count of trailing
blanks, back-fill of a late series, retirement of a blank one, `prune`.
`LogView` reads a log out of the rings with `toArray`, and `ImplementsLog` says that every
step of the store is a step of the log under that mapping: a record appends one tick and
changes no other, a prune blanks the pruned series and moves nothing, and retiring
a series changes nothing that can be seen.  Readings other than NaN are opaque; the timestamps
are arbitrary, since the code never compares them.

### RunStore

A step is one SQL statement.  `op` is the call of `record()` in progress: the keys
(endpoint and model) still to be updated, the stale rows still to be closed, the
phase.  `Fail` is a statement that throws, which the snapshot handler
(server/src/index.ts:150-156) survives; it moves the throttle the statement
had already moved.  `Restart` is the death of the process between two statements.
The columns of `runs` that only describe the endpoint are left out; `w0` and `w1`
are not columns but the tokens the endpoint had really generated, against which the reported
figure is judged.  `at` in a sample is likewise the real time of its writing.
Real time and the host's clock are separate (`real`, `skew`); `mishaps` remembers whether
the clock has jumped or a statement has failed, for the properties that allow for it.
Prompt tokens and request counts go the way of the generated tokens and are not
modelled a second time.

### ClusterMonitor and NodeRegistry

`ClusterMonitor` is the class of that name.  A collector appears only by what it can emit:
`running[i]` counts those that were started and not stopped, `retired[i]` those that were
stopped and have a callback to come, and either may emit any status at any time, which is
more than `NodeCollector` does.  `latest` and `last` keep of a snapshot whether the node answered.
`timer` is the emit timer; how long it waits is left to it.

`NodeRegistry` composes the monitor with the three handlers that change the list.  A handler is cut
at its awaits: `PatchBegins` reads the node and waits for the body, `PatchApplies` merges, adds and
starts the save, `Rename` is the moment the file changes, `Answer` the rest.  A save captures the list
when it begins (`BeginSave`) and may be renamed after a later one.  `Restart` is a crash at any
moment and the start from the file and the environment.  `answered` remembers the outcome that a
request promised, unless another one overlapped it in the ways `AnswerHolds` lists.
Labels, dates and the order of the list are left out, as is a patch that blanks a field.

### Analysis

One action, `Build`: `buildClusterSnapshot` on an arbitrary list and arbitrary newest
snapshots of its nodes.  The two sets that survive from build to build are `everConfirmed` and
`activeWarnings`.  Readings are on one side of their two thresholds or between them; traffic is a
few MB/s around the tolerance and the floor of `agrees`.  `agreed` is not in the code: it is
the history against which confirmation is judged.  Severities and texts are left out.

### ClientFeed

The server end is the snapshot handler and `websocket.open`, over the abstract `HistoryLog` (which
`HistoryStore` implements, so that the feed need not know of rings); the browser end is
`useCluster.ts` with `appendSample`.  `chan` is what is on its way; `Close` loses it.  `sent` is
every tick ever broadcast, `fresh` the number since the page connected.  The config message,
which carries no state that the history depends on, is left out.

### Discovery

What the slow poll of `NodeCollector` carries: `BeginPoll` decides whether servers are to be
identified, `ProbeLists` and `ProbeIdentifies` are the two sections of the script at the moments
they look at the node, and `PollCompletes`, `PollCut` and `PollFails` are the ways a poll ends.  A
cut poll is one whose stream closed early, which `exec` (node.ts:388) does not tell
from a whole one.  `calm` counts the whole polls since servers last changed.

### ContainerControl

The requests of `server/src/index.ts:395-462` with the functions of `control.ts` they call.
`remote` holds the commands that run on the node; a request waits for one of them, and after `CutOff`
(its timer, or its connection) the command goes on with nobody waiting.  Docker is external: a
command may fail; a restart and a recreate take the container down first; a recreate uses whatever
the override file says by then.  Validation of names and dry runs change nothing
and are left out, as are the compose files of a project.

### InferenceRates

One port of `buildInference`.  `Poll` is one fast poll: what the engine did since the last, the
time the node's clock shows, and what the scrape of the port brought: counters, an answer without them,
no answer, or no scrape at all.  One counter stands for all: each is treated alike, tokens by
`Rate` and completed requests by `IntervalMean`.  `work` in an entry is not in the code: it is what
the engine really generated, against which a rate is judged.  A rate is kept as its
numerator; the division and the rounding are left out.

### FabricRates and ContainerUse

`FabricRates` is one port and its interface.  `life` is what happened since ever, `port` since the driver was
loaded: words by RDMA, by TCP and to many at once, and faults.  The five counters each count something else of it
(`Counts`): the NIC's one of RDMA and one of the rest, which go with the carrier, the port's own of everything, in
words, the kernel's, and the errors.  A poll may be cut before, within or after each reading; a
reading says of which counter it is, which the code does not remember, and what that counter would tell had it
never been reset.  Where a counter is not there the code takes the next, and in the end 0 (node.ts:1025, 1028), so
that two readings may be of different counters, or one of none.  Rates are kept as the bytes they were derived
from, with what the counter really counted between.

`ContainerUse` is one GPU, its processes and the containers they run in.  The slow poll owns the list of
containers and asks for their CPU and memory every third time; the fast one writes the GPU memory into
the list.  A container's memory is a number of processes of one unit each.

### ProbeScripts, Parsers, Variants and ProbeOutput

`ProbeScripts` is the shell text of `probe.ts`: for a node in a given state, the lines it prints, each a
tuple of fields with its section.  What the shell does when a file, a command or a line is missing is
modelled (a section stays empty, a line is missing, a default is printed).  `Parsers` has one operator for
each parser of `parse.ts`, on lines that may be missing or cut; `Part` is a field cut in the middle.
`Variants` is the table of makers with the patterns each text includes.  `ProbeOutput` composes
them: its only step is that another line, or part of one, is all that arrives (`exec` resolves early,
node.ts:388).  What a cut leaves of a field is no field, but for three that can be read as another: the label of a core
as that of all (parse.ts:89), a container's id as the start of one (parse.ts:682), a port as a shorter one (`Remnants`).
The text of a number and its units are left out, as is escaping.

### EngineReadings

The table `ENGINE_SPECS`, the readers of `inference.ts` over it and the ratios of `buildInference`.  The
server is external: it serves requests, dies and restarts; a scrape is the samples it exposes under the
names of its release, for each model.  `base` is the oldest scrape of the window that `InferenceRates`
models, here any earlier one.  A ratio is kept as numerator and denominator.

### ClusterSummary and Exposition

`ClusterSummary` is `rollUp`, `summarizeFabric` and `inferJobs` over nodes that are polled one by one; a
server is reached through several of them, so that its totals are seen at different times.  The models a
server has are the same everywhere, so that only the totals tell two apart.

`Exposition` renders a snapshot as the sequence of its lines: a HELP and a TYPE for the first sample of a
family, and the samples; the body is cached for as long as the snapshot's timestamp is the same.  Units and
escapes are left out.

### UpdateChecks and ConnectionTest

`UpdateChecks` cuts a check at each await: GitHub, the comparison of commits, and for every image of
every node the digest there and that of the registry.  Requests overlap; `overlap` remembers that they did, `told`
the newest commit anyone was told.  A clock of one step is the hour of the cache.

`ConnectionTest` is one test.  `stage` is what ssh2 is at; ready, error, the end of the stream and a connection
that just goes are external and may come in any order the library allows; `timer` is that of
`probeConnection.ts:94`.  The output arrives line by line and may be cut.

### Terminal, ControlPanel and SetupForm

`Terminal` is the state of `tui/src/index.ts` and the composition of a frame in `render.ts`.  A row is a pair
of its subject and whom it is about; how many rows a panel takes and what is left out when it does not
fit is as in the code, what is written in a row is not.  Windows of less than 12 columns, in which panels have no
border (ansi.ts:313), are outside the model (`ScreenAssumption`).

`ControlPanel` previews an operation on the server, shows it in a dialog and carries it out when
confirmed.  Previews are not tied to the dialog that asked for them, so they are requests of their own;
the containers of the node may change in between (`Elsewhere`).

`SetupForm` is the draft of a node, its test and its saving.  The fields stay open during both; an edit
remembers that it happened (`edited`), which the code does not.  What the page names as added is the name
that the test told, or else the host of the draft (Setup.tsx:105); a node's name and its address stand for the
node, so that the property can tell whether that is the one the server took.

### The unions

Within a process these parts share no state, so checking them together would only multiply states.
`Polls`, `Server` and `MCReadings` therefore hold the variables of several parts; `part` says which
one moves, the others being parked, and a property is that of the part that moves.  `Polls` and `Server` leave
the constants of the parts open, so that what is proved of them holds for any; `MCPolls` and `MCServer` give
TLC the values, which the configurations assign.

## Runs

| run | question | distinct states |
|---|---|---|
| `Collector` | one connection or attempt, online means usable, both tiers alive; a stopped collector comes to rest; retry and polling never wedge (`Recovers`) | 61 618 |
| `CollectorOneChain` | *violated*: a reconnect within one interval doubles the polls of a tier | |
| `CollectorRefusal` | *violated*: one failed fast poll and control operations are refused on a live connection | |
| `HistoryStore` | the rings implement the log; rings of what is gone are reclaimed | 11 709 |
| `RunsSafety` | sessions (`SessionsHonest`: neither merged nor left open), tokens and retention (`HistoryKept`) over crashes, failures, restarts and clock jumps | 2 280 607 |
| `Registry` | one collector each, broadcasts miss nothing, answers hold | 1 883 016 |
| `RegistryGhost` | *violated*: a node disabled while a poll is answered is broadcast as online | |
| `Polls` | what answers is found in time and kept; no token that was not generated, no rate missing, no stale latency called recent; between two readings of one counter no traffic or fault invented, between whole polls none missed; no GPU memory counted twice | 743 127 |
| `Readings` | scripts and parsers agree, and what is cut is missing (`ReadsBack`); every engine is read right and seen for as long as it answers (`ReadsEngine`); shares are of one window | 44 226 |
| `CrashedServer` | *violated*: a server known by its models list only is shown as reachable after a crash | |
| `Server` | links, warnings, sums, jobs and exposition; the page's history; control; update checks; connection tests; the terminal; the control panel; the form for a node | 2 075 018 |
| `ImageUpdates` | *violated*: an image that is up to date is said to have an update | |

Several properties that are one question are conjoined, each conjunct with its comment in its module:
`Recovers` (`Reconnects`, `PollsRecur`), `SessionsHonest` (`RunsSeparated`, `NothingLingers`), `RateHonest`
(with `RateKnown`, `BasisHonest`), `ReadsEngine` (with `AnswerSeen`), `ReadsBack` (with `CutIsBlank`),
`LinksHonest` (`ConfirmedOnceAgreed`, `NoInventedLink`), `SummaryHonest` (`TotalsHonest`, `JobsHonest`).

Bounds and why they are enough:

- Collector: two clients are enough for an old connection that is still closing beside
  a new one, and for the code to hold two at once if it could.  One orphaned timer
  per tier already stands for "more than the field names".  One `update()`, and `MaxBackoff` 1,
  let the collector be restarted and the counter reach its cap.  `MaxOrphans` stops a
  poll from rescheduling when the bound is reached; the proofs have no such limit to rely on.
- Chart history: three slots let the head wrap, a ring be partly filled, and a series
  blank out before and after the wrap; one node, one link and one cluster series are the
  three kinds of key the code treats differently.  Nothing bounds the number of ticks.
- Durable history: one endpoint with two models has two keys, so a call can be cut
  off between them.  The gap, the retention window, the sample interval and the prune interval are
  one unit each, and real time runs for three units from start-up, enough for a session
  to be interrupted, closed and pruned.  The clock may be set two units ahead and back.
  The engine generates two tokens, so that its counter can be reset and grow again.  Models are symmetric.
- Registry: two requests at a time, one node of the environment and one that is posted: races are
  between two requests on a node.  Two hosts let the environment shadow the other node.  One
  stopped collector per node may still emit.  Requests are symmetric.
- Polls.  Discovery: two ports, two engines, so that one can be replaced by the other on its port; the floor
  is three intervals instead of ten, longer than the two polls the quick path needs; ports and engines are
  symmetric.  Rates: windows of one and two units of time, polls zero to two units apart or one back, three
  samples of a window, three tokens, one restart: a restart falls inside either window, before it and after
  it.  Fabric: two words, one of them sent before the first poll, one fault, one reload of the driver, three units of time, enough for a counter to fall
  and pass where it was; a poll is whole or cut at one of six of the fourteen places (`CutsTried`): before
  everything, within the name of the port, before its counters, within those of errors, and before each of
  the NIC's.  The proof is for all places.  Containers: one, and two processes that may be in it, in none, or drawing.
- Readings.  Output: a node with two of most things, and the nodes that lack one of them or have it otherwise,
  cut at every line and within it; every maker with and without its vendor.  Engines: each of the eight kinds,
  with old and new names, one or two models, a ratio or a percentage; two requests, two polls and one
  fault, which is a restart or a scrape cut at any sample.
- Server.  Analysis: three nodes, so that a third party joins and leaves a segment, traffic on both sides of
  the tolerance and of the floor, lists in two orders.  Sums: three servers on two of three nodes, two requests
  each, containers of three jobs started and stopped in any combination.  Exposition: two nodes, one with
  everything there is, two ports, two disks, two engines.  Control: one container of compose and one run by hand, two
  images, two requests at a time and three in all, so that one may meet what an earlier one left running.  Feed: server and page keep three ticks
  each, equal as by default (config.ts:33, useCluster.ts:14), of four; one restart, one setting back of the
  clock, two messages under way.  With two ticks each, the gap of a page that connects twice before the first
  broadcast has no room to show (see the remarks).  Updates: one node with an image twice beside one that is
  off, or one with a pinned image; a build whose commit is the tip, is ahead of it or is not known; one new
  commit, two checks, one hour.  Test: every form, the nodes with and without a GPU, ports,
  Docker and a name of their system.  Terminal: six clusters from none to four nodes, eight windows from too small to
  roomy.  Control panel: one container, two images, two requests, three operations.  Form: two hosts, two secrets,
  unbounded.  Requests are symmetric.

Deadlock: a collector that was stopped and has come to rest can do nothing more; and the poll whose output
has ended, the test that is answered, the feed and the operations whose bounds are used up
end: the runs of these do not check for deadlock.  The others can always take another step.

Fairness (`NodeCollector!Fairness`): timers fire; `readFile` settles, with or
without success; an exec settles, since it has a timeout (node.ts:377); a handshake
settles, since the connection has a `readyTimeout` (303), and a failed or ended connection closes.
Nothing is assumed that would make a ready connection fail, an answer be a
success, or the collector be stopped.  No other module assumes fairness.

## Proofs

TLAPS checks, for every value of the constants:

- `NodeCollectorProofs`.  `TypeCorrect` is inductive.  `PollingNeverDies`: `PollingAlive` is
  inductive together with the types: a connection becomes ready only in `Ready`, which
  polls both tiers, and every later step that takes a poll or a timer away puts the
  other in its place.  `ConnectionDiscipline`: `SingleConnection`, `OneAttempt` and
  `OnlineIsUsable` are not inductive alone; `ConnectionInv` adds that a stopped collector has no
  reconnect timer and is not online, and that until it is stopped the connection that
  exists is the one `this.client` names.
- `HistoryStoreProofs`.  The inductive invariant says of every retained ring that it has one slot for
  each timestamp, that its head is where its length says, that `blank` counts its
  trailing blanks, and that it is not empty once the timeline is full.  `AlwaysAligned`,
  `SeriesLive` and the refinement `Implementation` follow from it.
- `RunStoreProofs`.  `AtMostOneOpen`: `OneOpenRun` with the types and `OpInv`: the rows a call
  is about to close as stale are open, and the key whose run it has just closed has no
  other.  It holds whatever the clock does and wherever calls are cut off.  The properties that
  compare a run with the past need more (`HistoryInv`): the last pruning and the last completed call were at times
  the clock has shown (`TimeInv`); the runs that the call in progress has dealt with are up to date, and what it
  selected as stale is stale (`ProgressInv`); a run counts no more than was generated, and would not if
  it were continued now (`TokenInv`); and, with a clock that does not jump, a run that ended did so more than the gap
  ago (`SessionInv`).  From it follow
  `TokensAreReal`, `SessionsAreSessions` and `HistoryIsKept`.  `SteadySize` proves `Bounded` under
  `SteadyAssumption`, which the run's constants satisfy: without it `Bounded` is false (see the remarks).
- `NodeRegistryProofs`.  `CollectorsMatch` and `BroadcastsMissNothing` are about the monitor alone
  (`MonitorInv`) and inductive with its types, in whatever order the registry calls it.
  `AnswersHold` needs more, since an answer is given two steps after the request was applied:
  `PromiseInv` says that from the moment a request is applied, and not overlapped, memory
  holds its outcome, every save under way writes it and no PATCH waits to bring a deleted
  node back (`Held`), and that from its rename on the file holds it too (`InFile`).  A POST
  cannot touch what is promised for another node because its id is new: `IdsInv` says that
  every node in memory, in the file, in a save or in a request was posted or is the environment's.
- `PollsProofs`, all five properties of the run `Polls`.  `FoundInTimeHolds`: `SeekInv` relates the polls since an
  identification to the changes since it, so that what is not found yet is asked for soon enough;
  `KeptWhileAnsweringHolds` follows from the same invariant.  `TrafficIsHonest`: `FabricInv` says of each reading kept that it
  falls short of what its counter says now by no more than that counter has counted since, reset or not, and after a
  whole poll that each is exact and of the counter that such a poll reads.  `UseIsHonest`: `UseHonest` is inductive with
  the shape of the list.  `RateIsHonest`: `RatesInv` says of the kept reading and of every scrape in the two
  windows, whatever their length, that it tells at least what the engine had generated by then of what its
  counter says now; the base of a window is the oldest scrape in its span, whose existence is
  `LeastNumber` (that the natural numbers are well-founded, which needs no operator parameter).
- `ControlProofs`.  `ControlInvariant` is the inductive invariant of the control operations.  A request waits for one
  command at most, of its own step (`WaitInv`); a command carries what its request had seen when it was
  sent, and keeps it when nobody waits any more (`CommandInv`); and a swap that was not disturbed is alone with its container, so that the
  override and what is recreated are of its image (`AloneInv`).  `PulledFirst`, `AppliedRuns` and `AllowedOnly` follow.
  `SavedAsTested` rests on `SetupInv` (a test that no edit overtook is of the draft), `ShownBeforeDone` on `PanelInv`: a
  request, its plan and the dialog speak of one operation (`Tells`), and `busy` is true exactly while one is under way
  (`BusyInv`).
- `ControlProofs`, connection tests.  `TestsAreHonest`: `TestHonest` with an invariant that says who may still answer
  (whoever clears the timer does, and a test that is answered has none) and that the output so far is a
  beginning of the four sections in their order, so that a section the parser reads is whole or the last one
  that arrived.
- `ServerProofs`.  `WarningsDoNotFlap` and `LinksAreHonest` hold for any nodes, lists and readings: the id of a link tells its
  ends (`IdIsItsEnds`), so that ids and ports can be kept in step (`AnalysisInv`).  `JobsAreHonest`: the key of a job
  gathers exactly the containers seen with it (`JobsAre`), and a rendezvous, address with port, tells the job.  `TicksAreTheServers`: `FeedInv`
  says of the server's log, of every message under way and of the page that their ticks were broadcast, with
  all of their readings, in order unless the clock was set back; the heart of it is `LongerReal`, that
  appending to a history, back-filling a series and dropping the oldest shift nothing.
  `PageCatchesUp` needs what is under way (`CatchInv`): once the page has read the snapshot and the backlog that it was
  primed with, if they are not read yet, and the ticks after them, it would have the newest ticks of the server without a
  gap.  A page that keeps its own history instead of the backlog has all ticks that were ever sent, but for a first
  one that the server built for it alone (`Whole`); `strange` says that there may be more than one such, or a
  server before this one, and then only the ticks since the reconnection are owed.
  `UpdatesAreHonest`: while a check runs, the images it has listed are those of the places it has left behind, each once
  (`Walked`), and the commit it will tell is not older than the one told last (`NotOlder`), as long as no other check overlaps it.
- `TerminalProofs`.  `ScreensAreHonest`, for any snapshots and windows.  A frame is a sequence of rows joined from
  panels, and every property of it is one of its parts (`RowsJoined`, `FlattenFacts`, `FrameFacts`).  The levels of
  detail are ordered by the subjects they draw (`Levels`, `NextLevel`) and the frame is the first that fits
  (`FirstThatFits`): it has every subject that any level that fits has (`OverviewKeeps`).  The last
  one takes a row for each node and five more (`LastLevel`), so that with so much room every node is there.  Every row of a view is about the nodes
  that are shown, and in a view of one node about the one the footer names (`FooterNames`).  What `FlattenSeq` makes of a sequence
  of sequences is a matter of induction over data; here the fold is a function over positions, and what it is
  at a position follows from a least counterexample (`LeastNumber`).

The assumptions are those the modules state: the sentinels are not values, capacities
are positive, node series are not cluster or link series, the clock at start-up is not near zero, the
registry's inputs are configurations, one stopped collector at least may still emit; nodes are numbered and
name each port once, readings are on a side of their thresholds; a page and a server keep one tick at least; containers
that name one rendezvous are of one job; the nodes of a fleet are distinct, and the cache lives for a while; the output of a
test has the shape of its script; snapshots are of the declared type, and a window has a width and a height.  TLC evaluates them in every run
(`SteadyAssumption` is a hypothesis of its one theorem, not of the module).

Only model-checked: the liveness properties and `StopQuiesces` (TLAPS does not reason about fairness
and ENABLED here); what is defined by folding or selecting over data, which needs induction: the sums of
`SummaryHonest` (`TotalsHonest`), the lines of `ScrapeHonest`, those that `ReadsBack` reads and the samples of
`ReadsEngine` and `SharesHonest`; and the properties the code does not keep.

## Where code and documentation disagree

The five violated runs are findings, with the quoted lines in `PROJECT.json`:

- `CollectorOneChain`: `scheduleFast` and `scheduleSlow` overwrite a timer that is still pending, so after a
  reconnect within one interval the tier is polled by two chains.
- `CollectorRefusal`: a failed fast poll sets status `error`, which only a new connection clears.
- `RegistryGhost`: `PATCH {enabled: false}` while a poll is under way leaves the node shown as online.
- `CrashedServer`: an OpenAI-only server is read as reachable whatever its scrape holds (node.ts:674).
- `ImageUpdates`: the digest taken from `docker manifest inspect` is not the one in `RepoDigests` (updates.ts:158),
  so that every image that can be compared is said to have an update.

Remarks without a run of their own:

- A slow poll cut short by its connection resolves like a whole one (node.ts:388), empties the inventory
  and the list of servers, and counts as an identification, although node.ts:491 says
  that a failed slow poll keeps the previous inventory.
- Two idle ports agree by default (cluster.ts:312), so any pair on one subnet is confirmed for good on its
  first snapshot, although types.ts:535 says that counters can only agree while traffic flows.
- `summary(since)` counts a run seen in the window whole (store.ts:408).
- A clock that is set back by more than the retention window stops sampling and pruning until it has caught up or the
  process restarts, since both wait for it to pass what they last saw (store.ts:193): the
  tables do not reach a steady size then, although README.md:497 says so.  `SteadyAssumption` excludes it.
- A clock that jumps ahead for one snapshot prunes samples that are recent in real time (store.ts:193).
- A scrape without counters is remembered as counters of 0, so that the next rate is the lifetime count of
  the server over one interval (node.ts:831); `RateHonest` states it as it is.
- The counters of a port are remembered as a number alone (node.ts:1042, 1060).  When the carrier takes the NIC's counters
  away or brings them back, the next rate is the difference of two counters; when a section did not arrive they,
  and the faults, are remembered as 0, and the next poll shows all that was ever counted as one interval's.
  `TrafficHonest` is about two readings of one counter and says nothing of these intervals.
- Triton's KV cache is never read: the script lets through names that begin with `nv_inference` (probe.ts:224), the reader
  looks for `nv_trt_llm_kv_cache_block_metrics` (inference.ts:241), although README.md:427 lists the KV
  cache among the metrics of an engine.  `ReadsEngine` states it as it is.
- Of two update checks at once the last to finish is kept, also if it asked first (index.ts:605); `UpdateHonest`
  exempts checks that overlap.
- `update()` (node.ts:273) would open a second connection when it is called during a pending
  `buildAuth`; nothing calls it at this commit, and the properties about connections are stated for
  a collector that was never updated.
- A swap whose compose files are unknown is applied with the override alone (control.ts:283).
- An edit of a node drops a stored passphrase, since only the password is carried over (index.ts:531).
- Setup.tsx:57 says that any edit invalidates a previous check; the answer to a test started before the
  edit still does unlock the edited draft, and the page then says that it added the node that was tested, which the
  server does not have, and not the one it has (Setup.tsx:105).  `SavedWasTested` exempts both.
- ControlsView.tsx:116: the end of an operation closes whatever dialog is open, also that of another one.
- RunsView.tsx:56: the answer for an older window may arrive last and stay.
- The terminal's footer names the number of a node that is gone while all nodes are shown (render.ts:108, 716);
  its histories of nodes that were removed are never given up.
- A node without PRETTY_NAME shows its product as its system (probe.ts:261, probeConnection.ts:40), and a Dell whose
  firmware has no vendor is taken for NVIDIA's (variants.ts:50).
- Lists of models are cut at 4096 bytes, and then read as no models; a test whose stream is cut is
  answered with success and blanks (probeConnection.ts:108).
- `inferJobs` sums both directions of a link, where `summarizeFabric` takes the busier one.
- Samples of one family are not contiguous in the exposition, as nodes are written one after another; sensors
  without a name collide in one series.
- `sglang:spec_accept_length`, a mean, is read as a counter of accepted tokens; Triton's `*_us` families are read
  as histograms in seconds.
- A page that connects before the first broadcast is sent a snapshot built for it alone, which is not in the server's
  history.  One that does so twice has two such ticks; its history stays deeper than the backlog, so that it is kept
  ("Keep whichever has more depth", useCluster.ts:127) with a gap for what it missed while it was disconnected.
- A build that is ahead of the newest commit is told of an update, with nothing that it is behind by (updates.ts:93, 110).
- Update checks run once an hour at most, unless they are forced or overlap (index.ts:603).

## Not modelled, and the plan

Not modelled:

- encryption at rest (`crypto.ts`: a library call without state) and the shared types (declarations);
- presentation: the views that render what they are given, text, colours and widths in the terminal, formatting of
  numbers (`format.ts`, covered by unit tests); `RunsView`, whose late answer is a remark above;
- routing, static files and the fault log of the server, and its migration of old database files;
- the collector's exec timeouts as real time, CPU shares between two readings and the labels of sensors.

Next, in this order:

1. Proofs: the sums of `SummaryHonest` and the quotients of `SharesHonest`, by the least counterexample that
   `TerminalProofs` uses for `FlattenSeq`.
2. The fault log and `RunsView`.
3. CPU shares and the other quotients of two readings in `buildSnapshot`.
