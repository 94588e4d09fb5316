--------------------------------- MODULE Server ---------------------------------
(***************************************************************************)
(* The parts of the server side by side: what it makes of the snapshots of *)
(* the nodes (links and warnings, sums and jobs, the exposition), its feed *)
(* to a page, control of containers, checks for updates, the test of a     *)
(* connection, and three that show it: the terminal, the page's control    *)
(* panel and its form for a node.  None reads what another keeps: a        *)
(* behaviour is of one part, the others being parked, and the state spaces *)
(* add up.  For any values of the constants of the parts.                  *)
(***************************************************************************)
EXTENDS Integers, Sequences, FiniteSets

CONSTANTS
  Parked, \* what the variables of a part hold while another moves
  \* of several parts
  Null, None, NaN, Nobody, Req,
  \* Analysis
  Nodes, Polled, Lists, NoSubnet,
  \* ClusterSummary
  NodeList, Services, Counted, ServedEndpoints, Containers, Links, MaxServed,
  \* Exposition
  Exported, MaxTs,
  \* ContainerControl
  Container, Composed, Image, MaxOps,
  \* ClientFeed
  ServerCap, ClientCap, Key, MaxTicks, MaxRestarts, MaxQueue,
  \* UpdateChecks
  Fleet, Unasked, Currents, Hour, MaxTime, MaxTip, MaxChecks,
  \* ConnectionTest
  Forms, Hosts, ReadyTimeout, Grace,
  \* Terminal
  Screens, Sizes,
  \* ControlPanel: the containers on the page
  PanelContainer, LogSize, MaxAsked,
  \* SetupForm
  Host, Secret

VARIABLES
  part, \* the part that moves
  \* Analysis
  input, everConfirmed, activeWarnings, links, agreed,
  \* ClusterSummary
  served, view, online, running,
  \* Exposition
  snap, cache, scraped,
  \* ContainerControl
  enabled, containers, pulled, override, remote, reqs, disturbed, ops,
  \* ClientFeed
  clock, stepped, sent, ticks, log, latest, restarts, strange, conn, chan, fresh, hist,
  \* UpdateChecks
  updateClock, tip, local, current, updateLatest, updateCache, updateReqs, answer, told, overlap, checks,
  \* ConnectionTest
  form, host, stage, timer, age, printed, result,
  \* Terminal
  snapshot, screenView, selected, paused, size, drawn,
  \* ControlPanel
  defined, allowed, status, picker, pending, busy, panelReqs, panelLog, asked,
  \* SetupForm
  draft, tested, formSent, outcome, added, accepted

A == INSTANCE Analysis WITH Snapshots <- Polled
S == INSTANCE ClusterSummary WITH Endpoints <- ServedEndpoints
X == INSTANCE Exposition WITH served <- scraped, Snapshots <- Exported
C == INSTANCE ContainerControl
F == INSTANCE ClientFeed
U == INSTANCE UpdateChecks WITH clock <- updateClock, latest <- updateLatest, cache <- updateCache, reqs <- updateReqs
T == INSTANCE ConnectionTest WITH input <- form, Inputs <- Forms
V == INSTANCE Terminal WITH view <- screenView, Snapshots <- Screens
P == INSTANCE ControlPanel WITH reqs <- panelReqs, log <- panelLog, Container <- PanelContainer, MaxOps <- MaxAsked
E == INSTANCE SetupForm WITH sent <- formSent

ASSUME ServerAssumption ==
  A!AnalysisAssumption /\ S!SummaryAssumption /\ C!ControlAssumption /\ F!FeedAssumption /\ U!UpdateAssumption
  /\ T!TestAssumption /\ V!ScreenAssumption /\ P!PanelAssumption

analysisVars == <<input, everConfirmed, activeWarnings, links, agreed>>
summaryVars == <<served, view, online, running>>
expositionVars == <<snap, cache, scraped>>
controlVars == <<enabled, containers, pulled, override, remote, reqs, disturbed, ops>>
feedVars == <<clock, stepped, sent, ticks, log, latest, restarts, strange, conn, chan, fresh, hist>>
updatesVars == <<updateClock, tip, local, current, updateLatest, updateCache, updateReqs, answer, told, overlap, checks>>
testVars == <<form, host, stage, timer, age, printed, result>>
terminalVars == <<snapshot, screenView, selected, paused, size, drawn>>
panelVars == <<defined, allowed, status, picker, pending, busy, panelReqs, panelLog, asked>>
setupVars == <<draft, tested, formSent, outcome, added, accepted>>

AnalysisParked ==
  /\ input = Parked /\ everConfirmed = Parked /\ activeWarnings = Parked /\ links = Parked
  /\ agreed = Parked
SummaryParked ==
  /\ served = Parked /\ view = Parked /\ online = Parked /\ running = Parked
ExpositionParked ==
  /\ snap = Parked /\ cache = Parked /\ scraped = Parked
ControlParked ==
  /\ enabled = Parked /\ containers = Parked /\ pulled = Parked /\ override = Parked
  /\ remote = Parked /\ reqs = Parked /\ disturbed = Parked /\ ops = Parked
FeedParked ==
  /\ clock = Parked /\ stepped = Parked /\ sent = Parked /\ ticks = Parked
  /\ log = Parked /\ latest = Parked /\ restarts = Parked /\ strange = Parked /\ conn = Parked
  /\ chan = Parked /\ fresh = Parked /\ hist = Parked
UpdatesParked ==
  /\ updateClock = Parked /\ tip = Parked /\ local = Parked /\ current = Parked
  /\ updateLatest = Parked /\ updateCache = Parked /\ updateReqs = Parked /\ answer = Parked
  /\ told = Parked /\ overlap = Parked /\ checks = Parked
TestParked ==
  /\ form = Parked /\ host = Parked /\ stage = Parked /\ timer = Parked
  /\ age = Parked /\ printed = Parked /\ result = Parked
TerminalParked ==
  /\ snapshot = Parked /\ screenView = Parked /\ selected = Parked
  /\ paused = Parked /\ size = Parked /\ drawn = Parked
PanelParked ==
  /\ defined = Parked /\ allowed = Parked /\ status = Parked /\ picker = Parked /\ pending = Parked
  /\ busy = Parked /\ panelReqs = Parked /\ panelLog = Parked /\ asked = Parked
SetupParked ==
  /\ draft = Parked /\ tested = Parked /\ formSent = Parked /\ outcome = Parked /\ added = Parked /\ accepted = Parked

\* Where the others are while one moves.
OthersParked(moving) ==
  /\ moving # "analysis" => AnalysisParked
  /\ moving # "summary" => SummaryParked
  /\ moving # "exposition" => ExpositionParked
  /\ moving # "control" => ControlParked
  /\ moving # "feed" => FeedParked
  /\ moving # "updates" => UpdatesParked
  /\ moving # "test" => TestParked
  /\ moving # "terminal" => TerminalParked
  /\ moving # "panel" => PanelParked
  /\ moving # "setup" => SetupParked

OthersStay(moving) ==
  /\ UNCHANGED part
  /\ moving # "analysis" => UNCHANGED analysisVars
  /\ moving # "summary" => UNCHANGED summaryVars
  /\ moving # "exposition" => UNCHANGED expositionVars
  /\ moving # "control" => UNCHANGED controlVars
  /\ moving # "feed" => UNCHANGED feedVars
  /\ moving # "updates" => UNCHANGED updatesVars
  /\ moving # "test" => UNCHANGED testVars
  /\ moving # "terminal" => UNCHANGED terminalVars
  /\ moving # "panel" => UNCHANGED panelVars
  /\ moving # "setup" => UNCHANGED setupVars

Init ==
  \/ part = "analysis" /\ A!Init /\ OthersParked("analysis")
  \/ part = "summary" /\ S!Init /\ OthersParked("summary")
  \/ part = "exposition" /\ X!Init /\ OthersParked("exposition")
  \/ part = "control" /\ C!Init /\ OthersParked("control")
  \/ part = "feed" /\ F!Init /\ OthersParked("feed")
  \/ part = "updates" /\ U!Init /\ OthersParked("updates")
  \/ part = "test" /\ T!Init /\ OthersParked("test")
  \/ part = "terminal" /\ V!Init /\ OthersParked("terminal")
  \/ part = "panel" /\ P!Init /\ OthersParked("panel")
  \/ part = "setup" /\ E!Init /\ OthersParked("setup")

Next ==
  \/ part = "analysis" /\ A!Next /\ OthersStay("analysis")
  \/ part = "summary" /\ S!Next /\ OthersStay("summary")
  \/ part = "exposition" /\ X!Next /\ OthersStay("exposition")
  \/ part = "control" /\ C!Next /\ OthersStay("control")
  \/ part = "feed" /\ F!Next /\ OthersStay("feed")
  \/ part = "updates" /\ U!Next /\ OthersStay("updates")
  \/ part = "test" /\ T!Next /\ OthersStay("test")
  \/ part = "terminal" /\ V!Next /\ OthersStay("terminal")
  \/ part = "panel" /\ P!Next /\ OthersStay("panel")
  \/ part = "setup" /\ E!Next /\ OthersStay("setup")

vars == <<part, analysisVars, summaryVars, expositionVars, controlVars, feedVars, updatesVars, testVars,
          terminalVars, panelVars, setupVars>>
Spec == Init /\ [][Next]_vars

-----------------------------------------------------------------------------
\* The properties of the parts, for the behaviours in which they move.
LinksHonest == part = "analysis" => A!ConfirmedOnceAgreed /\ A!NoInventedLink
NoFlap == [][part = "analysis" => A!NoFlapStep]_<<part, analysisVars>>
SummaryHonest == part = "summary" => S!TotalsHonest /\ S!JobsHonest
ScrapeHonest == part = "exposition" => X!ScrapeHonest
PulledBeforeTeardown == part = "control" => C!PulledBeforeTeardown
AppliedIsRunning == part = "control" => C!AppliedIsRunning
OnlyWhereAllowed == [][part = "control" => C!OnlyWhereAllowedStep]_<<part, controlVars>>
TicksAreReal == part = "feed" => F!TicksAreReal
CaughtUp == part = "feed" => F!CaughtUp
UpdateHonest == part = "updates" => U!UpdateHonest
CurrentIsCurrent == part = "updates" => U!CurrentIsCurrent
TestHonest == part = "test" => T!TestHonest
ScreenHonest == part = "terminal" => V!ScreenHonest
ConfirmedWasShown == part = "panel" => P!ConfirmedWasShown
SavedWasTested == part = "setup" => E!SavedWasTested
================================================================================
