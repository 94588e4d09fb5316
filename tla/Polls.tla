--------------------------------- MODULE Polls ----------------------------------
(***************************************************************************)
(* The parts of a collector that digest its polls, side by side: none      *)
(* reads what another keeps, so a behaviour is of one of them, the others  *)
(* being parked, and the state spaces add up instead of multiplying.  For  *)
(* any values of the constants of the parts.                               *)
(***************************************************************************)
EXTENDS Integers, FiniteSets

CONSTANTS
  Parked, \* what the variables of a part hold while another moves
  \* of several parts
  Nothing, Undefined, Null, MaxTime,
  \* Discovery
  Ports, Engines, Closed, Mute, Floor,
  \* InferenceRates
  TokenWindow, LatencyWindow, MaxTokens, MaxSamples, MaxRestarts,
  \* FabricRates
  MaxWords, MaxFaults, MaxReloads, CutsTried,
  \* ContainerUse
  Containers, Pids, Outside

VARIABLES
  part, \* the part that moves
  \* Discovery
  serving, listenerSig, identifyNext, age, endpoints, slow, poll, calm, moved,
  \* InferenceRates
  clock, engine, work, restarts, tokenWindow, latencyWindow, prevInference, shown, last,
  \* FabricRates
  portClock, cut, port, life, carrier, reloads, prev,
  \* ContainerUse
  up, home, graphics, listed, known, sinceStats, lastStats, gpuShown, blank

D == INSTANCE Discovery
R == INSTANCE InferenceRates
F == INSTANCE FabricRates WITH clock <- portClock
U == INSTANCE ContainerUse WITH shown <- gpuShown

discoveryVars == <<serving, listenerSig, identifyNext, age, endpoints, slow, poll, calm, moved>>
ratesVars == <<clock, engine, work, restarts, tokenWindow, latencyWindow, prevInference, shown, last>>
fabricVars == <<portClock, cut, port, life, carrier, reloads, prev>>
useVars == <<up, home, graphics, listed, known, sinceStats, lastStats, gpuShown, blank>>

ASSUME PollsAssumption ==
  D!DiscoveryAssumption /\ R!RatesAssumption /\ F!FabricAssumption /\ U!UseAssumption

DiscoveryParked ==
  /\ serving = Parked /\ listenerSig = Parked /\ identifyNext = Parked /\ age = Parked
  /\ endpoints = Parked /\ slow = Parked /\ poll = Parked /\ calm = Parked
  /\ moved = Parked

RatesParked ==
  /\ clock = Parked /\ engine = Parked /\ work = Parked /\ restarts = Parked
  /\ tokenWindow = Parked /\ latencyWindow = Parked /\ prevInference = Parked
  /\ shown = Parked /\ last = Parked

FabricParked ==
  /\ portClock = Parked /\ cut = Parked /\ port = Parked /\ life = Parked
  /\ carrier = Parked /\ reloads = Parked /\ prev = Parked

UseParked ==
  /\ up = Parked /\ home = Parked /\ graphics = Parked /\ listed = Parked
  /\ known = Parked /\ sinceStats = Parked /\ lastStats = Parked /\ gpuShown = Parked
  /\ blank = Parked

Init ==
  \/ part = "discovery" /\ D!Init /\ RatesParked /\ FabricParked /\ UseParked
  \/ part = "rates" /\ R!Init /\ DiscoveryParked /\ FabricParked /\ UseParked
  \/ part = "fabric" /\ F!Init /\ DiscoveryParked /\ RatesParked /\ UseParked
  \/ part = "use" /\ U!Init /\ DiscoveryParked /\ RatesParked /\ FabricParked

Next ==
  \/ part = "discovery" /\ D!Next /\ UNCHANGED <<part, ratesVars, fabricVars, useVars>>
  \/ part = "rates" /\ R!Next /\ UNCHANGED <<part, discoveryVars, fabricVars, useVars>>
  \/ part = "fabric" /\ F!Next /\ UNCHANGED <<part, discoveryVars, ratesVars, useVars>>
  \/ part = "use" /\ U!Next /\ UNCHANGED <<part, discoveryVars, ratesVars, fabricVars>>

vars == <<part, discoveryVars, ratesVars, fabricVars, useVars>>
Spec == Init /\ [][Next]_vars

\* The properties of the parts, for the behaviours in which they move.
FoundInTime == part = "discovery" => D!FoundInTime
KeptWhileAnswering == [][part = "discovery" => D!KeptWhileAnsweringStep]_<<part, discoveryVars>>
RateHonest == part = "rates" => R!RateHonest /\ R!RateKnown /\ R!BasisHonest
TrafficHonest == [][part = "fabric" => F!TrafficHonestStep]_<<part, fabricVars>>
UseHonest == part = "use" => U!UseHonest
================================================================================
