------------------------------- MODULE Discovery -------------------------------
(***************************************************************************)
(* Discovery of inference servers by the slow tier of a collector          *)
(* (packages/core/src/node.ts:427-496, probe.ts:304-392).  Identifying     *)
(* what answers on a port is expensive, so a poll asks for it only when    *)
(* the listening ports moved or some minutes have passed.  The polls       *)
(* themselves are those of NodeCollector; here is what they carry, while   *)
(* servers come and go.  Time is counted in slow intervals.                *)
(***************************************************************************)
EXTENDS Integers, FiniteSets, FiniteSetsExt

CONSTANTS
  Ports,    \* ports outside the exclusions of probe.ts
  Engines,  \* what can be identified: a kind with its model
  Closed,   \* nothing listens
  Mute,     \* something listens and does not answer (yet)
  Nothing,  \* a section that did not arrive
  Floor     \* 300 s in slow intervals

\* What the constants must satisfy.
DiscoveryAssumption ==
  /\ Floor \in Nat \ {0, 1}
  /\ Closed # Mute /\ {Closed, Mute} \cap Engines = {}
  /\ \A seen \in SUBSET Ports : seen # Nothing
  /\ \A seen \in SUBSET (Ports \X Engines) : seen # Nothing

VARIABLES
  serving,      \* what listens on each port of the node
  listenerSig,  \* this.listenerSig
  identifyNext, \* this.identifyNext
  age,          \* Date.now() - this.lastIdentifyAt, up to Floor
  endpoints,    \* this.endpoints, what the fast tier scrapes
  slow,         \* this.slow holds the sections of the last poll
  poll,         \* the slow poll in flight
  calm,         \* whole polls, an interval apart, since servers last changed
  moved         \* the first of these listed other ports than the poll before it

collector == <<listenerSig, identifyNext, age, endpoints, slow>>
vars == <<serving, collector, poll, calm, moved>>

Listening(s) == {p \in Ports : s[p] # Closed}
Answering(s) == {a \in Ports \X Engines : s[a[1]] = a[2]}

Idle == [phase |-> "idle"]

Init ==
  /\ serving \in [Ports -> Engines \cup {Closed, Mute}]
  /\ listenerSig = {} /\ identifyNext = TRUE /\ age = Floor
  /\ endpoints = {} /\ slow = "empty"
  /\ poll = Idle
  /\ calm = 0 /\ moved = FALSE

\* A server starts, becomes ready, is replaced, hangs or dies.
Change(p, e) ==
  /\ serving[p] # e
  /\ serving' = [serving EXCEPT ![p] = e]
  /\ poll' = IF poll = Idle THEN Idle ELSE [poll EXCEPT !.clean = FALSE]
  /\ calm' = 0 /\ moved' = FALSE
  /\ UNCHANGED collector

\* Whether a poll asks for identification.
Due(elapsed) == identifyNext \/ elapsed >= Floor

\* pollSlow() up to its await: from its timer, an interval after the last poll, or
\* on a new connection.
BeginPoll(timed) ==
  /\ poll = Idle
  /\ age' = IF timed /\ age < Floor THEN age + 1 ELSE age
  /\ poll' = [phase |-> "started", identify |-> Due(age'), timed |-> timed, clean |-> TRUE,
              listed |-> Nothing, found |-> Nothing]
  /\ UNCHANGED <<serving, listenerSig, identifyNext, endpoints, slow, calm, moved>>

\* The script on the node: section `listeners`.
ProbeLists ==
  /\ poll.phase = "started"
  /\ poll' = [poll EXCEPT !.phase = "listed", !.listed = Listening(serving)]
  /\ UNCHANGED <<serving, collector, calm, moved>>

\* Section `probe_endpoints`, where it was asked for.
ProbeIdentifies ==
  /\ poll.phase = "listed" /\ poll.identify
  /\ poll' = [poll EXCEPT !.phase = "identified", !.found = Answering(serving)]
  /\ UNCHANGED <<serving, collector, calm, moved>>

\* The sections after it.
ProbeEnds ==
  /\ poll.phase = "identified" \/ (poll.phase = "listed" /\ ~poll.identify)
  /\ poll' = [poll EXCEPT !.phase = "done"]
  /\ UNCHANGED <<serving, collector, calm, moved>>

\* Mutant: the flag is cleared by the poll that notices new ports, not by the one that
\* identifies them.
Digest_EarlyClear(listed, found) ==
  LET heard == IF listed = Nothing THEN {} ELSE listed
  IN /\ listenerSig' = heard
     /\ identifyNext' = FALSE
     /\ age' = IF poll.identify THEN 0 ELSE age
     /\ endpoints' = IF ~poll.identify THEN endpoints
                     ELSE IF found = Nothing THEN {} ELSE found

\* Mutant: a poll that was not to identify empties what is known.
Digest_Blanks(listed, found) ==
  LET heard == IF listed = Nothing THEN {} ELSE listed
  IN /\ listenerSig' = heard
     /\ identifyNext' = (~poll.identify /\ (identifyNext \/ heard # listenerSig))
     /\ age' = IF poll.identify THEN 0 ELSE age
     /\ endpoints' = IF found = Nothing THEN {} ELSE found

\* pollSlow() after its await, on the sections that arrived: one that did not is empty.
Digest(listed, found) ==
  LET heard == IF listed = Nothing THEN {} ELSE listed
  IN /\ listenerSig' = heard
     /\ identifyNext' = (~poll.identify /\ (identifyNext \/ heard # listenerSig))
     /\ age' = IF poll.identify THEN 0 ELSE age
     /\ endpoints' = IF ~poll.identify THEN endpoints
                     ELSE IF found = Nothing THEN {} ELSE found

PollCompletes ==
  /\ poll.phase = "done"
  /\ Digest(poll.listed, poll.found)
  /\ slow' = "whole"
  /\ poll' = Idle
  /\ calm' = IF poll.clean /\ poll.timed THEN Min({calm + 1, Floor}) ELSE calm
  /\ moved' = IF poll.clean /\ poll.timed /\ calm = 0 THEN poll.listed # listenerSig ELSE moved
  /\ UNCHANGED serving

\* The stream closes early, because the connection went or the script was killed: exec
\* resolves with what there is (node.ts:388), some of the identified ports included.
PollCut ==
  /\ poll.phase \in {"started", "listed", "identified"}
  /\ \E found \in IF poll.phase = "started" \/ ~poll.identify THEN {Nothing}
                  ELSE SUBSET Answering(serving) : Digest(poll.listed, found)
  /\ slow' = "cut"
  /\ poll' = Idle
  /\ calm' = 0 /\ moved' = FALSE
  /\ UNCHANGED serving

\* The poll times out, or the exec fails.
PollFails ==
  /\ poll # Idle
  /\ poll' = Idle
  /\ UNCHANGED <<serving, collector, calm, moved>>

Next ==
  \/ \E p \in Ports, e \in Engines \cup {Closed, Mute} : Change(p, e)
  \/ \E timed \in BOOLEAN : BeginPoll(timed)
  \/ ProbeLists \/ ProbeIdentifies \/ ProbeEnds
  \/ PollCompletes \/ PollCut \/ PollFails

Spec == Init /\ [][Next]_vars

-----------------------------------------------------------------------------
\* What is scraped is what answers: two whole polls after a change that can be seen in the
\* listening ports (node.ts:470), and after any other change, or a cut poll, within
\* the floor (node.ts:433), however changes fell between the sections of a poll and
\* whatever polls failed on the way.
FoundInTime ==
  poll = Idle /\ calm >= (IF moved THEN 2 ELSE Floor) => endpoints = Answering(serving)

\* A server that answers is no longer scraped only if the poll that drops it was cut, or
\* overlapped a change: a poll that fails, or was not to identify, drops nothing, and one
\* that identifies keeps what is still there (node.ts:477-488).
KeptWhileAnsweringStep ==
  (endpoints \ endpoints') \cap Answering(serving) # {} => PollCut \/ ~poll.clean

KeptWhileAnswering == [][KeptWhileAnsweringStep]_vars
==============================================================================
