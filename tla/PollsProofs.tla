----------------------------- MODULE PollsProofs -----------------------------
(***************************************************************************)
(* Proofs about Polls, for any ports, engines, containers, windows and     *)
(* bounds.  Each part has an invariant of its own, over its variables      *)
(* alone; that the others are parked makes it one of the whole.            *)
(***************************************************************************)
EXTENDS Polls, Sequences, SequenceTheorems, WellFoundedInduction, TLAPS

-----------------------------------------------------------------------------
(* Discovery. *)

\* The smaller of two numbers, as the community modules have it.
LEMMA SmallerOfTwo ==
  ASSUME NEW a \in Int, NEW b \in Int
  PROVE  D!Min({a, b}) = IF a <= b THEN a ELSE b
BY DEF D!Min

Poll == [phase : {"started", "listed", "identified", "done"},
         identify : BOOLEAN, timed : BOOLEAN, clean : BOOLEAN,
         listed : (SUBSET Ports) \cup {Nothing}, found : (SUBSET (Ports \X Engines)) \cup {Nothing}]

DiscoveryType ==
  /\ identifyNext \in BOOLEAN /\ moved \in BOOLEAN
  /\ age \in 0..Floor /\ calm \in 0..Floor
  /\ poll # D!Idle => poll \in Poll

Found == endpoints = D!Answering(serving)

\* What a poll that no change has overtaken has seen is still so; one that a change has
\* overtaken, and only such a one, finds the calm broken.
PollInv ==
  poll # D!Idle =>
    /\ poll.identify = D!Due(age)
    /\ poll.timed => age > 0
    /\ poll.phase = "identified" => poll.identify
    /\ poll.clean =>
         /\ poll.phase # "started" => poll.listed = D!Listening(serving)
         /\ poll.identify /\ poll.phase \in {"identified", "done"} => poll.found = D!Answering(serving)
    /\ ~poll.clean => calm = 0

\* While something is not found the next poll identifies, if the ports moved, and otherwise
\* the age has kept pace with the whole polls.
SeekInv ==
  calm > 0 /\ ~Found =>
    /\ moved => calm = 1 /\ identifyNext
    /\ calm < Floor
    /\ age >= IF poll # D!Idle /\ poll.timed THEN calm + 1 ELSE calm

DiscoveryInv == DiscoveryType /\ PollInv /\ SeekInv

LEMMA DiscoveryInit == ASSUME D!Init PROVE DiscoveryInv
<1>1. DiscoveryType
  <2>1. age \in 0..Floor /\ calm \in 0..Floor
    BY PollsAssumption DEF D!DiscoveryAssumption, D!Init
  <2>. QED BY <2>1 DEF D!Init, DiscoveryType
<1>. QED BY <1>1 DEF D!Init, DiscoveryInv, PollInv, SeekInv

\* What the sections of a poll can say is never taken for a section that did not arrive.
LEMMA SectionsTell ==
  D!Listening(serving) # Nothing /\ D!Answering(serving) # Nothing
<1>1. D!Listening(serving) \in SUBSET Ports /\ D!Answering(serving) \in SUBSET (Ports \X Engines)
  BY DEF D!Listening, D!Answering
<1>. QED BY <1>1, PollsAssumption DEF D!DiscoveryAssumption

LEMMA DiscoveryNext == ASSUME DiscoveryInv, D!Next PROVE DiscoveryInv'
<1>. USE DEF DiscoveryInv, D!collector
<1>f. Floor \in Nat /\ Floor > 1
  BY PollsAssumption DEF D!DiscoveryAssumption
<1>1. ASSUME NEW p \in Ports, NEW e \in Engines \cup {Closed, Mute}, D!Change(p, e)
      PROVE  DiscoveryInv'
  <2>1. /\ poll # D!Idle => poll' \in Poll /\ poll' # D!Idle /\ poll' = [poll EXCEPT !.clean = FALSE]
        /\ poll = D!Idle => poll' = D!Idle
    BY <1>1 DEF D!Change, DiscoveryType, Poll, D!Idle
  <2>2. DiscoveryType'
    <3>1. age' \in 0..Floor /\ calm' \in 0..Floor
      BY <1>1, <1>f DEF D!Change, DiscoveryType
    <3>2. identifyNext' \in BOOLEAN /\ moved' \in BOOLEAN
      BY <1>1 DEF D!Change, DiscoveryType
    <3>. QED BY <2>1, <3>1, <3>2 DEF DiscoveryType
  <2>4. PollInv'
    BY <1>1, <2>1 DEF D!Change, DiscoveryType, PollInv, Poll, D!Due
  <2>3. SeekInv'
    BY <1>1, <1>f DEF D!Change, SeekInv
  <2>. QED BY <2>2, <2>3, <2>4
<1>2. ASSUME NEW timed \in BOOLEAN, D!BeginPoll(timed) PROVE DiscoveryInv'
  <2>1. DiscoveryType'
    BY <1>2, <1>f DEF D!BeginPoll, Poll, DiscoveryType, D!Idle, D!Due
  <2>2. PollInv'
    BY <1>2, <1>f DEF D!BeginPoll, Poll, DiscoveryType, PollInv, D!Idle, D!Due
  <2>3. SeekInv'
    BY <1>2, <1>f DEF D!BeginPoll, Poll, DiscoveryType, SeekInv, D!Idle, Found, D!Answering
  <2>. QED BY <2>1, <2>2, <2>3
<1>3. /\ D!Listening(serving) \in SUBSET Ports /\ D!Answering(serving) \in SUBSET (Ports \X Engines)
      /\ UNCHANGED serving => /\ D!Listening(serving)' = D!Listening(serving)
                              /\ D!Answering(serving)' = D!Answering(serving)
  BY DEF D!Listening, D!Answering
<1>4. ASSUME poll # D!Idle, poll' # D!Idle, poll' \in Poll, DiscoveryType, D!Listening(serving)' = D!Listening(serving),
             D!Answering(serving)' = D!Answering(serving), UNCHANGED <<serving, D!collector, calm, moved>>,
             poll'.identify = poll.identify, poll'.timed = poll.timed, poll'.clean = poll.clean, PollInv'
      PROVE  DiscoveryInv'
  <2>1. DiscoveryType'
    BY <1>4 DEF DiscoveryType
  <2>2. SeekInv'
    BY <1>4 DEF SeekInv, Found
  <2>. QED BY <1>4, <2>1, <2>2
<1>5. CASE D!ProbeLists
  <2>1. poll \in Poll /\ poll # D!Idle
    BY <1>5 DEF D!ProbeLists, D!Idle, DiscoveryType
  <2>2. poll' = [poll EXCEPT !.phase = "listed", !.listed = D!Listening(serving)]
        /\ UNCHANGED <<serving, D!collector, calm, moved>>
    BY <1>5 DEF D!ProbeLists
  <2>3. poll' \in Poll /\ poll' # D!Idle /\ poll'.phase = "listed" /\ poll'.listed = D!Listening(serving)
        /\ poll'.identify = poll.identify /\ poll'.timed = poll.timed /\ poll'.clean = poll.clean
    BY <2>1, <2>2, <1>3 DEF Poll, D!Idle
  <2>4. PollInv'
    BY <1>3, <2>1, <2>2, <2>3 DEF PollInv, D!Due
  <2>. QED BY <1>4, <1>3, <2>1, <2>2, <2>3, <2>4
<1>6. CASE D!ProbeIdentifies
  <2>1. poll \in Poll /\ poll # D!Idle /\ poll.identify /\ poll.phase = "listed"
    BY <1>6 DEF D!ProbeIdentifies, D!Idle, DiscoveryType
  <2>2. poll' = [poll EXCEPT !.phase = "identified", !.found = D!Answering(serving)]
        /\ UNCHANGED <<serving, D!collector, calm, moved>>
    BY <1>6 DEF D!ProbeIdentifies
  <2>3. poll' \in Poll /\ poll' # D!Idle /\ poll'.phase = "identified" /\ poll'.found = D!Answering(serving)
        /\ poll'.identify = poll.identify /\ poll'.timed = poll.timed /\ poll'.clean = poll.clean
        /\ poll'.listed = poll.listed
    BY <2>1, <2>2, <1>3 DEF Poll, D!Idle
  <2>4. PollInv'
    BY <1>3, <2>1, <2>2, <2>3 DEF PollInv, D!Due
  <2>. QED BY <1>4, <1>3, <2>1, <2>2, <2>3, <2>4
<1>7. CASE D!ProbeEnds
  <2>1. poll \in Poll /\ poll # D!Idle /\ poll.phase \in {"listed", "identified"}
        /\ (poll.identify => poll.phase = "identified")
    BY <1>7 DEF D!ProbeEnds, D!Idle, DiscoveryType, PollInv
  <2>2. poll' = [poll EXCEPT !.phase = "done"] /\ UNCHANGED <<serving, D!collector, calm, moved>>
    BY <1>7 DEF D!ProbeEnds
  <2>3. poll' \in Poll /\ poll' # D!Idle /\ poll'.phase = "done" /\ poll'.found = poll.found
        /\ poll'.identify = poll.identify /\ poll'.timed = poll.timed /\ poll'.clean = poll.clean
        /\ poll'.listed = poll.listed
    BY <2>1, <2>2, <1>3 DEF Poll, D!Idle
  <2>4. PollInv'
    BY <1>3, <2>1, <2>2, <2>3 DEF PollInv, D!Due
  <2>. QED BY <1>4, <1>3, <2>1, <2>2, <2>3, <2>4
<1>8. CASE D!PollCompletes
  <2>0. poll # D!Idle /\ poll.phase = "done"
    BY <1>8 DEF D!PollCompletes, D!Idle
  <2>1. calm' = IF poll.clean /\ poll.timed THEN IF calm + 1 <= Floor THEN calm + 1 ELSE Floor ELSE calm
    BY <1>8, <1>f, SmallerOfTwo DEF D!PollCompletes, DiscoveryType
  <2>2. DiscoveryType'
    <3>1. poll \in Poll /\ poll' = D!Idle
      BY <1>8, <2>0 DEF D!PollCompletes, DiscoveryType
    <3>2. age' \in 0..Floor /\ calm' \in 0..Floor
      BY <1>8, <1>f, <2>1, <3>1 DEF D!PollCompletes, D!Digest, DiscoveryType, Poll
    <3>3. identifyNext' \in BOOLEAN /\ moved' \in BOOLEAN
      BY <1>8 DEF D!PollCompletes, D!Digest, DiscoveryType
    <3>. QED BY <3>1, <3>2, <3>3 DEF DiscoveryType
  <2>3. PollInv'
    BY <1>8 DEF D!PollCompletes, PollInv
  <2>4. poll.clean => poll.listed # Nothing /\ (poll.identify => endpoints' = D!Answering(serving))
    BY <1>8, <2>0, SectionsTell DEF D!PollCompletes, D!Digest, PollInv
  <2>5. SeekInv'
    <3>. SUFFICES ASSUME calm' > 0, ~Found'
                  PROVE  /\ moved' => calm' = 1 /\ identifyNext'
                         /\ calm' < Floor /\ age' >= calm'
      BY <1>8 DEF SeekInv, D!PollCompletes, D!Idle
    <3>1. poll.clean
      BY <2>0, <2>1 DEF PollInv, DiscoveryType, Poll
    <3>2. ~poll.identify /\ endpoints' = endpoints /\ serving' = serving /\ age' = age
      BY <1>8, <2>0, <2>4, <3>1 DEF D!PollCompletes, D!Digest, Found, D!Answering, DiscoveryType, Poll
    <3>3. ~Found /\ ~identifyNext /\ age < Floor
      BY <1>f, <2>0, <3>2 DEF Found, D!Answering, PollInv, D!Due, DiscoveryType, Poll
    <3>4. CASE calm = 0
      <4>1. poll.timed /\ calm' = 1
        BY <2>1, <3>1, <3>4, <1>f DEF DiscoveryType
      <4>2. age >= 1
        <5>1. age > 0 /\ age \in Nat
          BY <2>0, <4>1 DEF PollInv, DiscoveryType
        <5>. QED BY <5>1
      <4>. QED BY <1>8, <2>4, <3>1, <3>2, <4>1, <4>2, <1>f, <3>4 DEF D!PollCompletes, D!Digest
    <3>5. CASE calm > 0
      <4>1. ~moved /\ moved' = moved
        BY <1>8, <3>3, <3>5 DEF SeekInv, D!PollCompletes
      <4>2. age >= IF poll.timed THEN calm + 1 ELSE calm
        BY <2>0, <3>3, <3>5 DEF SeekInv
      <4>. QED BY <1>f, <2>1, <3>1, <3>2, <3>3, <4>1, <4>2 DEF DiscoveryType, Poll
    <3>. QED BY <3>4, <3>5 DEF DiscoveryType
  <2>. QED BY <2>2, <2>3, <2>5
<1>9. CASE D!PollCut
  <2>1. PICK ports, servers : D!Digest(ports, servers)
    BY <1>9 DEF D!PollCut
  <2>2. poll # D!Idle
    BY <1>9 DEF D!PollCut, D!Idle
  <2>3. DiscoveryType'
    <3>1. poll \in Poll /\ poll' = D!Idle
      BY <1>9, <2>2 DEF D!PollCut, DiscoveryType
    <3>2. age' \in 0..Floor /\ calm' \in 0..Floor
      BY <1>9, <1>f, <2>1, <3>1 DEF D!PollCut, D!Digest, DiscoveryType, Poll
    <3>3. identifyNext' \in BOOLEAN /\ moved' \in BOOLEAN
      BY <1>9, <2>1 DEF D!PollCut, D!Digest, DiscoveryType
    <3>. QED BY <3>1, <3>2, <3>3 DEF DiscoveryType
  <2>. QED BY <1>9, <2>3 DEF D!PollCut, PollInv, SeekInv
<1>10. CASE D!PollFails
  <2>1. DiscoveryType' /\ PollInv'
    BY <1>10 DEF D!PollFails, DiscoveryType, PollInv
  <2>2. SeekInv'
    BY <1>10, <1>f DEF D!PollFails, SeekInv, Found, D!Answering, DiscoveryType
  <2>. QED BY <2>1, <2>2
<1>. QED BY <1>1, <1>2, <1>5, <1>6, <1>7, <1>8, <1>9, <1>10 DEF D!Next

\* What Discovery keeps holds in every behaviour in which it moves.
LEMMA DiscoveryInvariance == Spec => [](part = "discovery" => DiscoveryInv)
<1>1. Init => (part = "discovery" => DiscoveryInv)
  BY DiscoveryInit DEF Init
<1>2. (part = "discovery" => DiscoveryInv) /\ [Next]_vars => (part = "discovery" => DiscoveryInv)'
  <2>. SUFFICES ASSUME part = "discovery" => DiscoveryInv, [Next]_vars, part' = "discovery"
                PROVE  DiscoveryInv'
    OBVIOUS
  <2>1. CASE Next
    BY <2>1, DiscoveryNext DEF Next
  <2>2. CASE UNCHANGED vars
    BY <2>2 DEF vars, discoveryVars, DiscoveryInv, DiscoveryType, PollInv, SeekInv, Found, D!Due, D!Listening, D!Answering
  <2>. QED BY <2>1, <2>2
<1>. QED BY <1>1, <1>2, PTL DEF Spec

\* What is scraped is what answers (node.ts:433, 470): two whole polls after a change that shows in
\* the listening ports, and within the floor after any other.
THEOREM FoundInTimeHolds == Spec => []FoundInTime
<1>1. (part = "discovery" => DiscoveryInv) => FoundInTime
  <2>. SUFFICES ASSUME DiscoveryInv, poll = D!Idle, calm >= (IF moved THEN 2 ELSE Floor) PROVE Found
    BY DEF FoundInTime, D!FoundInTime, Found
  <2>. QED BY PollsAssumption DEF D!DiscoveryAssumption, DiscoveryInv, DiscoveryType, SeekInv
<1>. QED BY <1>1, DiscoveryInvariance, PTL

\* A server that answers is no longer scraped only after a poll that was cut, or that a change
\* overtook (node.ts:477-488).
THEOREM KeptWhileAnsweringHolds == Spec => KeptWhileAnswering
<1>1. (part = "discovery" => DiscoveryInv) /\ [Next]_vars
        => [part = "discovery" => D!KeptWhileAnsweringStep]_<<part, discoveryVars>>
  <2>. SUFFICES ASSUME DiscoveryInv, part = "discovery", Next, ~D!PollCut, poll.clean
                PROVE  (endpoints \ endpoints') \cap D!Answering(serving) = {}
    BY DEF D!KeptWhileAnsweringStep, vars
  <2>1. D!Next
    BY DEF Next
  <2>2. CASE D!PollCompletes
    <3>1. poll # D!Idle /\ poll.phase = "done" /\ D!Digest(poll.listed, poll.found)
      BY <2>2 DEF D!PollCompletes, D!Idle
    <3>2. CASE poll.identify
      BY <3>1, <3>2, SectionsTell DEF D!Digest, DiscoveryInv, PollInv
    <3>3. CASE ~poll.identify
      BY <3>1, <3>3 DEF D!Digest
    <3>. QED BY <3>2, <3>3
  <2>3. CASE ~D!PollCompletes
    <3>1. endpoints' = endpoints
      BY <2>1, <2>3 DEF D!Next, D!Change, D!BeginPoll, D!ProbeLists, D!ProbeIdentifies, D!ProbeEnds,
        D!PollFails, D!collector
    <3>. QED BY <3>1
  <2>. QED BY <2>2, <2>3
<1>. QED BY <1>1, DiscoveryInvariance, PTL DEF Spec, KeptWhileAnswering

-----------------------------------------------------------------------------
(* FabricRates. *)

Reading == F!Sample \cup {Undefined}

FabricType ==
  /\ life \in F!Happened /\ port \in F!Happened /\ portClock \in Int
  /\ carrier \in BOOLEAN /\ reloads \in Nat
  /\ prev \in [F!Kinds -> Reading]

\* An earlier reading tells at least what its counter had counted by then of what it has
\* counted by now: a counter forgets at a reload only, and then everything.
Told(s, counted, truth) ==
  s.source \in F!Counters =>
    /\ s.told <= F!Counts(s.source, truth)
    /\ s.value >= F!Counts(s.source, counted) + s.told - F!Counts(s.source, truth)
ToldInv == \A kind \in F!Kinds : prev[kind] # Undefined => Told(prev[kind], port, life)

\* After a whole poll the readings are those of that poll.
WholeReading(kind) ==
  [t |-> portClock, source |-> F!CounterOf(kind), value |-> F!Counts(F!CounterOf(kind), port),
   told |-> F!Counts(F!CounterOf(kind), life)]
WholeInv == cut = 2 * F!Cte => \A kind \in F!Kinds : prev[kind] = WholeReading(kind)

FabricInv == FabricType /\ ToldInv /\ WholeInv

\* Every counter counts in whole numbers, nothing at first, and what happened later on top.
LEMMA CountsAdd ==
  ASSUME NEW counter \in F!Counters, NEW a \in F!Happened, NEW b \in F!Happened
  PROVE  /\ F!Counts(counter, a) \in Nat /\ F!Counts(counter, F!NoneYet) = 0
         /\ F!Counts(counter, F!And(a, b)) = F!Counts(counter, a) + F!Counts(counter, b)
<1>1. /\ a.rdma \in Nat /\ a.tcp \in Nat /\ a.cast \in Nat /\ a.faults \in Nat
      /\ b.rdma \in Nat /\ b.tcp \in Nat /\ b.cast \in Nat /\ b.faults \in Nat
  BY DEF F!Happened
<1>2. CASE counter = "rdmaVport"
  BY <1>1, <1>2 DEF F!Counts, F!And, F!NoneYet, F!IbWordBytes
<1>3. CASE counter = "tcpVport"
  BY <1>1, <1>3 DEF F!Counts, F!And, F!NoneYet, F!IbWordBytes
<1>4. CASE counter = "kernel"
  BY <1>1, <1>4 DEF F!Counts, F!And, F!NoneYet, F!IbWordBytes
<1>5. CASE counter = "ib"
  BY <1>1, <1>5 DEF F!Counts, F!And, F!NoneYet, F!IbWordBytes
<1>6. CASE counter = "errors"
  BY <1>1, <1>6 DEF F!Counts, F!And, F!NoneYet, F!IbWordBytes
<1>. QED BY <1>2, <1>3, <1>4, <1>5, <1>6 DEF F!Counters

LEMMA FabricInit == ASSUME F!Init PROVE FabricInv
<1>1. F!NoneYet \in F!Happened /\ life \in F!Happened
  BY DEF F!Init, F!NoneYet, F!Happened
<1>2. prev \in [F!Kinds -> Reading] /\ \A kind \in F!Kinds : prev[kind] = Undefined
  BY DEF F!Init, Reading
<1>. QED BY <1>1, <1>2 DEF F!Init, FabricInv, FabricType, ToldInv, WholeInv, F!Cte

\* What happens on the port keeps its state well typed, and adds to every counter.
LEMMA TrafficAdds ==
  ASSUME FabricType, NEW new \in F!Happened, NEW reload \in BOOLEAN, F!Traffic(new, reload)
  PROVE  /\ life' \in F!Happened /\ port' \in F!Happened /\ reloads' \in Nat
         /\ reloads' = reloads => ~reload
         /\ \A counter \in F!Counters :
              /\ F!Counts(counter, life') = F!Counts(counter, new) + F!Counts(counter, life)
              /\ F!Counts(counter, port') = F!Counts(counter, new) + IF reload THEN 0 ELSE F!Counts(counter, port)
<1>1. F!NoneYet \in F!Happened
  BY DEF F!NoneYet, F!Happened
<1>2. ASSUME NEW a \in F!Happened, NEW b \in F!Happened PROVE F!And(a, b) \in F!Happened
  BY DEF F!And, F!Happened
<1>3. life \in F!Happened /\ port \in F!Happened /\ reloads \in Nat
  BY DEF FabricType
<1>4. /\ life' = F!And(new, life) /\ port' = F!And(new, IF reload THEN F!NoneYet ELSE port)
      /\ reloads' = IF reload THEN reloads + 1 ELSE reloads
  BY DEF F!Traffic
<1>5. life' \in F!Happened /\ port' \in F!Happened /\ reloads' \in Nat /\ (reloads' = reloads => ~reload)
  BY <1>1, <1>2, <1>3, <1>4
<1>6. ASSUME NEW counter \in F!Counters
      PROVE  /\ F!Counts(counter, life') = F!Counts(counter, new) + F!Counts(counter, life)
             /\ F!Counts(counter, port') = F!Counts(counter, new) + IF reload THEN 0 ELSE F!Counts(counter, port)
  <2>1. CASE reload
    BY <1>1, <1>3, <1>4, <2>1, CountsAdd
  <2>2. CASE ~reload
    BY <1>3, <1>4, <2>2, CountsAdd
  <2>. QED BY <2>1, <2>2
<1>. QED BY <1>5, <1>6

\* What an earlier reading tells stays true.
LEMMA TrafficKeeps ==
  ASSUME FabricType, NEW new \in F!Happened, NEW reload \in BOOLEAN, F!Traffic(new, reload),
         NEW s \in F!Sample, Told(s, port, life)
  PROVE  Told(s, port', life')
<1>. SUFFICES ASSUME s.source \in F!Counters
              PROVE  /\ s.told <= F!Counts(s.source, life')
                     /\ s.value >= F!Counts(s.source, port') + s.told - F!Counts(s.source, life')
  BY DEF Told
<1>1. PICK counter \in F!Counters : counter = s.source
  OBVIOUS
<1>2. PICK n, l, p : n = F!Counts(counter, new) /\ l = F!Counts(counter, life) /\ p = F!Counts(counter, port)
  OBVIOUS
<1>3. n \in Nat /\ l \in Nat /\ p \in Nat /\ s.told \in Nat /\ s.value \in Nat
  BY <1>2, CountsAdd DEF FabricType, F!Sample
<1>4. F!Counts(counter, life') = n + l /\ F!Counts(counter, port') = n + IF reload THEN 0 ELSE p
  BY <1>2, TrafficAdds
<1>5. s.told <= l /\ s.value >= p + s.told - l
  BY <1>1, <1>2 DEF Told
<1>. QED BY <1>1, <1>3, <1>4, <1>5

\* The instant of a poll is a number.
LEMMA InstantType ==
  ASSUME NEW cts \in Int, NEW cte \in Int, NEW at, at = F!CounterTs(cts, cte) \/ at = F!CounterTs(cts, Undefined)
  PROVE  at \in Int
BY DEF F!CounterTs

\* A reading as it is made: of its counter, or not there, or a part of it.
Faithful(s, at, counted, truth) ==
  /\ s \in F!Sample /\ s.t = at
  /\ s.source \in F!Counters => s.value = F!Counts(s.source, counted) /\ s.told = F!Counts(s.source, truth)

LEMMA ReadingFaithful ==
  ASSUME life' \in F!Happened, port' \in F!Happened, NEW at \in Int,
         NEW i, NEW counter \in F!Counters, NEW unit \in {1, 4}
  PROVE  /\ F!ReadingOf(i, at, counter, unit).source \in {counter, "part"}
         /\ F!ReadingOf(i, at, counter, unit) \in F!Sample /\ F!ReadingOf(i, at, counter, unit).t = at
         /\ ~F!Torn(i, cut') =>
              F!ReadingOf(i, at, counter, unit) =
                [t |-> at, source |-> counter, value |-> F!Counts(counter, port'), told |-> F!Counts(counter, life')]
         /\ F!ReadingOf(i, at, counter, unit).source # "part" =>
              /\ F!ReadingOf(i, at, counter, unit).value = F!Counts(counter, port')
              /\ F!ReadingOf(i, at, counter, unit).told = F!Counts(counter, life')
<1>1. F!Counts(counter, port') \in Nat /\ F!Counts(counter, life') \in Nat
  BY CountsAdd
<1>2. PICK p, l : p = F!Counts(counter, port') /\ l = F!Counts(counter, life')
  OBVIOUS
<1>3. (p \div (10 * unit)) * unit \in Nat
  <2>1. CASE unit = 1
    BY <1>1, <1>2, <2>1
  <2>2. CASE unit = 4
    BY <1>1, <1>2, <2>2
  <2>. QED BY <2>1, <2>2
<1>4. counter # "part"
  BY DEF F!Counters
<1>5. PICK cutOff : cutOff = (p \div (10 * unit)) * unit
  OBVIOUS
<1>6. F!ReadingOf(i, at, counter, unit) =
        IF F!Torn(i, cut') THEN [t |-> at, source |-> "part", value |-> cutOff, told |-> 0]
        ELSE [t |-> at, source |-> counter, value |-> p, told |-> l]
  BY <1>2, <1>5 DEF F!ReadingOf
<1>. QED BY <1>1, <1>2, <1>3, <1>4, <1>5, <1>6 DEF F!Sample

LEMMA PollFaithful ==
  ASSUME life' \in F!Happened, port' \in F!Happened, carrier' \in BOOLEAN, cut' \in F!Cuts, NEW at \in Int,
         NEW kind \in F!Kinds
  PROVE  Faithful(F!Reads(kind, at), at, port', life')
<1>. DEFINE now == F!Reads(kind, at)
<1>1. now = F!NotThere(at)
        \/ \E i \in Nat, counter \in F!Counters, unit \in {1, 4} : now = F!ReadingOf(i, at, counter, unit)
  BY DEF F!Kinds, F!Counters, F!Reads, F!RdmaSample, F!TcpSample, F!NetSample, F!TotalFaults,
    F!IbWordBytes, F!Net, F!Map, F!Ib, F!Errors, F!TcpVport, F!RdmaVport
<1>2. CASE now = F!NotThere(at)
  BY <1>2 DEF F!NotThere, Faithful, F!Sample, F!Counters
<1>3. ASSUME NEW i \in Nat, NEW counter \in F!Counters, NEW unit \in {1, 4}, now = F!ReadingOf(i, at, counter, unit)
      PROVE  Faithful(now, at, port', life')
  <2>1. /\ now.source \in {counter, "part"} /\ now \in F!Sample /\ now.t = at
        /\ now.source # "part" => now.value = F!Counts(counter, port') /\ now.told = F!Counts(counter, life')
    BY <1>3, ReadingFaithful
  <2>2. "part" \notin F!Counters
    BY DEF F!Counters
  <2>3. PICK s : s = now
    OBVIOUS
  <2>4. Faithful(s, at, port', life')
    BY <2>1, <2>2, <2>3 DEF Faithful
  <2>. QED BY <2>3, <2>4
<1>. QED BY <1>1, <1>2, <1>3

\* A whole poll reads the counter it should.
LEMMA WholePollReads ==
  ASSUME life' \in F!Happened, port' \in F!Happened, carrier' \in BOOLEAN, cut' = 2 * F!Cte,
         portClock' \in Int, NEW kind \in F!Kinds
  PROVE  F!Named(kind) /\ F!Reads(kind, portClock') = WholeReading(kind)'
<1>1. \A i \in 1..7 : F!HasPart(i, cut') /\ (i # 7 => ~F!Torn(i, cut'))
  BY DEF F!HasPart, F!Torn, F!Cte
<1>2. F!Named(kind)
  BY <1>1 DEF F!Named, F!Net, F!Map
<1>3. ASSUME NEW i \in 1..6, NEW counter, NEW unit
      PROVE  F!ReadingOf(i, portClock', counter, unit) =
               [t |-> portClock', source |-> counter, value |-> F!Counts(counter, port'), told |-> F!Counts(counter, life')]
  BY <1>1 DEF F!ReadingOf
<1>. DEFINE counter == F!CounterOf(kind)'
<1>4. F!Reads(kind, portClock') =
        [t |-> portClock', source |-> counter, value |-> F!Counts(counter, port'), told |-> F!Counts(counter, life')]
  <2>1. CASE kind = "rdma"
    BY <1>1, <1>3, <2>1 DEF F!Reads, F!RdmaSample, F!CounterOf, F!Ib, F!RdmaVport
  <2>2. CASE kind = "tcp"
    BY <1>1, <1>3, <2>2 DEF F!Reads, F!TcpSample, F!CounterOf, F!Net, F!Map, F!TcpVport
  <2>3. CASE kind = "net"
    BY <1>1, <1>3, <2>3 DEF F!Reads, F!NetSample, F!CounterOf, F!Net
  <2>4. CASE kind = "faults"
    BY <1>1, <1>3, <2>4 DEF F!Reads, F!TotalFaults, F!CounterOf, F!Errors
  <2>. QED BY <2>1, <2>2, <2>3, <2>4 DEF F!Kinds
<1>. QED BY <1>2, <1>4 DEF WholeReading

\* A step of FabricRates.
LEMMA PollStep ==
  ASSUME FabricInv, F!Next
  PROVE  \E new \in F!Happened, reload \in BOOLEAN :
           /\ F!Traffic(new, reload) /\ portClock' \in Int /\ cut' \in F!Cuts /\ carrier' \in BOOLEAN
           /\ prev' = [kind \in F!Kinds |-> IF F!Named(kind) THEN F!Reads(kind, portClock') ELSE prev[kind]]
<1>1. PICK new \in [{"rdma", "tcp", "cast", "faults"} -> 0..1], reload \in BOOLEAN, cts \in F!Time :
        /\ F!Traffic(new, reload) /\ cut' \in CutsTried /\ carrier' \in BOOLEAN
        /\ \E cte \in {cts - 1, cts + 2, cts} : F!Poll(cts, cte)
  BY DEF F!Next
<1>2. new \in F!Happened
  BY DEF F!Happened
<1>3. PICK cte \in {cts - 1, cts + 2, cts} : F!Poll(cts, cte)
  BY <1>1
<1>4. cts \in Int /\ cte \in Int
  BY DEF F!Time
<1>5. portClock' \in Int
  BY <1>3, <1>4, InstantType DEF F!Poll
<1>6. prev' = [kind \in F!Kinds |-> IF F!Named(kind) THEN F!Reads(kind, portClock') ELSE prev[kind]]
  BY <1>3 DEF F!Poll
<1>7. cut' \in F!Cuts
  BY <1>1, PollsAssumption DEF F!FabricAssumption
<1>. QED BY <1>1, <1>2, <1>5, <1>6, <1>7

LEMMA FabricNext == ASSUME FabricInv, F!Next PROVE FabricInv'
<1>1. PICK new \in F!Happened, reload \in BOOLEAN :
        /\ F!Traffic(new, reload) /\ portClock' \in Int /\ cut' \in F!Cuts /\ carrier' \in BOOLEAN
        /\ prev' = [kind \in F!Kinds |-> IF F!Named(kind) THEN F!Reads(kind, portClock') ELSE prev[kind]]
  BY PollStep
<1>2. FabricType
  BY DEF FabricInv
<1>3. life' \in F!Happened /\ port' \in F!Happened /\ reloads' \in Nat
  BY <1>1, <1>2, TrafficAdds
<1>4. \A kind \in F!Kinds : Faithful(F!Reads(kind, portClock'), portClock', port', life')
  BY <1>1, <1>3, PollFaithful
<1>5. FabricType'
  <2>1. \A kind \in F!Kinds : F!Reads(kind, portClock') \in F!Sample
    BY <1>4 DEF Faithful
  <2>2. prev' \in [F!Kinds -> Reading]
    BY <1>1, <1>2, <2>1 DEF FabricType, Reading
  <2>. QED BY <1>1, <1>3, <2>2 DEF FabricType
<1>6. ToldInv'
  <2>. SUFFICES ASSUME NEW kind \in F!Kinds, prev'[kind] # Undefined PROVE Told(prev'[kind], port', life')
    BY DEF ToldInv
  <2>1. CASE F!Named(kind)
    <3>1. PICK now : now = F!Reads(kind, portClock')
      OBVIOUS
    <3>2. prev'[kind] = now /\ Faithful(now, portClock', port', life')
      BY <1>1, <1>4, <2>1, <3>1
    <3>3. now.source \in F!Counters =>
            F!Counts(now.source, port') \in Nat /\ F!Counts(now.source, life') \in Nat
      BY <1>3, CountsAdd
    <3>4. Told(now, port', life')
      BY <1>3, <3>2, <3>3 DEF Faithful, Told
    <3>. QED BY <3>2, <3>4
  <2>2. CASE ~F!Named(kind)
    <3>1. PICK then : then = prev[kind]
      OBVIOUS
    <3>2. prev'[kind] = then /\ then \in F!Sample /\ Told(then, port, life)
      BY <1>1, <1>2, <2>2, <3>1 DEF FabricInv, FabricType, ToldInv, Reading
    <3>3. Told(then, port', life')
      BY <1>1, <1>2, <3>2, TrafficKeeps
    <3>. QED BY <3>2, <3>3
  <2>. QED BY <2>1, <2>2
<1>7. WholeInv'
  <2>. SUFFICES ASSUME cut' = 2 * F!Cte, NEW kind \in F!Kinds PROVE prev'[kind] = WholeReading(kind)'
    BY DEF WholeInv, F!Cte
  <2>. QED BY <1>1, <1>3, WholePollReads
<1>. QED BY <1>5, <1>6, <1>7 DEF FabricInv

\* What FabricRates keeps holds in every behaviour in which it moves.
LEMMA FabricInvariance == Spec => [](part = "fabric" => FabricInv)
<1>1. Init => (part = "fabric" => FabricInv)
  BY FabricInit DEF Init
<1>2. (part = "fabric" => FabricInv) /\ [Next]_vars => (part = "fabric" => FabricInv)'
  <2>. SUFFICES ASSUME part = "fabric" => FabricInv, [Next]_vars, part' = "fabric"
                PROVE  FabricInv'
    OBVIOUS
  <2>1. CASE Next
    BY <2>1, FabricNext DEF Next
  <2>2. CASE UNCHANGED vars
    BY <2>2 DEF vars, fabricVars, FabricInv, FabricType, ToldInv, Told, WholeInv, WholeReading, F!CounterOf
  <2>. QED BY <2>1, <2>2
<1>. QED BY <1>1, <1>2, PTL DEF Spec

\* What is shown of an interval is nothing, or the difference of two readings.
LEMMA ShowsDifference ==
  ASSUME NEW kind, NEW before, NEW now
  PROVE  \/ F!Shows(kind, before, now) = F!Nought
         \/ before # Undefined /\ F!Shows(kind, before, now) = F!Interval(before, now)
BY DEF F!Shows, F!RatePerSec, F!FaultsDelta

LEMMA NothingInvented ==
  ASSUME FabricInv, F!Next, NEW kind \in F!Kinds, F!Shown(kind).source \in F!Counters
  PROVE  F!Shown(kind).amount <= F!Shown(kind).really
<1>1. PICK new \in F!Happened, reload \in BOOLEAN :
        /\ F!Traffic(new, reload) /\ portClock' \in Int /\ cut' \in F!Cuts /\ carrier' \in BOOLEAN
        /\ prev' = [k \in F!Kinds |-> IF F!Named(k) THEN F!Reads(k, portClock') ELSE prev[k]]
  BY PollStep
<1>2. life' \in F!Happened /\ port' \in F!Happened
  BY <1>1, TrafficAdds DEF FabricInv
<1>3. PICK before, now : before = prev[kind] /\ now = F!Reads(kind, portClock')
  OBVIOUS
<1>4. F!Named(kind) /\ F!Shown(kind) = F!Shows(kind, before, now) /\ F!Shown(kind) # F!Nought
  BY <1>1, <1>3 DEF F!Shown, F!Nought, F!Counters
<1>5. before # Undefined /\ F!Shown(kind) = F!Interval(before, now)
  BY <1>4, ShowsDifference
<1>6. Faithful(now, portClock', port', life')
  BY <1>1, <1>2, <1>3, PollFaithful
<1>7. before \in F!Sample /\ Told(before, port', life')
  BY <1>1, <1>3, <1>5, TrafficKeeps DEF FabricInv, FabricType, ToldInv, Reading
<1>8. "mixed" \notin F!Counters
  BY DEF F!Counters
<1>9. PICK counter \in F!Counters : before.source = counter /\ now.source = counter
  BY <1>5, <1>8 DEF F!Interval
<1>10. PICK p, l : p = F!Counts(counter, port') /\ l = F!Counts(counter, life')
  OBVIOUS
<1>11. p \in Nat /\ l \in Nat /\ before.value \in Nat /\ before.told \in Nat
  BY <1>2, <1>7, <1>10, CountsAdd DEF F!Sample
<1>12. now.value = p /\ now.told = l
  BY <1>6, <1>9, <1>10 DEF Faithful
<1>13. before.value >= p + before.told - l
  BY <1>7, <1>9, <1>10 DEF Told
<1>14. F!Shown(kind).amount = p - before.value /\ F!Shown(kind).really = l - before.told
  BY <1>5, <1>9, <1>12 DEF F!Interval
<1>. QED BY <1>11, <1>13, <1>14

LEMMA NothingMissed ==
  ASSUME FabricInv, F!Next, NEW kind \in F!Kinds, F!Steady
  PROVE  F!Shown(kind).amount = F!Counts(F!CounterOf(kind), life') - F!Counts(F!CounterOf(kind), life)
<1>1. PICK new \in F!Happened, reload \in BOOLEAN :
        /\ F!Traffic(new, reload) /\ portClock' \in Int /\ cut' \in F!Cuts /\ carrier' \in BOOLEAN
        /\ prev' = [k \in F!Kinds |-> IF F!Named(k) THEN F!Reads(k, portClock') ELSE prev[k]]
  BY PollStep
<1>2. /\ cut = 2 * F!Cte /\ cut' = 2 * F!Cte /\ portClock' > portClock
      /\ carrier' = carrier /\ reloads' = reloads
  BY DEF F!Steady
<1>3. PICK counter : counter = F!CounterOf(kind)
  OBVIOUS
<1>4. counter \in F!Counters /\ counter = F!CounterOf(kind)'
  BY <1>2, <1>3 DEF F!CounterOf, F!Kinds, F!Counters
<1>5. PICK p, l, n : p = F!Counts(counter, port) /\ l = F!Counts(counter, life) /\ n = F!Counts(counter, new)
  OBVIOUS
<1>6. /\ life' \in F!Happened /\ port' \in F!Happened
      /\ F!Counts(counter, port') = n + p /\ F!Counts(counter, life') = n + l
  BY <1>1, <1>2, <1>4, <1>5, TrafficAdds DEF FabricInv
<1>7. n \in Nat /\ p \in Nat /\ l \in Nat
  BY <1>4, <1>5, CountsAdd DEF FabricInv, FabricType
<1>8. PICK before, now : before = prev[kind] /\ now = F!Reads(kind, portClock')
  OBVIOUS
<1>9. F!Named(kind) /\ now = [t |-> portClock', source |-> counter, value |-> n + p, told |-> n + l]
  BY <1>1, <1>2, <1>4, <1>6, <1>8, WholePollReads DEF WholeReading
<1>10. before = [t |-> portClock, source |-> counter, value |-> p, told |-> l]
  BY <1>2, <1>3, <1>5, <1>8 DEF FabricInv, WholeInv, WholeReading
<1>11. before # Undefined
  <2>1. before \in F!Sample
    BY <1>4, <1>7, <1>10 DEF F!Sample, FabricInv, FabricType
  <2>. QED BY <2>1, PollsAssumption DEF F!FabricAssumption
<1>12. now.value >= before.value /\ now.t > before.t
  BY <1>2, <1>7, <1>9, <1>10
<1>13. F!Shown(kind) = F!Shows(kind, before, now)
  BY <1>1, <1>8, <1>9 DEF F!Shown
<1>14. F!Shown(kind) = F!Interval(before, now)
  <2>1. portClock \in Int
    BY DEF FabricInv, FabricType
  <2>2. now.t \in Int /\ before.t \in Int /\ now.value \in Int /\ before.value \in Int
    BY <1>1, <1>7, <1>9, <1>10, <2>1
  <2>. QED BY <1>11, <1>12, <1>13, <2>2 DEF F!Shows, F!RatePerSec, F!FaultsDelta
<1>15. F!Shown(kind).amount = (n + p) - p
  BY <1>9, <1>10, <1>14 DEF F!Interval
<1>. QED BY <1>3, <1>5, <1>6, <1>7, <1>15

\* Between two readings of one counter no traffic and no fault is shown that the counter did not
\* count in between (node.ts:88), whatever was cut, reloaded or set back; and between two whole
\* polls by the same counters nothing is missed.  A difference of two counters, or of one and
\* what was taken for 0, is outside the statement.
THEOREM TrafficIsHonest == Spec => TrafficHonest
<1>1. (part = "fabric" => FabricInv) /\ [Next]_vars
        => [part = "fabric" => F!TrafficHonestStep]_<<part, fabricVars>>
  <2>. SUFFICES ASSUME FabricInv, part = "fabric", Next PROVE F!TrafficHonestStep
    BY DEF vars
  <2>1. F!Next
    BY DEF Next
  <2>2. F!NoPhantomTraffic
    BY <2>1, NothingInvented DEF F!NoPhantomTraffic
  <2>3. F!NothingUnseen
    BY <2>1, NothingMissed DEF F!NothingUnseen
  <2>. QED BY <2>2, <2>3 DEF F!TrafficHonestStep
<1>. QED BY <1>1, FabricInvariance, PTL DEF Spec, TrafficHonest

-----------------------------------------------------------------------------
(* ContainerUse. *)

UseInv ==
  /\ \A c \in DOMAIN listed : listed[c] = [measured |-> listed[c].measured, usesGpu |-> listed[c].usesGpu,
                                           vram |-> listed[c].vram]
  /\ U!UseHonest

LEMMA UseInit == ASSUME U!Init PROVE UseInv
BY DEF U!Init, UseInv, U!UseHonest, U!NothingCountedTwice, U!StaysPopulated

\* After a slow poll nothing is summed up, and measured is what the last stats to arrive measured.
LEMMA InventoryKeeps ==
  ASSUME NEW found, NEW stats, NEW drawing, NEW asked, U!Inventory(found, stats, drawing, asked)
  PROVE  UseInv'
<1>1. /\ DOMAIN listed' = found
      /\ \A c \in found : listed'[c] = [measured |-> c \in U!Measured(stats), usesGpu |-> FALSE, vram |-> 0]
  BY DEF U!Inventory, U!Fresh
<1>2. U!NothingCountedTwice'
  BY <1>1 DEF U!NothingCountedTwice
<1>3. U!StaysPopulated'
  <2>1. ASSUME lastStats' # Nothing, ~blank', NEW c \in found, c \in lastStats' PROVE c \in U!Measured(stats)
    BY <2>1 DEF U!Inventory, U!Measured
  <2>2. \A c \in found : listed'[c].measured = (c \in U!Measured(stats))
    BY <1>1
  <2>. QED BY <1>1, <2>1, <2>2 DEF U!StaysPopulated
<1>. QED BY <1>1, <1>2, <1>3 DEF UseInv, U!UseHonest

LEMMA UseNext == ASSUME UseInv, U!Next PROVE UseInv'
<1>1. CASE UNCHANGED <<listed, lastStats, blank, gpuShown>>
  BY <1>1 DEF UseInv, U!UseHonest, U!NothingCountedTwice, U!StaysPopulated
<1>2. CASE U!SlowPoll \/ U!SlowCut
  BY <1>2, InventoryKeeps DEF U!SlowPoll, U!SlowCut
<1>3. ASSUME NEW detailed \in BOOLEAN, U!FastPoll(detailed) PROVE UseInv'
  <2>1. /\ gpuShown' = U!Processes(detailed) /\ lastStats' = lastStats /\ blank' = blank
        /\ DOMAIN listed' = DOMAIN listed
    BY <1>3 DEF U!FastPoll, U!Attribute
  <2>2. ASSUME NEW c \in DOMAIN listed
        PROVE  /\ listed'[c] = [measured |-> listed'[c].measured, usesGpu |-> listed'[c].usesGpu,
                                vram |-> listed'[c].vram]
               /\ listed'[c].measured = listed[c].measured
               /\ listed'[c].vram = U!Cardinality({p \in DOMAIN gpuShown' : gpuShown'[p] = c})
    <3>1. PICK uses, sum : listed'[c] = [listed[c] EXCEPT !.usesGpu = uses, !.vram = sum]
                           /\ sum = U!Cardinality({p \in DOMAIN gpuShown' : gpuShown'[p] = c})
      BY <1>3, <2>1 DEF U!FastPoll, U!Attribute
    <3>2. listed[c] = [measured |-> listed[c].measured, usesGpu |-> listed[c].usesGpu, vram |-> listed[c].vram]
      BY DEF UseInv
    <3>3. PICK m, u, v : m = listed[c].measured /\ u = listed[c].usesGpu /\ v = listed[c].vram
      OBVIOUS
    <3>4. listed[c] = [measured |-> m, usesGpu |-> u, vram |-> v]
      BY <3>2, <3>3
    <3>5. listed'[c] = [[measured |-> m, usesGpu |-> u, vram |-> v] EXCEPT !.usesGpu = uses, !.vram = sum]
      BY <3>1, <3>4
    <3>6. listed'[c] = [measured |-> m, usesGpu |-> uses, vram |-> sum]
      BY <3>5
    <3>. QED BY <3>1, <3>3, <3>6
  <2>3. U!NothingCountedTwice'
    BY <2>1, <2>2 DEF U!NothingCountedTwice
  <2>4. U!StaysPopulated'
    <3>1. \A c \in DOMAIN listed : listed'[c].measured = listed[c].measured
      BY <2>2
    <3>. QED BY <2>1, <3>1 DEF U!StaysPopulated, UseInv, U!UseHonest
  <2>5. \A c \in DOMAIN listed' :
          listed'[c] = [measured |-> listed'[c].measured, usesGpu |-> listed'[c].usesGpu, vram |-> listed'[c].vram]
    BY <2>1, <2>2
  <2>. QED BY <2>3, <2>4, <2>5 DEF UseInv, U!UseHonest
<1>4. CASE U!FastWithoutGpu
  BY <1>4 DEF U!FastWithoutGpu, U!slow, UseInv, U!UseHonest, U!NothingCountedTwice, U!StaysPopulated
<1>. QED BY <1>1, <1>2, <1>3, <1>4
  DEF U!Next, U!Start, U!Stop, U!Begin, U!End, U!SlowFails, U!slow

\* What containers are said to use can be relied on: no allocation is counted twice (node.ts:942), and
\* one that the last stats to arrive measured stays measured (node.ts:448).
THEOREM UseIsHonest == Spec => []UseHonest
<1>1. Init => (part = "use" => UseInv)
  BY UseInit DEF Init
<1>2. (part = "use" => UseInv) /\ [Next]_vars => (part = "use" => UseInv)'
  <2>. SUFFICES ASSUME part = "use" => UseInv, [Next]_vars, part' = "use"
                PROVE  UseInv'
    OBVIOUS
  <2>1. CASE Next
    BY <2>1, UseNext DEF Next
  <2>2. CASE UNCHANGED vars
    BY <2>2 DEF vars, useVars, UseInv, U!UseHonest, U!NothingCountedTwice, U!StaysPopulated
  <2>. QED BY <2>1, <2>2
<1>3. (part = "use" => UseInv) => UseHonest
  BY DEF UseInv, UseHonest
<1>. QED BY <1>1, <1>2, <1>3, PTL DEF Spec

-----------------------------------------------------------------------------
(* InferenceRates. *)

Entry == [t : Int, tokens : Nat \cup {Undefined}, work : Nat, bare : BOOLEAN]

\* Of some numbers one is the least.
LEMMA LeastNumber ==
  ASSUME NEW S, S \subseteq Nat, S # {}
  PROVE  \E n \in S : \A m \in S : n <= m
<1>1. PICK n \in S : \A m \in S : <<m, n>> \notin OpToRel(<, Nat)
  <2>1. \E n \in S : \A m \in S : ~ (<<m, n>> \in OpToRel(<, Nat))
    BY NatLessThanWellFounded, WFMin
  <2>. QED BY <2>1
<1>2. \A m \in S : ~ (m < n)
  BY <1>1 DEF OpToRel
<1>. QED BY <1>2

\* Sliding a window keeps entries of the window and the new one, which is the last, and if there
\* is another the oldest is within the span.
LEMMA SlideFacts ==
  ASSUME NEW win \in Seq(Entry), NEW entry \in Entry, NEW span \in Nat, NEW out, out = R!Slide(win, entry, span)
  PROVE  /\ out \in Seq(Entry)
         /\ Len(out) \in Nat \ {0}
         /\ Len(out) > 1 => entry.t - out[1].t <= span
         /\ \A i \in 1..Len(out) : out[i] = entry \/ \E j \in 1..Len(win) : out[i] = win[j]
<1>. DEFINE all == Append(win, entry)
            last1 == Len(all)
            Kept(i) == i = Len(all) \/ entry.t - all[i].t <= span
            keeps == {i \in 1..Len(all) : Kept(i)}
<1>1. /\ all \in Seq(Entry) /\ Len(all) = Len(win) + 1 /\ Len(win) \in Nat
      /\ all[Len(all)] = entry
      /\ \A i \in 1..Len(win) : all[i] = win[i]
  BY AppendProperties, LenProperties
<1>. HIDE DEF all
<1>2. PICK k \in keeps : \A j \in keeps : k <= j
  <2>1. keeps \subseteq Nat /\ Len(all) \in keeps
    BY <1>1
  <2>. HIDE DEF keeps
  <2>. QED BY <2>1, LeastNumber
<1>. DEFINE keep == CHOOSE i \in 1..Len(all) :
                /\ i = Len(all) \/ entry.t - all[i].t <= span
                /\ \A j \in 1..(i - 1) : entry.t - all[j].t > span
<1>3. /\ keep \in 1..Len(all)
      /\ keep = Len(all) \/ entry.t - all[keep].t <= span
  <2>1. \A i \in 1..Len(all) : all[i].t \in Int /\ entry.t \in Int
    <3>1. \A i \in 1..Len(all) : all[i] \in Entry
      BY <1>1, ElementOfSeq
    <3>. QED BY <3>1 DEF Entry
  <2>2. \A j \in 1..(k - 1) : entry.t - all[j].t > span
    BY <1>1, <1>2, <2>1
  <2>. QED BY <1>2, <2>2
<1>. HIDE DEF keep
<1>4. out = SubSeq(all, keep, Len(all))
  BY DEF R!Slide, all, keep
<1>5. \A i \in keep..Len(all) : all[i] \in Entry
  BY <1>1, <1>3, ElementOfSeq
<1>6. /\ out \in Seq(Entry) /\ Len(out) = Len(all) - keep + 1
      /\ \A i \in 1..Len(out) : out[i] = all[keep + i - 1]
  <2>1. PICK m \in Int, n \in Int : m = keep /\ n = Len(all) /\ m <= n
    BY <1>1, <1>3
  <2>2. \A i \in m..n : all[i] \in Entry
    BY <1>5, <2>1
  <2>3. /\ SubSeq(all, m, n) \in Seq(Entry)
        /\ Len(SubSeq(all, m, n)) = IF m <= n THEN n - m + 1 ELSE 0
        /\ \A i \in 1..(n - m + 1) : SubSeq(all, m, n)[i] = all[m + i - 1]
    BY <2>2, SubSeqProperties
  <2>. QED BY <1>4, <2>1, <2>3
<1>7. Len(out) > 1 => entry.t - out[1].t <= span
  BY <1>1, <1>3, <1>6
<1>8. ASSUME NEW i \in 1..Len(out) PROVE out[i] = entry \/ \E j \in 1..Len(win) : out[i] = win[j]
  <2>1. keep + i - 1 \in 1..Len(all) /\ out[i] = all[keep + i - 1]
    BY <1>1, <1>3, <1>6
  <2>. QED BY <1>1, <2>1
<1>9. Len(out) \in Nat \ {0}
  BY <1>1, <1>3, <1>6
<1>. QED BY <1>6, <1>7, <1>8, <1>9

PrevEntry == [t : Int, tokens : Nat, work : Nat, bare : BOOLEAN]

RatesType ==
  /\ clock \in Int /\ engine \in Nat /\ work \in Nat /\ restarts \in Nat
  /\ tokenWindow \in Seq(Entry) /\ latencyWindow \in Seq(Entry)
  /\ prevInference \in PrevEntry \cup {Null}

\* An earlier count tells at least what the engine had generated by then of what its counter
\* says now: a counter forgets at a restart only, and then everything.
EntryTold(e) ==
  /\ e.work <= work
  /\ e.tokens # Undefined /\ ~e.bare => e.tokens + work >= engine + e.work
WindowTold(win) ==
  \A i \in 1..Len(win) : EntryTold(win[i]) /\ (win[i].bare => win[i].tokens = Undefined)
PrevTold(e) == e # Null => EntryTold(e) /\ (e.bare => e.tokens = 0)
LastInv ==
  last.scrape = "full" => /\ prevInference # Null /\ ~prevInference.bare
                          /\ prevInference.t = clock /\ prevInference.tokens = engine

RatesInv ==
  /\ RatesType /\ WindowTold(tokenWindow) /\ WindowTold(latencyWindow) /\ PrevTold(prevInference) /\ LastInv
  /\ R!RateHonest /\ R!RateKnown /\ R!BasisHonest

LEMMA RatesInit == ASSUME R!Init PROVE RatesInv
<1>1. RatesType /\ Len(tokenWindow) = 0 /\ Len(latencyWindow) = 0
  BY EmptySeq DEF R!Init, RatesType
<1>2. WindowTold(tokenWindow) /\ WindowTold(latencyWindow)
  BY <1>1 DEF WindowTold
<1>3. PrevTold(prevInference) /\ LastInv /\ R!RateHonest /\ R!RateKnown
  BY DEF R!Init, PrevTold, LastInv, R!RateHonest, R!RateKnown
<1>4. R!BasisHonest
  BY PollsAssumption DEF R!Init, R!BasisHonest, R!RatesAssumption
<1>. QED BY <1>1, <1>2, <1>3, <1>4 DEF RatesInv

\* The engine runs: what earlier entries tell stays true.
LEMMA RunsKeeps ==
  ASSUME engine \in Nat, work \in Nat, restarts \in Nat, NEW before \in Nat, NEW after \in Nat, NEW restarted \in BOOLEAN,
         R!Runs(before, after, restarted), restarted \/ before = 0
  PROVE  /\ engine' \in Nat /\ work' \in Nat /\ restarts' \in Nat
         /\ restarts' = restarts => work' - work = engine' - engine
         /\ \A e \in Entry \cup PrevEntry : EntryTold(e) => e.work <= work'
              /\ (e.tokens # Undefined /\ ~e.bare => e.tokens + work' >= engine' + e.work)
<1>1. /\ engine' = IF restarted THEN after ELSE engine + before + after
      /\ work' = work + before + after
      /\ restarts' = IF restarted THEN restarts + 1 ELSE restarts
  BY DEF R!Runs
<1>2. engine' \in Nat /\ work' \in Nat /\ restarts' \in Nat /\ (restarts' = restarts => work' - work = engine' - engine)
  BY <1>1
<1>3. ASSUME NEW e \in Entry \cup PrevEntry, EntryTold(e)
      PROVE  e.work <= work' /\ (e.tokens # Undefined /\ ~e.bare => e.tokens + work' >= engine' + e.work)
  <2>1. e.work \in Nat /\ (e.tokens # Undefined => e.tokens \in Nat)
    BY DEF Entry, PrevEntry
  <2>. QED BY <1>1, <1>3, <2>1 DEF EntryTold
<1>. QED BY <1>2, <1>3

\* A rate counts no more than was generated.
LEMMA RateFacts ==
  ASSUME NEW b, b \in Entry \cup PrevEntry \cup {Null}, NEW now \in Entry, engine' \in Nat, work' \in Nat,
         now.work = work', now.tokens # Undefined => now.tokens = engine',
         b # Null => /\ b.work <= work'
                     /\ b.tokens # Undefined /\ ~b.bare => b.tokens + work' >= engine' + b.work
                     /\ b.bare => b.tokens \in {0, Undefined},
         NEW r, r = R!Rate(b, now), r # Null
  PROVE  /\ 0 <= r.tokens
         /\ IF r.bare THEN r.tokens = engine' ELSE r.tokens <= r.real
<1>1. /\ b # Null /\ now.tokens # Undefined /\ b.tokens # Undefined /\ ~(now.tokens < b.tokens)
      /\ r = [tokens |-> now.tokens - b.tokens, real |-> now.work - b.work, bare |-> b.bare]
  BY DEF R!Rate
<1>2. b.tokens \in Nat /\ b.work \in Nat /\ now.tokens = engine'
  BY <1>1 DEF Entry, PrevEntry
<1>3. r.tokens = engine' - b.tokens /\ r.real = work' - b.work /\ r.bare = b.bare
  BY <1>1, <1>2
<1>. QED BY <1>1, <1>2, <1>3

\* A poll that scrapes nothing leaves the windows or empties them, and shows nothing.
LEMMA QuietPoll ==
  ASSUME RatesInv, NEW now \in Int, NEW scrape \in {"silent", "absent"}, R!Poll(now, scrape),
         engine' \in Nat /\ work' \in Nat /\ restarts' \in Nat,
         \A e \in Entry \cup PrevEntry : EntryTold(e) => e.work <= work'
              /\ (e.tokens # Undefined /\ ~e.bare => e.tokens + work' >= engine' + e.work)
  PROVE  RatesInv'
<1>. USE DEF RatesInv
<1>1. /\ clock' = now /\ shown' = [rate |-> Null, basis |-> Null]
      /\ last'.scrape = scrape /\ ~last'.steady
      /\ \/ tokenWindow' = tokenWindow /\ latencyWindow' = latencyWindow /\ prevInference' = prevInference
         \/ tokenWindow' = <<>> /\ latencyWindow' = <<>> /\ prevInference' = Null
  BY DEF R!Poll, R!Read, R!Forget, R!windows
<1>2. RatesType'
  BY <1>1, EmptySeq DEF RatesType
<1>3. WindowTold(tokenWindow)' /\ WindowTold(latencyWindow)' /\ PrevTold(prevInference)'
  <2>1. CASE tokenWindow' = <<>> /\ latencyWindow' = <<>> /\ prevInference' = Null
    <3>1. Len(tokenWindow') = 0 /\ Len(latencyWindow') = 0
      BY <2>1, EmptySeq
    <3>. QED BY <2>1, <3>1 DEF WindowTold, PrevTold
  <2>2. CASE tokenWindow' = tokenWindow /\ latencyWindow' = latencyWindow /\ prevInference' = prevInference
    <3>1. \A i \in 1..Len(tokenWindow) : tokenWindow[i] \in Entry
      BY ElementOfSeq DEF RatesType
    <3>2. \A i \in 1..Len(latencyWindow) : latencyWindow[i] \in Entry
      BY ElementOfSeq DEF RatesType
    <3>3. WindowTold(tokenWindow)'
      BY <2>2, <3>1 DEF WindowTold, EntryTold
    <3>4. WindowTold(latencyWindow)'
      BY <2>2, <3>2 DEF WindowTold, EntryTold
    <3>5. PrevTold(prevInference)'
      BY <2>2 DEF PrevTold, EntryTold, RatesType
    <3>. QED BY <3>3, <3>4, <3>5
  <2>. QED BY <1>1, <2>1, <2>2
<1>4. LastInv' /\ R!RateHonest' /\ R!RateKnown'
  BY <1>1 DEF LastInv, R!RateHonest, R!RateKnown
<1>5. R!BasisHonest'
  BY <1>1, PollsAssumption DEF R!BasisHonest, R!RatesAssumption
<1>. QED BY <1>2, <1>3, <1>4, <1>5

\* The window after a poll that was answered.
LEMMA SlideTold ==
  ASSUME NEW win \in Seq(Entry), WindowTold(win), NEW entry \in Entry, NEW span \in Nat,
         NEW out, out = R!Slide(win, entry, span),
         \A e \in Entry : EntryTold(e) => e.work <= work'
              /\ (e.tokens # Undefined /\ ~e.bare => e.tokens + work' >= engine' + e.work),
         entry.work = work', engine' \in Nat, work' \in Nat,
         entry.tokens # Undefined => entry.tokens = engine', entry.bare => entry.tokens = Undefined
  PROVE  WindowTold(out)'
<1>1. /\ out \in Seq(Entry) /\ Len(out) \in Nat
      /\ \A i \in 1..Len(out) : out[i] = entry \/ \E j \in 1..Len(win) : out[i] = win[j]
  BY SlideFacts
<1>2. ASSUME NEW i \in 1..Len(out)
      PROVE  /\ out[i].work <= work'
             /\ out[i].tokens # Undefined /\ ~out[i].bare => out[i].tokens + work' >= engine' + out[i].work
             /\ out[i].bare => out[i].tokens = Undefined
  <2>1. CASE out[i] = entry
    BY <2>1
  <2>2. CASE \E j \in 1..Len(win) : out[i] = win[j]
    <3>1. PICK j \in 1..Len(win) : out[i] = win[j]
      BY <2>2
    <3>2. win[j] \in Entry /\ EntryTold(win[j]) /\ (win[j].bare => win[j].tokens = Undefined)
      BY ElementOfSeq DEF WindowTold
    <3>. QED BY <3>1, <3>2
  <2>. QED BY <1>1, <2>1, <2>2
<1>. QED BY <1>2 DEF WindowTold, EntryTold

\* A poll that is answered.
LEMMA AnsweredPoll ==
  ASSUME RatesInv, NEW now \in Int, NEW scrape \in {"full", "bare"}, R!Poll(now, scrape),
         engine' \in Nat, work' \in Nat, restarts' \in Nat, restarts' = restarts => engine' >= engine,
         \A e \in Entry \cup PrevEntry : EntryTold(e) => e.work <= work'
              /\ (e.tokens # Undefined /\ ~e.bare => e.tokens + work' >= engine' + e.work)
  PROVE  RatesInv'
<1>. USE DEF RatesInv
<1>1. PICK entry, prior, tokens, latency :
        /\ entry = [t |-> now, tokens |-> IF scrape = "full" THEN engine' ELSE Undefined,
                    work |-> work', bare |-> scrape = "bare"]
        /\ prior = prevInference
        /\ tokens = R!Slide(tokenWindow, entry, TokenWindow)
        /\ latency = R!Slide(latencyWindow, entry, LatencyWindow)
  OBVIOUS
<1>2. /\ clock' = now /\ tokenWindow' = tokens /\ latencyWindow' = latency
      /\ prevInference' = [entry EXCEPT !.tokens = IF @ = Undefined THEN 0 ELSE @]
      /\ shown' = [rate |-> R!RateShown(tokens, entry), basis |-> R!Basis(latency, entry)]
      /\ last' = [scrape |-> scrape,
                  steady |-> last.scrape = "full" /\ scrape = "full" /\ now > clock /\ restarts' = restarts]
  BY <1>1 DEF R!Poll, R!Read
<1>3. /\ entry \in Entry /\ entry.t = now /\ entry.work = work' /\ entry.bare = (scrape = "bare")
      /\ entry.tokens = IF scrape = "full" THEN engine' ELSE Undefined
  BY <1>1 DEF Entry
<1>4. Undefined \notin Int /\ TokenWindow \in Nat /\ LatencyWindow \in Nat
  BY PollsAssumption DEF R!RatesAssumption
<1>5. /\ prevInference' = [t |-> now, tokens |-> IF scrape = "full" THEN engine' ELSE 0,
                           work |-> work', bare |-> scrape = "bare"]
      /\ prevInference' \in PrevEntry /\ prevInference' # Null
  <2>1. prevInference' = [t |-> now, tokens |-> IF scrape = "full" THEN engine' ELSE 0,
                          work |-> work', bare |-> scrape = "bare"]
    BY <1>1, <1>2, <1>4
  <2>2. prevInference' \in PrevEntry
    BY <2>1 DEF PrevEntry
  <2>3. prevInference' \in [t : Int, tokens : Int, work : Int, bare : BOOLEAN]
    BY <2>2 DEF PrevEntry
  <2>. QED BY <2>1, <2>2, <2>3, PollsAssumption DEF R!RatesAssumption
<1>6. /\ tokens \in Seq(Entry) /\ latency \in Seq(Entry)
      /\ Len(latency) > 1 => entry.t - latency[1].t <= LatencyWindow
  BY <1>1, <1>3, <1>4, SlideFacts DEF RatesType
<1>7. RatesType'
  BY <1>2, <1>5, <1>6 DEF RatesType
<1>8. WindowTold(tokens)' /\ WindowTold(latency)'
  <2>1. entry.tokens # Undefined => entry.tokens = engine'
    BY <1>3
  <2>2. entry.bare => entry.tokens = Undefined
    BY <1>3
  <2>. QED BY <1>1, <1>3, <1>4, <2>1, <2>2, SlideTold DEF RatesType
<1>9. PrevTold(prevInference)'
  <2>1. /\ prevInference'.work = work'
        /\ \/ prevInference'.bare = FALSE /\ prevInference'.tokens = engine'
           \/ prevInference'.bare = TRUE /\ prevInference'.tokens = 0
    <3>1. CASE scrape = "full"
      BY <1>5, <3>1
    <3>2. CASE scrape = "bare"
      BY <1>5, <3>2
    <3>. QED BY <3>1, <3>2
  <2>2. prevInference'.work <= work'
    BY <2>1
  <2>3. ~prevInference'.bare => prevInference'.tokens + work' >= engine' + prevInference'.work
    BY <2>1
  <2>4. prevInference'.bare => prevInference'.tokens = 0
    BY <2>1
  <2>. QED BY <2>2, <2>3, <2>4 DEF PrevTold, EntryTold
<1>10. LastInv'
  <2>1. /\ prevInference'.t = now /\ prevInference'.bare = (scrape = "bare")
        /\ prevInference'.tokens = IF scrape = "full" THEN engine' ELSE 0
        /\ last'.scrape = scrape /\ clock' = now
    BY <1>2, <1>5
  <2>. QED BY <1>5, <2>1 DEF LastInv
\* What an entry of a window, or the reading before, says.
<1>11. ASSUME NEW win \in Seq(Entry), WindowTold(win)', NEW b, b = R!Base(win), b # Null
       PROVE  /\ Len(win) > 1 /\ b = win[1] /\ b \in Entry /\ b.work <= work'
              /\ b.tokens # Undefined /\ ~b.bare => b.tokens + work' >= engine' + b.work
              /\ b.bare => b.tokens = Undefined
  <2>1. Len(win) > 1 /\ b = win[1]
    BY <1>11 DEF R!Base
  <2>2. Len(win) \in Nat /\ 1 \in 1..Len(win)
    BY <2>1, LenProperties
  <2>3. b \in Entry
    BY <2>1, <2>2, ElementOfSeq
  <2>. QED BY <1>11, <2>1, <2>2, <2>3 DEF WindowTold, EntryTold
<1>12. prior # Null => /\ prior \in PrevEntry /\ prior.work <= work'
                       /\ prior.tokens # Undefined /\ ~prior.bare => prior.tokens + work' >= engine' + prior.work
                       /\ prior.bare => prior.tokens = 0
  BY <1>1 DEF PrevTold, RatesType
<1>13. R!RateHonest'
  <2>1. PICK first : first = R!Base(tokens)
    OBVIOUS
  <2>2. shown'.rate = IF R!Rate(first, entry) # Null THEN R!Rate(first, entry) ELSE R!Rate(prior, entry)
    BY <1>1, <1>2, <2>1 DEF R!RateShown
  <2>3. PICK b \in {first, prior} : shown'.rate = R!Rate(b, entry)
    BY <2>2
  <2>4. /\ b \in Entry \cup PrevEntry \cup {Null}
        /\ b # Null => /\ b.work <= work'
                       /\ b.tokens # Undefined /\ ~b.bare => b.tokens + work' >= engine' + b.work
                       /\ b.bare => b.tokens \in {0, Undefined}
    BY <1>6, <1>8, <1>11, <1>12, <2>1, <2>3
  <2>5. PICK r : r = shown'.rate
    OBVIOUS
  <2>6. r # Null => 0 <= r.tokens /\ IF r.bare THEN r.tokens = engine' ELSE r.tokens <= r.real
    BY <1>3, <2>3, <2>4, <2>5, RateFacts
  <2>. QED BY <2>5, <2>6 DEF R!RateHonest
<1>14. R!RateKnown'
  <2>. SUFFICES ASSUME last'.steady PROVE R!RateShown(tokens, entry) # Null
    BY <1>2 DEF R!RateKnown
  <2>1. last.scrape = "full" /\ scrape = "full" /\ now > clock /\ restarts' = restarts
    BY <1>2
  <2>2. prior # Null /\ prior.t = clock /\ prior.tokens = engine
    BY <1>1, <2>1 DEF LastInv
  <2>3. entry.tokens = engine' /\ engine' >= engine /\ entry.t = now
    BY <1>3, <2>1
  <2>4. R!Rate(prior, entry) = [tokens |-> entry.tokens - prior.tokens,
                                real |-> entry.work - prior.work, bare |-> prior.bare]
    BY <1>4, <2>1, <2>2, <2>3 DEF R!Rate, RatesType
  <2>5. R!Rate(prior, entry) \in [tokens : Int, real : Int, bare : BOOLEAN]
    <3>1. prior.tokens \in Int /\ prior.work \in Int /\ prior.bare \in BOOLEAN /\ entry.tokens \in Int /\ entry.work \in Int
      BY <1>3, <1>12, <2>2, <2>3 DEF PrevEntry
    <3>. QED BY <2>4, <3>1
  <2>6. R!Rate(prior, entry) # Null
    BY <2>5, PollsAssumption DEF R!RatesAssumption
  <2>. QED BY <1>1, <2>6 DEF R!RateShown
<1>15. R!BasisHonest'
  <2>. SUFFICES ASSUME R!Basis(latency, entry) = "window"
                PROVE  now - latency[1].t <= LatencyWindow /\ work' > latency[1].work
    BY <1>2 DEF R!BasisHonest
  <2>1. PICK b : b = R!Base(latency)
    OBVIOUS
  <2>2. b # Null /\ entry.tokens # Undefined /\ b.tokens # Undefined /\ entry.tokens > b.tokens
    BY <2>1, PollsAssumption DEF R!Basis, R!IntervalMean, R!RatesAssumption
  <2>3. /\ Len(latency) > 1 /\ b = latency[1] /\ b \in Entry /\ ~b.bare
        /\ b.tokens + work' >= engine' + b.work
    BY <1>6, <1>8, <1>11, <2>1, <2>2
  <2>4. b.tokens \in Nat /\ b.work \in Nat /\ entry.tokens = engine'
    BY <1>3, <2>2, <2>3 DEF Entry
  <2>. QED BY <1>3, <1>6, <2>2, <2>3, <2>4
<1>. QED BY <1>2, <1>7, <1>8, <1>9, <1>10, <1>13, <1>14, <1>15

LEMMA RatesNext == ASSUME RatesInv, R!Next PROVE RatesInv'
<1>1. PICK now \in Int, scrape \in R!Scrapes, before \in Nat, after \in Nat, restarted \in BOOLEAN :
        R!Runs(before, after, restarted) /\ (restarted \/ before = 0) /\ R!Poll(now, scrape)
  <2>1. R!Time \subseteq Int /\ \A k \in Int : 0..k \subseteq Nat
    BY DEF R!Time
  <2>2. MaxTokens \in Int /\ work \in Int
    BY PollsAssumption DEF R!RatesAssumption, RatesInv, RatesType
  <2>3. PICK now \in Int, scrape \in R!Scrapes, after \in 0..(MaxTokens - work) :
          \/ R!Runs(0, after, FALSE) /\ R!Poll(now, scrape)
          \/ \E before \in 0..(MaxTokens - work - after) : R!Runs(before, after, TRUE) /\ R!Poll(now, scrape)
    BY <2>1 DEF R!Next
  <2>4. after \in Nat /\ 0..(MaxTokens - work - after) \subseteq Nat
    BY <2>2
  <2>. QED BY <2>3, <2>4
<1>2. engine \in Nat /\ work \in Nat /\ restarts \in Nat
  BY DEF RatesInv, RatesType
<1>3. /\ engine' \in Nat /\ work' \in Nat /\ restarts' \in Nat
      /\ restarts' = restarts => work' - work = engine' - engine
      /\ \A e \in Entry \cup PrevEntry : EntryTold(e) => e.work <= work'
           /\ (e.tokens # Undefined /\ ~e.bare => e.tokens + work' >= engine' + e.work)
  BY <1>1, <1>2, RunsKeeps
<1>4. restarts' = restarts => engine' >= engine
  <2>1. work' >= work
    BY <1>1, <1>2 DEF R!Runs
  <2>. QED BY <1>2, <1>3, <2>1
<1>5. CASE scrape \in {"silent", "absent"}
  BY <1>1, <1>3, <1>5, QuietPoll
<1>6. CASE scrape \in {"full", "bare"}
  BY <1>1, <1>3, <1>4, <1>6, AnsweredPoll
<1>. QED BY <1>1, <1>5, <1>6 DEF R!Scrapes

\* A rate counts no tokens that were not generated in its interval, two scrapes with counters give
\* one, and a latency said to be of the window is (node.ts:734, 779; types.ts:438).
THEOREM RateIsHonest == Spec => []RateHonest
<1>1. Init => (part = "rates" => RatesInv)
  BY RatesInit DEF Init
<1>2. (part = "rates" => RatesInv) /\ [Next]_vars => (part = "rates" => RatesInv)'
  <2>. SUFFICES ASSUME part = "rates" => RatesInv, [Next]_vars, part' = "rates"
                PROVE  RatesInv'
    OBVIOUS
  <2>1. CASE Next
    BY <2>1, RatesNext DEF Next
  <2>2. CASE UNCHANGED vars
    BY <2>2 DEF vars, ratesVars, RatesInv, RatesType, WindowTold, EntryTold, PrevTold, LastInv,
      R!RateHonest, R!RateKnown, R!BasisHonest
  <2>. QED BY <2>1, <2>2
<1>3. (part = "rates" => RatesInv) => RateHonest
  BY DEF RatesInv, RateHonest
<1>. QED BY <1>1, <1>2, <1>3, PTL DEF Spec

=============================================================================
