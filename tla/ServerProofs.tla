----------------------------- MODULE ServerProofs -----------------------------
(***************************************************************************)
(* Proofs about the parts of Server that tell: the analysis of what the    *)
(* nodes measure and the jobs of the cluster, checks for updates, and the  *)
(* feed to a page; for any nodes, containers, images, commits, series and  *)
(* capacities.                                                             *)
(***************************************************************************)
EXTENDS Server, SequenceTheorems, WellFoundedInduction, TLAPS

\* What is not true of every number is not true of a least one.
LEMMA LeastNumber ==
  ASSUME NEW Numbers, Numbers \subseteq Nat, Numbers # {}
  PROVE  \E n \in Numbers : \A m \in Numbers : n <= m
<1>1. PICK n \in Numbers : \A m \in Numbers : <<m, n>> \notin OpToRel(<, Nat)
  <2>1. \E n \in Numbers : \A m \in Numbers : ~ (<<m, n>> \in OpToRel(<, Nat))
    BY NatLessThanWellFounded, WFMin
  <2>. QED BY <2>1
<1>2. \A m \in Numbers : ~ (m < n)
  BY <1>1 DEF OpToRel
<1>. QED BY <1>2

-----------------------------------------------------------------------------
(* Analysis. *)

LEMMA InputFacts ==
  ASSUME NEW in \in A!Inputs, NEW n \in A!InList(in)
  PROVE  n \in Nodes /\ n \in Int /\ in.snap[n] \in Polled[n]
<1>0. PICK list \in Lists :
        in \in {[list |-> list, snap |-> s] :
                 s \in {f \in [{list[k] : k \in 1..Len(list)} -> UNION {Polled[m] : m \in Nodes}] :
                          \A m \in DOMAIN f : f[m] \in Polled[m]}}
  BY DEF A!Inputs
<1>1. PICK newest \in [{list[k] : k \in 1..Len(list)} -> UNION {Polled[m] : m \in Nodes}] :
        /\ in = [list |-> list, snap |-> newest]
        /\ \A m \in DOMAIN newest : newest[m] \in Polled[m]
  BY <1>0
<1>2. in.list = list /\ in.snap = newest
  BY <1>1
<1>3. PICK k \in 1..Len(list) : n = list[k]
  BY <1>2 DEF A!InList
<1>4. list \in Seq(Nodes) /\ Nodes \subseteq Int
  BY ServerAssumption DEF A!AnalysisAssumption
<1>5. n \in Nodes
  BY <1>3, <1>4
<1>6. n \in DOMAIN newest
  BY <1>3
<1>. QED BY <1>1, <1>2, <1>4, <1>5, <1>6

\* A warning about a reading is one of the set exactly when it is raised.
LEMMA ReadingWarned ==
  ASSUME NEW in, NEW active, NEW n \in A!Online(in), NEW k \in A!Kind
  PROVE  <<k, n>> \in A!Warnings(in, active) <=> k \in A!Raised(in, n, active)
<1>1. n \in A!InList(in)
  BY DEF A!Online
<1>2. ASSUME k \in A!Raised(in, n, active)
      PROVE  <<k, n>> \in A!Warnings(in, active)
  <2>1. <<k, n>> \in A!NodeWarnings(in, n, active)
    BY <1>2 DEF A!NodeWarnings
  <2>. QED BY <2>1, <1>1 DEF A!Warnings
<1>3. ASSUME <<k, n>> \in A!Warnings(in, active)
      PROVE  k \in A!Raised(in, n, active)
  <2>1. k \notin {"link-faults", "link-slow", "error", "offline"}
    BY DEF A!Kind
  <2>2. PICK w, L : w = <<k, n>> /\ L = A!LinkWarnings(A!Paired(in))
    OBVIOUS
  <2>3. PICK m \in A!InList(in) : <<k, n>> \in A!NodeWarnings(in, m, active)
    <3>1. w \notin L
      BY <2>1, <2>2 DEF A!LinkWarnings
    <3>2. w \in (UNION {A!NodeWarnings(in, m, active) : m \in A!InList(in)}) \cup L
      BY <1>3, <2>2 DEF A!Warnings
    <3>3. w \in UNION {A!NodeWarnings(in, m, active) : m \in A!InList(in)}
      BY <3>1, <3>2
    <3>4. \E m \in A!InList(in) : w \in A!NodeWarnings(in, m, active)
      BY <3>3
    <3>. QED BY <2>2, <3>4
  <2>4. CASE m \in A!Online(in)
    <3>1. \A c : <<k, n>> # <<"nccl-tcp", m, c>>
      OBVIOUS
    <3>2. <<k, n>> \in {<<j, m>> : j \in A!Raised(in, m, active)}
      BY <2>3, <2>4, <3>1 DEF A!NodeWarnings
    <3>. QED BY <3>2
  <2>5. CASE m \notin A!Online(in)
    BY <2>1, <2>3, <2>5 DEF A!NodeWarnings
  <2>. QED BY <2>4, <2>5
<1>. QED BY <1>2, <1>3

\* A reading has to pass on to raise its warning, and to fall back below off to clear it.
LEMMA NoFlapNext == ASSUME A!Next PROVE A!NoFlapStep
<1>1. PICK in \in A!Inputs : input' = in /\ activeWarnings' = A!Warnings(in, activeWarnings)
  BY DEF A!Next, A!Build
<1>. SUFFICES ASSUME NEW n \in A!Online(in), NEW k \in A!Kind
     PROVE  /\ <<k, n>> \in activeWarnings' \ activeWarnings => in.snap[n].level[k] = "high"
            /\ <<k, n>> \in activeWarnings \ activeWarnings' =>
                 in.snap[n].level[k] \in {"absent", "low"} \/ (k = "gpu-clock" /\ ~in.snap[n].suspect)
  BY <1>1 DEF A!NoFlapStep
<1>2. in.snap[n].level[k] \in {"absent", "low", "mid", "high"}
  BY InputFacts, ServerAssumption DEF A!Online, A!AnalysisAssumption
<1>3. <<k, n>> \in activeWarnings' <=> k \in A!Raised(in, n, activeWarnings)
  BY <1>1, ReadingWarned
<1>. QED BY <1>2, <1>3 DEF A!Raised, A!Crosses

\* Warnings do not flap, for any nodes and any snapshots of them.
THEOREM WarningsDoNotFlap == Spec => NoFlap
<1>1. [Next]_vars => [part = "analysis" => A!NoFlapStep]_<<part, analysisVars>>
  <2>. SUFFICES ASSUME [Next]_vars
       PROVE  (part = "analysis" => A!NoFlapStep) \/ UNCHANGED <<part, analysisVars>>
    OBVIOUS
  <2>1. CASE Next
    BY <2>1, NoFlapNext DEF Next
  <2>2. CASE UNCHANGED vars
    BY <2>2 DEF vars
  <2>. QED BY <2>1, <2>2
<1>. QED BY <1>1, PTL DEF Spec, NoFlap

\* What the id of a link says: its ends in the order of their nodes.
Id(id) ==
  /\ id = <<id[1], id[2], id[3], id[4]>>
  /\ id[1] \in Int /\ id[3] \in Int /\ id[1] < id[3]
Ends(id) == {<<id[1], id[2]>>, <<id[3], id[4]>>}

\* Two ports are the ends of one link at most.
LEMMA IdIsItsEnds ==
  ASSUME NEW x, NEW y, Id(x), Id(y), Ends(x) = Ends(y)
  PROVE  x = y
<1>1. <<x[1], x[2]>> \in Ends(y) /\ <<x[3], x[4]>> \in Ends(y)
  BY DEF Ends
<1>2. \/ x[1] = y[1] /\ x[2] = y[2]
      \/ x[1] = y[3] /\ x[2] = y[4]
  BY <1>1 DEF Ends
<1>3. \/ x[3] = y[1] /\ x[4] = y[2]
      \/ x[3] = y[3] /\ x[4] = y[4]
  BY <1>1 DEF Ends
<1>4. x[1] = y[1] /\ x[2] = y[2] /\ x[3] = y[3] /\ x[4] = y[4]
  <2>1. <<y[1], y[2]>> \in Ends(x) /\ <<y[3], y[4]>> \in Ends(x)
    BY DEF Ends
  <2>2. \/ y[3] = x[1] /\ y[4] = x[2]
        \/ y[3] = x[3] /\ y[4] = x[4]
    BY <2>1 DEF Ends
  <2>. QED BY <2>2, <1>2, <1>3 DEF Id
<1>. QED BY <1>4 DEF Id

\* The ports of a build: of a node each has its name.
LEMMA PortFacts ==
  ASSUME NEW in \in A!Inputs, NEW r \in A!Ports(in), NEW q \in A!Ports(in)
  PROVE  /\ r = [node |-> r.node, port |-> r.port] /\ r.node \in Int
         /\ r.node = q.node /\ r.port.dev = q.port.dev => r = q
<1>1. ASSUME NEW x \in A!Ports(in)
      PROVE  /\ x = [node |-> x.node, port |-> x.port] /\ x.node \in A!InList(in)
             /\ x.port \in in.snap[x.node].ports
  <2>1. x \in UNION {{[node |-> n, port |-> p] : p \in in.snap[n].ports} : n \in A!Online(in)}
    BY DEF A!Ports
  <2>2. PICK n \in A!Online(in) : x \in {[node |-> n, port |-> p] : p \in in.snap[n].ports}
    BY <2>1
  <2>3. PICK p \in in.snap[n].ports : x = [node |-> n, port |-> p]
    BY <2>2
  <2>4. n \in A!InList(in)
    BY DEF A!Online
  <2>. QED BY <2>3, <2>4
<1>2. r.node \in Nodes /\ r.node \in Int /\ in.snap[r.node] \in Polled[r.node]
  BY <1>1, InputFacts
<1>3. r.node = q.node /\ r.port.dev = q.port.dev => r.port = q.port
  BY <1>1, <1>2, ServerAssumption DEF A!AnalysisAssumption
<1>. QED BY <1>1, <1>2, <1>3

\* A link joins the two ports that are up on its subnet.
LEMMA LinkFacts ==
  ASSUME NEW in \in A!Inputs, NEW M \in A!Pairs(in)
  PROVE  \E a, b \in A!Ports(in) :
           /\ M = {a, b} /\ a.node < b.node /\ M = A!Members(in, a.port.subnet)
           /\ A!BuildLink(in, M).id = <<a.node, a.port.dev, b.node, b.port.dev>>
<1>1. PICK r \in A!Ports(in) : M = A!Members(in, r.port.subnet)
  BY DEF A!Pairs
<1>2. PICK x \in M, y \in M : M = {x, y} /\ x.node # y.node
  BY DEF A!Pairs, A!IsPair
<1>3. x \in A!Ports(in) /\ y \in A!Ports(in) /\ x.port.subnet = r.port.subnet /\ y.port.subnet = r.port.subnet
  BY <1>1, <1>2 DEF A!Members
<1>4. x.node \in Int /\ y.node \in Int
  BY <1>3, PortFacts
<1>5. PICK a \in M, b \in M : M = {a, b} /\ a.node < b.node /\ a.node \in Int /\ b.node \in Int
  <2>1. CASE x.node < y.node
    BY <2>1, <1>2, <1>4
  <2>2. CASE y.node < x.node
    BY <2>2, <1>2, <1>4
  <2>. QED BY <2>1, <2>2, <1>2, <1>4
<1>6. A!EndA(in, M) = a
  <2>1. \A m \in M : a.node <= m.node
    BY <1>5
  <2>2. \A c \in M : (\A m \in M : c.node <= m.node) => c = a
    BY <1>5
  <2>. QED BY <2>1, <2>2 DEF A!EndA
<1>7. (CHOOSE m \in M : m # a) = b
  BY <1>5
<1>8. A!BuildLink(in, M).id = <<a.node, a.port.dev, b.node, b.port.dev>>
  BY <1>6, <1>7 DEF A!BuildLink
<1>9. a \in A!Ports(in) /\ b \in A!Ports(in) /\ M = A!Members(in, a.port.subnet)
  BY <1>1 DEF A!Members
<1>. QED BY <1>5, <1>8, <1>9

\* So its id is its own.
LEMMA LinkIds ==
  ASSUME NEW in \in A!Inputs, NEW M \in A!Pairs(in)
  PROVE  /\ Id(A!BuildLink(in, M).id)
         /\ \E s \in {r.port.subnet : r \in A!Ports(in)} :
              {<<r.node, r.port.dev>> : r \in A!Members(in, s)} = Ends(A!BuildLink(in, M).id)
         /\ \A N \in A!Pairs(in) : A!BuildLink(in, M).id = A!BuildLink(in, N).id => M = N
<1>1. PICK a \in A!Ports(in), b \in A!Ports(in) :
        /\ M = {a, b} /\ a.node < b.node /\ M = A!Members(in, a.port.subnet)
        /\ A!BuildLink(in, M).id = <<a.node, a.port.dev, b.node, b.port.dev>>
  BY LinkFacts
<1>2. a.node \in Int /\ b.node \in Int
  BY PortFacts
<1>3. PICK id : id = A!BuildLink(in, M).id
  OBVIOUS
<1>4. id[1] = a.node /\ id[2] = a.port.dev /\ id[3] = b.node /\ id[4] = b.port.dev
      /\ id = <<a.node, a.port.dev, b.node, b.port.dev>>
  BY <1>1, <1>3
<1>5. Id(id)
  BY <1>1, <1>2, <1>4 DEF Id
<1>6. {<<r.node, r.port.dev>> : r \in M} = Ends(id)
  BY <1>1, <1>4 DEF Ends
<1>7. \A N \in A!Pairs(in) : id = A!BuildLink(in, N).id => M = N
  <2>. SUFFICES ASSUME NEW N \in A!Pairs(in), id = A!BuildLink(in, N).id
       PROVE  M = N
    OBVIOUS
  <2>1. PICK c \in A!Ports(in), d \in A!Ports(in) :
          /\ N = {c, d} /\ c.node < d.node /\ N = A!Members(in, c.port.subnet)
          /\ A!BuildLink(in, N).id = <<c.node, c.port.dev, d.node, d.port.dev>>
    BY LinkFacts
  <2>2. c.node = a.node /\ c.port.dev = a.port.dev
    BY <2>1, <1>4
  <2>3. a = c
    BY <2>2, PortFacts
  <2>. QED BY <2>1, <2>3, <1>1
<1>. QED BY <1>1, <1>3, <1>5, <1>6, <1>7

\* A link that is shown is confirmed when it has been proven in some build; proof is kept by
\* its id, agreement by its ports.
AnalysisInv ==
  /\ \A id \in everConfirmed : Id(id)
  /\ agreed = {Ends(id) : id \in everConfirmed}
  /\ \A l \in links : Id(l.id) /\ (l.confirmed <=> l.id \in everConfirmed)
  /\ A!NoInventedLink

LEMMA AnalysisInit == ASSUME A!Init PROVE AnalysisInv
BY DEF A!Init, AnalysisInv, A!NoInventedLink

\* What is shown of a link that was found.
LEMMA Shown ==
  ASSUME NEW in, NEW M, NEW on
  PROVE  LET l == A!BuildLink(in, M)
             s == [l EXCEPT !.confirmed = on]
         IN s.id = l.id /\ s.confirmed = on
BY DEF A!BuildLink

LEMMA AnalysisNext == ASSUME AnalysisInv, A!Next PROVE AnalysisInv'
<1>1. PICK in \in A!Inputs : A!Build(in)
  BY DEF A!Next
<1>2. PICK ls : ls = A!Paired(in)
  OBVIOUS
<1>3. PICK new : new = {l.id : l \in {m \in ls : m.confirmed}}
  OBVIOUS
<1>4. /\ input' = in /\ everConfirmed' = everConfirmed \cup new
      /\ links' = {[l EXCEPT !.confirmed = l.id \in everConfirmed \cup new] : l \in ls}
  BY <1>1, <1>2, <1>3 DEF A!Build, A!Verified, A!Proven
<1>5. agreed' = agreed \cup {Ends(id) : id \in new}
  <2>1. agreed' = agreed \cup {A!PortsOf(l) : l \in {m \in ls : m.confirmed}}
    BY <1>1, <1>2 DEF A!Build
  <2>2. \A l \in ls : A!PortsOf(l) = Ends(l.id)
    BY DEF A!PortsOf, Ends
  <2>. QED BY <2>1, <2>2, <1>3
<1>6. ls = {A!BuildLink(in, M) : M \in A!Pairs(in)}
  BY <1>2 DEF A!Paired
<1>7. \A l \in ls : Id(l.id)
  BY <1>6, LinkIds
<1>8. \A id \in everConfirmed' : Id(id)
  BY <1>3, <1>4, <1>7 DEF AnalysisInv
<1>9. agreed' = {Ends(id) : id \in everConfirmed'}
  BY <1>4, <1>5 DEF AnalysisInv
<1>10. ASSUME NEW s \in links'
       PROVE  \E M \in A!Pairs(in) :
                LET l == A!BuildLink(in, M)
                IN /\ s = [l EXCEPT !.confirmed = l.id \in everConfirmed']
                   /\ s.id = l.id /\ (s.confirmed <=> l.id \in everConfirmed')
  <2>1. PICK M \in A!Pairs(in) : s = [A!BuildLink(in, M) EXCEPT !.confirmed = A!BuildLink(in, M).id \in everConfirmed']
    BY <1>4, <1>6
  <2>2. PICK l, on : l = A!BuildLink(in, M) /\ on = (l.id \in everConfirmed')
    OBVIOUS
  <2>3. s = [l EXCEPT !.confirmed = on] /\ s.id = l.id /\ s.confirmed = on
    BY <2>1, <2>2, Shown
  <2>. QED BY <2>2, <2>3
<1>11. \A s \in links' : Id(s.id) /\ (s.confirmed <=> s.id \in everConfirmed')
  BY <1>10, LinkIds
<1>12. A!NoInventedLink'
  <2>1. ASSUME NEW s \in links'
        PROVE  /\ \E t \in {r.port.subnet : r \in A!Ports(in)} :
                    {<<r.node, r.port.dev>> : r \in A!Members(in, t)} = A!PortsOf(s)
               /\ s.id[1] < s.id[3]
    <3>1. PICK M \in A!Pairs(in) : s.id = A!BuildLink(in, M).id
      BY <1>10
    <3>2. A!PortsOf(s) = Ends(s.id)
      BY DEF A!PortsOf, Ends
    <3>. QED BY <3>1, <3>2, LinkIds DEF Id
  <2>2. ASSUME NEW s \in links', NEW t \in links', s.id = t.id
        PROVE  s = t
    <3>1. PICK M \in A!Pairs(in) :
            LET l == A!BuildLink(in, M)
            IN s = [l EXCEPT !.confirmed = l.id \in everConfirmed'] /\ s.id = l.id
      BY <1>10
    <3>2. PICK N \in A!Pairs(in) :
            LET l == A!BuildLink(in, N)
            IN t = [l EXCEPT !.confirmed = l.id \in everConfirmed'] /\ t.id = l.id
      BY <1>10
    <3>3. M = N
      BY <2>2, <3>1, <3>2, LinkIds
    <3>. QED BY <3>1, <3>2, <3>3
  <2>. QED BY <2>1, <2>2, <1>4 DEF A!NoInventedLink
<1>. QED BY <1>8, <1>9, <1>11, <1>12 DEF AnalysisInv

\* A link is shown as confirmed exactly when the counters of its two ports have agreed in
\* some build, and none is invented or listed twice: for any nodes, lists and snapshots in which
\* a node names its ports once.
THEOREM LinksAreHonest == Spec => []LinksHonest
<1>1. Init => (part = "analysis" => AnalysisInv)
  BY AnalysisInit DEF Init
<1>2. (part = "analysis" => AnalysisInv) /\ [Next]_vars => (part = "analysis" => AnalysisInv)'
  <2>. SUFFICES ASSUME part = "analysis" => AnalysisInv, [Next]_vars, part' = "analysis"
       PROVE  AnalysisInv'
    OBVIOUS
  <2>1. CASE Next
    BY <2>1, AnalysisNext DEF Next, OthersStay
  <2>2. CASE UNCHANGED vars
    <3>1. UNCHANGED <<part, input, everConfirmed, links, agreed>>
      BY <2>2 DEF vars, analysisVars
    <3>. QED BY <3>1 DEF AnalysisInv, A!NoInventedLink
  <2>. QED BY <2>1, <2>2
<1>3. (part = "analysis" => AnalysisInv) => LinksHonest
  <2>. SUFFICES ASSUME AnalysisInv PROVE A!ConfirmedOnceAgreed /\ A!NoInventedLink
    BY DEF LinksHonest
  <2>1. ASSUME NEW l \in links PROVE l.confirmed <=> A!PortsOf(l) \in agreed
    <3>1. Id(l.id) /\ (l.confirmed <=> l.id \in everConfirmed)
      BY DEF AnalysisInv
    <3>2. A!PortsOf(l) = Ends(l.id)
      BY DEF A!PortsOf, Ends
    <3>3. Ends(l.id) \in agreed <=> l.id \in everConfirmed
      <4>1. ASSUME Ends(l.id) \in agreed PROVE l.id \in everConfirmed
        <5>1. PICK id \in everConfirmed : Ends(l.id) = Ends(id)
          BY <4>1 DEF AnalysisInv
        <5>. QED BY <5>1, <3>1, IdIsItsEnds DEF AnalysisInv
      <4>. QED BY <4>1 DEF AnalysisInv
    <3>. QED BY <3>1, <3>2, <3>3
  <2>. QED BY <2>1 DEF AnalysisInv, A!ConfirmedOnceAgreed
<1>. QED BY <1>1, <1>2, <1>3, PTL DEF Spec

-----------------------------------------------------------------------------
(* ClusterSummary: its jobs. *)

LEMMA SummaryConstants ==
  \A c, d \in Containers :
    c.masterAddr # Null /\ c.port # Null /\ d.masterAddr # Null /\ d.port # Null =>
      (c.job = d.job <=> c.masterAddr = d.masterAddr /\ c.port = d.port)
BY ServerAssumption DEF S!SummaryAssumption

\* The containers of one key, and what is made of them.
SeenContainers == {c \in running : c.node \in online}
OfJob(k) == {c \in SeenContainers : S!JobKey(c) = k}
Distributed(k) == \E c, d \in OfJob(k) : c.node # d.node

LEMMA JobsAre ==
  /\ \A j \in S!InferJobs : j.members = OfJob(j.key) /\ Distributed(j.key)
  /\ \A j, k \in S!InferJobs : j.key = k.key => j = k
  /\ \A c \in SeenContainers : Distributed(S!JobKey(c)) => \E j \in S!InferJobs : j.members = OfJob(S!JobKey(c))
<1>. DEFINE between(k) == {l \in Links : {l.a, l.b} \subseteq {c.node : c \in OfJob(k)} /\ {l.a, l.b} \subseteq online}
            Job(k) == [key |-> k, members |-> OfJob(k), links |-> between(k), traffic |-> S!TrafficOn(between(k))]
            keys == {k \in {S!JobKey(c) : c \in SeenContainers} : Distributed(k)}
<1>1. S!InferJobs = {Job(k) : k \in keys}
  BY DEF S!InferJobs, OfJob, Distributed, SeenContainers
<1>2. \A k : Job(k).key = k /\ Job(k).members = OfJob(k)
  OBVIOUS
<1>3. \A k \in keys : Distributed(k)
  OBVIOUS
<1>4. \A c \in SeenContainers : Distributed(S!JobKey(c)) => S!JobKey(c) \in keys
  OBVIOUS
<1>. HIDE DEF Job, keys
<1>5. \A j \in S!InferJobs : \E k \in keys : j = Job(k)
  BY <1>1
<1>6. \A j \in S!InferJobs : j.key \in keys /\ j = Job(j.key)
  BY <1>2, <1>5
<1>7. \A k \in keys : Job(k) \in S!InferJobs
  BY <1>1
<1>8. \A j \in S!InferJobs : j.members = OfJob(j.key)
  BY <1>2, <1>6
<1>9. \A c \in SeenContainers : Distributed(S!JobKey(c)) => \E j \in S!InferJobs : j.members = OfJob(S!JobKey(c))
  BY <1>2, <1>4, <1>7
<1>. QED BY <1>3, <1>6, <1>8, <1>9

LEMMA TwoNodes ==
  ASSUME NEW c \in SeenContainers, NEW d \in SeenContainers, c.node # d.node, S!JobKey(c) = S!JobKey(d)
  PROVE  \E j \in S!InferJobs : {c, d} \subseteq j.members
<1>1. PICK k : k = S!JobKey(c)
  OBVIOUS
<1>2. {c, d} \subseteq OfJob(k) /\ Distributed(k)
  BY <1>1 DEF OfJob, Distributed
<1>. QED BY <1>1, <1>2, JobsAre

LEMMA JobsHonestly == running \subseteq Containers => S!JobsHonest
<1>. SUFFICES ASSUME running \subseteq Containers PROVE S!JobsHonest
  OBVIOUS
<1>1. ASSUME NEW j \in S!InferJobs, NEW k \in S!InferJobs, j # k PROVE j.members \cap k.members = {}
  <2>1. j.key # k.key
    BY <1>1, JobsAre
  <2>2. j.members = OfJob(j.key) /\ k.members = OfJob(k.key)
    BY JobsAre
  <2>. QED BY <2>1, <2>2 DEF OfJob
<1>2. ASSUME NEW j \in S!InferJobs PROVE \E c, d \in j.members : c.node # d.node
  BY JobsAre DEF Distributed
<1>3. ASSUME NEW c \in SeenContainers, NEW d \in SeenContainers, c.job = d.job, c.node # d.node,
             c.masterAddr # Null, c.port # Null, d.masterAddr # Null, d.port # Null
      PROVE  \E j \in S!InferJobs : {c, d} \subseteq j.members
  <2>1. c \in Containers /\ d \in Containers
    BY DEF SeenContainers
  <2>2. c.masterAddr = d.masterAddr /\ c.port = d.port
    BY <1>3, <2>1, SummaryConstants
  <2>3. S!JobKey(c) = S!JobKey(d)
    BY <1>3, <2>2 DEF S!JobKey
  <2>. QED BY <1>3, <2>3, TwoNodes
<1>4. ASSUME NEW j \in S!InferJobs, NEW c \in j.members, NEW d \in j.members,
             c.masterAddr # Null, c.port # Null, d.masterAddr # Null, d.port # Null
      PROVE  c.job = d.job
  <2>1. c \in Containers /\ d \in Containers /\ S!JobKey(c) = S!JobKey(d)
    BY <1>4, JobsAre DEF OfJob, SeenContainers
  <2>2. S!JobKey(c) = <<"rendezvous", c.masterAddr, c.port>> /\ S!JobKey(d) = <<"rendezvous", d.masterAddr, d.port>>
    BY <1>4 DEF S!JobKey
  <2>3. c.masterAddr = S!JobKey(c)[2] /\ c.port = S!JobKey(c)[3] /\ d.masterAddr = S!JobKey(d)[2] /\ d.port = S!JobKey(d)[3]
    BY <2>2
  <2>. QED BY <1>4, <2>1, <2>3, SummaryConstants
<1>5. ASSUME NEW c \in SeenContainers, NEW d \in SeenContainers, c.node # d.node, c.image = d.image, c.port = Null, d.port = Null
      PROVE  \E j \in S!InferJobs : {c, d} \subseteq j.members
  <2>1. S!JobKey(c) = S!JobKey(d)
    BY <1>5 DEF S!JobKey
  <2>. QED BY <1>5, <2>1, TwoNodes
<1>. QED BY <1>1, <1>2, <1>3, <1>4, <1>5 DEF S!JobsHonest, SeenContainers

\* Distributed jobs (cluster.ts:346-418), for any containers and nodes: one rendezvous on two
\* nodes is one job whatever the images, no container of another job is in it, and jobs share
\* no container, whichever nodes answer.
THEOREM JobsAreHonest == Spec => [](part = "summary" => S!JobsHonest)
<1>1. Init => (part = "summary" => running \subseteq Containers)
  BY DEF Init, S!Init
<1>2. (part = "summary" => running \subseteq Containers) /\ [Next]_vars => (part = "summary" => running \subseteq Containers)'
  <2>. SUFFICES ASSUME part = "summary" => running \subseteq Containers, [Next]_vars, part' = "summary"
                PROVE  running' \subseteq Containers
    OBVIOUS
  <2>1. CASE Next
    <3>1. running \subseteq Containers /\ S!Next
      BY <2>1 DEF Next, OthersStay
    <3>. QED BY <3>1 DEF S!Next, S!Serve, S!Poll, S!StartOrStop
  <2>2. CASE UNCHANGED vars
    BY <2>2 DEF vars, summaryVars
  <2>. QED BY <2>1, <2>2
<1>3. (part = "summary" => running \subseteq Containers) => (part = "summary" => S!JobsHonest)
  BY JobsHonestly
<1>. QED BY <1>1, <1>2, <1>3, PTL DEF Spec

-----------------------------------------------------------------------------
(* UpdateChecks. *)

LEMMA UpdateConstants ==
  /\ Hour \in Nat \ {0} /\ Null \notin Nat
  /\ \A f \in Fleet :
       /\ DOMAIN f \subseteq Nat /\ \A i, k \in DOMAIN f : f[i].id = f[k].id => i = k
       /\ \A i \in DOMAIN f : DOMAIN f[i].images \subseteq Nat
BY ServerAssumption DEF U!UpdateAssumption

\* An answer about an image claims an update only of what is known on both sides.
Entry ==
  {e \in [node : UNION {{f[i].id : i \in DOMAIN f} : f \in Fleet},
          image : UNION {UNION {{f[i].images[k] : k \in DOMAIN f[i].images} : i \in DOMAIN f} : f \in Fleet},
          local : BOOLEAN, remote : BOOLEAN, error : BOOLEAN, update : BOOLEAN] :
     (e.update => e.local /\ e.remote) /\ (e.error => ~e.update)}

OnceEach(images) ==
  \A i, k \in DOMAIN images : i # k => <<images[i].node, images[i].image>> # <<images[k].node, images[k].image>>

\* What is told of sparktop, when the newest commit there is is `newest`.
Versions(s, newest) ==
  /\ s.tip = Null \/ (s.tip \in Nat /\ s.tip <= newest)
  /\ s.update => s.current # Null /\ s.tip # Null
  /\ s.behind # Null => (s.behind > 0) = (s.update /\ s.tip > s.current)

\* The images that are listed are those of which nothing is left to ask.
Walked(f, left, images) ==
  /\ f \in Fleet /\ left \subseteq U!ToAsk(f) /\ images \in Seq(Entry) /\ OnceEach(images)
  /\ \A k \in 1..Len(images) : \E p \in U!ToAsk(f) \ left :
       images[k].node = U!ImageAt(f, p).node /\ images[k].image = U!ImageAt(f, p).image

\* A check in progress.
Sane(q, newest) ==
  /\ q.at \in {"idle", "github", "compare", "local", "remote"}
  /\ q.at = "compare" => q.tip \in Nat /\ q.tip <= newest
  /\ q.at \in {"local", "remote"} =>
       /\ Versions(q.sparktop, newest) /\ q.left # {} /\ Walked(q.nodes, q.left, q.images)
       /\ q = [at |-> q.at, force |-> q.force, since |-> q.since, sparktop |-> q.sparktop,
               nodes |-> q.nodes, left |-> q.left, images |-> q.images, has |-> q.has]

Data(d, newest) == Versions(d.sparktop, newest) /\ d.images \in Seq(Entry) /\ OnceEach(d.images)

\* It names no older commit than was told.
NotOlder(t, newest) == newest = Null \/ t = Null \/ t <= newest
Newer(q, t) ==
  /\ q.at = "compare" => NotOlder(t, q.tip)
  /\ q.at \in {"local", "remote"} => NotOlder(t, q.sparktop.tip)

UpdateInv ==
  /\ updateClock \in Nat /\ tip \in Nat /\ updateLatest \in Fleet /\ overlap \in BOOLEAN
  /\ told = Null \/ (told \in Nat /\ told <= tip)
  /\ updateReqs = [r \in Req |-> updateReqs[r]] /\ \A r \in Req : Sane(updateReqs[r], tip)
  /\ updateCache # Null => /\ updateCache.at \in Nat /\ updateCache.at = updateCache.data.until
                           /\ Data(updateCache.data, tip)
  /\ ~overlap => /\ \A r, s \in Req : updateReqs[r].at # "idle" /\ updateReqs[s].at # "idle" => r = s
                 /\ \A r \in Req : Newer(updateReqs[r], told)
                 /\ updateCache # Null /\ updateCache.data.sparktop.tip # Null => told = updateCache.data.sparktop.tip
  /\ U!UpdateHonest

\* There is a next image as long as any is left.
LEMMA ForemostIsLeft ==
  ASSUME NEW f \in Fleet, NEW left, left \subseteq U!ToAsk(f), left # {}
  PROVE  U!Foremost(left) \in left
<1>1. \A p \in left : p = <<p[1], p[2]>> /\ p[1] \in Nat /\ p[2] \in Nat
  <2>1. ASSUME NEW p \in left PROVE p = <<p[1], p[2]>> /\ p[1] \in Nat /\ p[2] \in Nat
    <3>1. PICK i \in DOMAIN f : p \in {i} \X DOMAIN f[i].images
      BY DEF U!ToAsk
    <3>2. i \in Nat /\ DOMAIN f[i].images \subseteq Nat
      BY UpdateConstants
    <3>. QED BY <3>1, <3>2
  <2>. QED BY <2>1
<1>. DEFINE which == {p[1] : p \in left}
<1>2. which \subseteq Nat /\ which # {}
  BY <1>1
<1>. HIDE DEF which
<1>3. PICK a \in which : \A m \in which : a <= m
  BY <1>2, LeastNumber
<1>. DEFINE there == {p[2] : p \in {o \in left : o[1] = a}}
<1>4. there \subseteq Nat /\ there # {}
  BY <1>1 DEF which
<1>. HIDE DEF there
<1>5. PICK b \in there : \A m \in there : b <= m
  BY <1>4, LeastNumber
<1>6. PICK p \in left : p[1] = a /\ p[2] = b
  BY DEF there
<1>7. ASSUME NEW o \in left PROVE p[1] < o[1] \/ (p[1] = o[1] /\ p[2] <= o[2])
  <2>1. a <= o[1] /\ a \in Nat /\ o[1] \in Nat
    BY <1>1, <1>2, <1>3 DEF which
  <2>2. o[1] = a => b <= o[2]
    BY <1>5 DEF there
  <2>. QED BY <1>6, <2>1, <2>2
<1>. QED BY <1>6, <1>7 DEF U!Foremost

\* Different places of a snapshot have different images, or are of different nodes.
LEMMA PlacesDiffer ==
  ASSUME NEW f \in Fleet, NEW p \in U!ToAsk(f), NEW q \in U!ToAsk(f), p # q
  PROVE  <<U!ImageAt(f, p).node, U!ImageAt(f, p).image>> # <<U!ImageAt(f, q).node, U!ImageAt(f, q).image>>
<1>1. PICK i \in DOMAIN f : p \in {i} \X DOMAIN f[i].images
  BY DEF U!ToAsk
<1>2. PICK k \in DOMAIN f : q \in {k} \X DOMAIN f[k].images
  BY DEF U!ToAsk
<1>3. SUFFICES ASSUME f[i].id = f[k].id, f[i].images[p[2]] = f[k].images[q[2]] PROVE FALSE
  BY <1>1, <1>2 DEF U!ImageAt
<1>4. i = k
  BY <1>3, UpdateConstants
<1>5. p[2] <= q[2] /\ q[2] <= p[2]
  BY <1>1, <1>2, <1>3, <1>4 DEF U!ToAsk
<1>6. p[2] \in Nat /\ q[2] \in Nat
  BY <1>1, <1>2, UpdateConstants
<1>7. p[2] = q[2]
  BY <1>5, <1>6
<1>. QED BY <1>1, <1>2, <1>4, <1>7

\* One more image is listed, and no more left.
LEMMA WalkedOn ==
  ASSUME NEW f, NEW left, NEW images, Walked(f, left, images), NEW p \in left, NEW e \in Entry,
         e.node = U!ImageAt(f, p).node, e.image = U!ImageAt(f, p).image
  PROVE  Walked(f, left \ {p}, Append(images, e))
<1>1. /\ f \in Fleet /\ left \subseteq U!ToAsk(f) /\ images \in Seq(Entry) /\ OnceEach(images)
      /\ \A k \in 1..Len(images) : \E o \in U!ToAsk(f) \ left :
           images[k].node = U!ImageAt(f, o).node /\ images[k].image = U!ImageAt(f, o).image
  BY DEF Walked
<1>2. PICK n \in Nat : n = Len(images)
  BY <1>1
<1>3. PICK more \in Seq(Entry) : more = Append(images, e)
  BY <1>1, AppendProperties
<1>4. Len(more) = n + 1 /\ more[n + 1] = e /\ \A k \in 1..n : more[k] = images[k]
  BY <1>1, <1>2, <1>3, AppendProperties
<1>5. ASSUME NEW k \in 1..(n + 1)
      PROVE  \E o \in U!ToAsk(f) \ (left \ {p}) : more[k].node = U!ImageAt(f, o).node /\ more[k].image = U!ImageAt(f, o).image
  <2>1. CASE k = n + 1
    BY <1>1, <1>4, <2>1
  <2>2. CASE k # n + 1
    BY <1>1, <1>2, <1>4, <2>2
  <2>. QED BY <2>1, <2>2
<1>6. ASSUME NEW k \in 1..n PROVE <<more[k].node, more[k].image>> # <<e.node, e.image>>
  <2>1. PICK o \in U!ToAsk(f) \ left : images[k].node = U!ImageAt(f, o).node /\ images[k].image = U!ImageAt(f, o).image
    BY <1>1, <1>2
  <2>2. p \in U!ToAsk(f) /\ o # p
    BY <1>1, <2>1
  <2>. QED BY <1>1, <1>4, <2>1, <2>2, PlacesDiffer
<1>7. ASSUME NEW i \in 1..(n + 1), NEW k \in 1..(n + 1), i # k
      PROVE  <<more[i].node, more[i].image>> # <<more[k].node, more[k].image>>
  <2>1. CASE i = n + 1
    BY <1>4, <1>6, <1>7, <2>1
  <2>2. CASE k = n + 1
    BY <1>4, <1>6, <1>7, <2>2
  <2>3. CASE i # n + 1 /\ k # n + 1
    <3>2. DOMAIN images = 1..n
      BY <1>1, <1>2
    <3>1. i \in 1..n /\ k \in 1..n /\ i \in DOMAIN images /\ k \in DOMAIN images
      BY <2>3, <3>2
    <3>. QED BY <1>1, <1>4, <1>7, <3>1 DEF OnceEach
  <2>. QED BY <2>1, <2>2, <2>3
<1>8. DOMAIN more = 1..(n + 1)
  BY <1>3, <1>4
<1>. QED BY <1>1, <1>3, <1>4, <1>5, <1>7, <1>8 DEF Walked, OnceEach

\* What clients are told is in order if the data is, of an answer less than an hour old.
Honest(a, t, odd) ==
  LET s == a.data.sparktop
  IN /\ Versions(s, IF s.tip = Null THEN 0 ELSE s.tip)
     /\ a.data.images \in Seq(Entry) /\ OnceEach(a.data.images)
     /\ a.force => a.data.since = a.since /\ a.data.until = a.at
     /\ ~a.force => a.at - a.data.until < Hour
     /\ ~odd /\ s.tip # Null => s.tip = t

LEMMA ToldHonest ==
  ASSUME answer' # Null => Honest(answer', told', overlap')
  PROVE  U!UpdateHonest'
<1>1. SUFFICES ASSUME answer' # Null PROVE U!UpdateHonest'
  BY DEF U!UpdateHonest
<1>2. PICK a : a = answer'
  OBVIOUS
<1>3. PICK d : d = a.data
  OBVIOUS
<1>4. PICK s : s = d.sparktop
  OBVIOUS
<1>5. /\ Versions(s, IF s.tip = Null THEN 0 ELSE s.tip) /\ d.images \in Seq(Entry) /\ OnceEach(d.images)
      /\ a.force => d.since = a.since /\ d.until = a.at
      /\ ~a.force => a.at - d.until < Hour
      /\ ~overlap' /\ s.tip # Null => s.tip = told'
  BY <1>1, <1>2, <1>3, <1>4 DEF Honest
<1>6. ASSUME NEW i \in DOMAIN d.images
      PROVE  /\ d.images[i].update => d.images[i].local /\ d.images[i].remote
             /\ d.images[i].error => ~d.images[i].update
  <2>1. d.images[i] \in Entry
    BY <1>5
  <2>. QED BY <2>1 DEF Entry
<1>7. \A i, k \in DOMAIN d.images :
        i # k => <<d.images[i].node, d.images[i].image>> # <<d.images[k].node, d.images[k].image>>
  BY <1>5 DEF OnceEach
<1>8. /\ s.update => s.current # Null /\ s.tip # Null
      /\ s.behind # Null => (s.behind > 0) = (s.update /\ s.tip > s.current)
  BY <1>5 DEF Versions
<1>. QED BY <1>2, <1>3, <1>4, <1>5, <1>6, <1>7, <1>8 DEF U!UpdateHonest

\* A step that answers nothing and leaves the requests alone but for one.
LEMMA OneGoesOn ==
  ASSUME UpdateInv, NEW r \in Req, NEW q, Sane(q, tip), updateReqs' = [updateReqs EXCEPT ![r] = q],
         ~overlap' => ~overlap /\ Newer(q, told) /\ (updateReqs[r].at = "idle" => \A s \in Req : updateReqs[s].at = "idle"),
         overlap' \in BOOLEAN, answer' = Null, UNCHANGED <<updateClock, tip, local, current, updateLatest, updateCache, told>>
  PROVE  UpdateInv'
<1>1. PICK next : next = updateReqs'
  OBVIOUS
<1>2. updateReqs = [s \in Req |-> updateReqs[s]] /\ \A s \in Req : Sane(updateReqs[s], tip)
  BY DEF UpdateInv
<1>3. next = [s \in Req |-> IF s = r THEN q ELSE updateReqs[s]]
  BY <1>1, <1>2
<1>4. next = [s \in Req |-> next[s]] /\ \A s \in Req : Sane(next[s], tip)
  BY <1>2, <1>3
<1>5. ASSUME ~overlap'
      PROVE  /\ \A o, s \in Req : next[o].at # "idle" /\ next[s].at # "idle" => o = s
             /\ \A s \in Req : Newer(next[s], told)
             /\ updateCache # Null /\ updateCache.data.sparktop.tip # Null => told = updateCache.data.sparktop.tip
  <2>1. /\ \A o, s \in Req : updateReqs[o].at # "idle" /\ updateReqs[s].at # "idle" => o = s
        /\ \A s \in Req : Newer(updateReqs[s], told)
        /\ updateCache # Null /\ updateCache.data.sparktop.tip # Null => told = updateCache.data.sparktop.tip
    BY <1>5 DEF UpdateInv
  <2>2. \A s \in Req : Newer(next[s], told)
    BY <1>3, <1>5, <2>1
  <2>3. \A o, s \in Req : next[o].at # "idle" /\ next[s].at # "idle" => o = s
    BY <1>3, <1>5, <2>1
  <2>. QED BY <2>1, <2>2, <2>3
<1>6. U!UpdateHonest'
  BY DEF U!UpdateHonest
<1>7. /\ updateClock \in Nat /\ tip \in Nat /\ updateLatest \in Fleet
      /\ told = Null \/ (told \in Nat /\ told <= tip)
      /\ updateCache # Null => /\ updateCache.at \in Nat /\ updateCache.at = updateCache.data.until
                               /\ Data(updateCache.data, tip)
  BY DEF UpdateInv
<1>. QED BY <1>1, <1>4, <1>5, <1>6, <1>7 DEF UpdateInv

LEMMA Continues ==
  ASSUME UpdateInv, NEW r \in Req, updateReqs[r].at # "idle", NEW sparktop, NEW f, NEW left, NEW images,
         Versions(sparktop, tip), ~overlap => NotOlder(told, sparktop.tip), Walked(f, left, images),
         U!Continue(r, sparktop, f, left, images), UNCHANGED <<updateClock, tip, local, current, updateLatest, overlap, checks>>
  PROVE  UpdateInv'
<1>1. /\ updateClock \in Nat /\ tip \in Nat /\ updateLatest \in Fleet /\ overlap \in BOOLEAN
      /\ told = Null \/ (told \in Nat /\ told <= tip)
      /\ updateReqs = [s \in Req |-> updateReqs[s]] /\ \A s \in Req : Sane(updateReqs[s], tip)
  BY DEF UpdateInv
<1>2. CASE left # {}
  <2>1. PICK q : q = [at |-> "local", force |-> updateReqs[r].force, since |-> updateReqs[r].since, sparktop |-> sparktop,
                      nodes |-> f, left |-> left, images |-> images, has |-> Null]
    OBVIOUS
  <2>2. /\ updateReqs' = [updateReqs EXCEPT ![r] = q]
        /\ answer' = Null /\ UNCHANGED <<updateCache, told>>
    BY <1>1, <1>2, <2>1 DEF U!Continue
  <2>3. Sane(q, tip)
    BY <1>2, <2>1 DEF Sane
  <2>4. ~overlap' => Newer(q, told)
    BY <2>1 DEF Newer
  <2>. QED BY <1>1, <2>2, <2>3, <2>4, OneGoesOn
<1>3. CASE left = {}
  <2>1. PICK d : d = [sparktop |-> sparktop, images |-> images, since |-> updateReqs[r].since, until |-> updateClock]
    OBVIOUS
  <2>2. PICK a : a = [data |-> d, at |-> updateClock, force |-> updateReqs[r].force, since |-> updateReqs[r].since]
    OBVIOUS
  <2>3. PICK t : t = IF sparktop.tip = Null \/ (told # Null /\ told > sparktop.tip) THEN told ELSE sparktop.tip
    OBVIOUS
  <2>4. PICK c : c = [at |-> updateClock, data |-> d]
    OBVIOUS
  <2>5. PICK next : next = [s \in Req |-> IF s = r THEN U!Idle ELSE updateReqs[s]]
    OBVIOUS
  <2>6. updateReqs' = next /\ updateCache' = c /\ answer' = a /\ told' = t
    <3>1. U!Finish(r, d)
      BY <1>3, <2>1 DEF U!Continue
    <3>2. U!Answer(d, updateReqs[r].force, updateReqs[r].since) /\ updateCache' = c
          /\ updateReqs' = [updateReqs EXCEPT ![r] = U!Idle]
      BY <2>4, <3>1 DEF U!Finish
    <3>3. d.sparktop.tip = sparktop.tip
      BY <2>1
    <3>4. answer' = a /\ told' = t
      BY <2>2, <2>3, <3>2, <3>3 DEF U!Answer
    <3>. QED BY <1>1, <2>5, <3>2, <3>4
  <2>7. sparktop.tip = Null \/ (sparktop.tip \in Nat /\ sparktop.tip <= tip)
    BY DEF Versions
  <2>8. t = Null \/ (t \in Nat /\ t <= tip)
    BY <1>1, <2>3, <2>7
  <2>9. ~overlap /\ sparktop.tip # Null => t = sparktop.tip
    BY <1>1, <2>3, <2>7, UpdateConstants DEF NotOlder
  <2>10. Data(d, tip)
    BY <2>1 DEF Data, Walked
  <2>11. \A s \in Req : Sane(next[s], tip)
    <3>1. Sane(U!Idle, tip)
      BY DEF Sane, U!Idle
    <3>. QED BY <1>1, <2>5, <3>1
  <2>12. ASSUME ~overlap
         PROVE  /\ \A o, s \in Req : next[o].at # "idle" /\ next[s].at # "idle" => o = s
                /\ \A s \in Req : Newer(next[s], t)
    <3>1. \A o, s \in Req : updateReqs[o].at # "idle" /\ updateReqs[s].at # "idle" => o = s
      BY <2>12 DEF UpdateInv
    <3>2. \A s \in Req : next[s].at = "idle"
      BY <2>5, <3>1 DEF U!Idle
    <3>. QED BY <3>2 DEF Newer
  <2>13. Honest(a, t, overlap)
    <3>1. Versions(sparktop, IF sparktop.tip = Null THEN 0 ELSE sparktop.tip)
      BY <2>7 DEF Versions
    <3>2. a.data.images \in Seq(Entry) /\ OnceEach(a.data.images)
      BY <2>1, <2>2 DEF Walked
    <3>3. a.at - a.data.until < Hour
      BY <1>1, <2>1, <2>2, UpdateConstants
    <3>4. a.data.since = a.since /\ a.data.until = a.at /\ a.data.sparktop = sparktop
      BY <2>1, <2>2
    <3>. QED BY <2>9, <3>1, <3>2, <3>3, <3>4 DEF Honest
  <2>14. U!UpdateHonest'
    BY <2>6, <2>13, ToldHonest
  <2>15. c.at \in Nat /\ c.at = c.data.until /\ c.data = d
    BY <1>1, <2>1, <2>4
  <2>16. next = [s \in Req |-> next[s]]
    BY <2>5
  <2>17. d.sparktop = sparktop
    BY <2>1
  <2>. QED BY <1>1, <2>6, <2>8, <2>9, <2>10, <2>11, <2>12, <2>14, <2>15, <2>16, <2>17 DEF UpdateInv
<1>. QED BY <1>2, <1>3

LEMMA UpdateInit == U!Init => UpdateInv
<1>. SUFFICES ASSUME U!Init PROVE UpdateInv
  OBVIOUS
<1>1. /\ updateClock = 0 /\ tip = 0 /\ updateLatest \in Fleet /\ updateCache = Null /\ answer = Null /\ told = Null
      /\ overlap = FALSE /\ updateReqs = [r \in Req |-> U!Idle]
  BY DEF U!Init
<1>2. \A r \in Req : Sane(updateReqs[r], tip) /\ Newer(updateReqs[r], told) /\ updateReqs[r].at = "idle"
  BY <1>1 DEF Sane, Newer, U!Idle
<1>3. U!UpdateHonest
  BY <1>1 DEF U!UpdateHonest
<1>4. updateReqs = [r \in Req |-> updateReqs[r]]
  BY <1>1
<1>. QED BY <1>1, <1>2, <1>3, <1>4 DEF UpdateInv

LEMMA SaneKeeps ==
  ASSUME NEW n \in Nat, NEW m \in Nat, n <= m
  PROVE  /\ \A q : Sane(q, n) => Sane(q, m)
         /\ \A d : Data(d, n) => Data(d, m)
<1>1. \A s : Versions(s, n) => Versions(s, m)
  BY DEF Versions
<1>2. ASSUME NEW q, Sane(q, n) PROVE Sane(q, m)
  BY <1>1, <1>2 DEF Sane
<1>. QED BY <1>1, <1>2 DEF Data

LEMMA WorldGoesOn ==
  ASSUME UpdateInv, U!World \/ U!Tick
  PROVE  UpdateInv'
<1>1. /\ answer' = Null /\ UNCHANGED <<updateCache, updateReqs, told, overlap>>
      /\ updateClock' = updateClock \/ updateClock' = updateClock + 1
      /\ tip' = tip \/ tip' = tip + 1
      /\ updateLatest' \in Fleet
  BY DEF U!World, U!Tick, U!Commit, U!Snapshot, U!world, UpdateInv
<1>2. /\ updateClock \in Nat /\ tip \in Nat /\ overlap \in BOOLEAN
      /\ told = Null \/ (told \in Nat /\ told <= tip)
      /\ updateReqs = [r \in Req |-> updateReqs[r]] /\ \A r \in Req : Sane(updateReqs[r], tip)
      /\ updateCache # Null => /\ updateCache.at \in Nat /\ updateCache.at = updateCache.data.until
                               /\ Data(updateCache.data, tip)
  BY DEF UpdateInv
<1>3. PICK n \in Nat : n = tip' /\ tip <= n
  BY <1>1, <1>2
<1>4. /\ \A r \in Req : Sane(updateReqs[r], n)
      /\ updateCache # Null => Data(updateCache.data, n)
  BY <1>2, <1>3, SaneKeeps
<1>5. U!UpdateHonest'
  BY <1>1 DEF U!UpdateHonest
<1>6. updateClock' \in Nat /\ (told = Null \/ (told \in Nat /\ told <= n))
  BY <1>1, <1>2, <1>3
<1>7. ~overlap => /\ \A r, s \in Req : updateReqs[r].at # "idle" /\ updateReqs[s].at # "idle" => r = s
                  /\ \A r \in Req : Newer(updateReqs[r], told)
                  /\ updateCache # Null /\ updateCache.data.sparktop.tip # Null => told = updateCache.data.sparktop.tip
  BY DEF UpdateInv
<1>. QED BY <1>1, <1>2, <1>3, <1>4, <1>5, <1>6, <1>7 DEF UpdateInv

LEMMA Asks ==
  ASSUME UpdateInv, NEW r \in Req, NEW force \in BOOLEAN, U!Ask(r, force)
  PROVE  UpdateInv'
<1>1. /\ updateClock \in Nat /\ tip \in Nat /\ updateLatest \in Fleet /\ overlap \in BOOLEAN
      /\ told = Null \/ (told \in Nat /\ told <= tip)
      /\ updateReqs = [s \in Req |-> updateReqs[s]] /\ \A s \in Req : Sane(updateReqs[s], tip)
  BY DEF UpdateInv
<1>2. UNCHANGED <<updateClock, tip, local, current, updateLatest, updateCache>> /\ updateReqs[r].at = "idle"
  BY DEF U!Ask, U!world, U!Running
<1>3. CASE ~force /\ updateCache # Null /\ updateClock - updateCache.at < Hour
  <2>1. PICK d : d = updateCache.data
    OBVIOUS
  <2>2. PICK a : a = [data |-> d, at |-> updateClock, force |-> force, since |-> updateClock]
    OBVIOUS
  <2>3. PICK t : t = IF d.sparktop.tip = Null \/ (told # Null /\ told > d.sparktop.tip) THEN told ELSE d.sparktop.tip
    OBVIOUS
  <2>4. answer' = a /\ told' = t /\ UNCHANGED <<updateReqs, overlap, checks>>
    BY <1>3, <2>1, <2>2, <2>3 DEF U!Ask, U!Answer
  <2>5. updateCache.at \in Nat /\ updateCache.at = d.until /\ Data(d, tip)
    BY <1>3, <2>1 DEF UpdateInv
  <2>6. d.sparktop.tip = Null \/ (d.sparktop.tip \in Nat /\ d.sparktop.tip <= tip)
    BY <2>5 DEF Data, Versions
  <2>7. t = Null \/ (t \in Nat /\ t <= tip)
    BY <1>1, <2>3, <2>6
  <2>8. ~overlap => /\ \A o, s \in Req : updateReqs[o].at # "idle" /\ updateReqs[s].at # "idle" => o = s
                    /\ \A s \in Req : Newer(updateReqs[s], told)
                    /\ d.sparktop.tip # Null => told = d.sparktop.tip
    BY <1>3, <2>1 DEF UpdateInv
  <2>9. ~overlap => t = told
    BY <2>3, <2>8
  <2>10. Honest(a, t, overlap)
    <3>1. PICK s : s = d.sparktop
      OBVIOUS
    <3>2. Versions(s, IF s.tip = Null THEN 0 ELSE s.tip) /\ d.images \in Seq(Entry) /\ OnceEach(d.images)
      BY <2>5, <2>6, <3>1 DEF Data, Versions
    <3>3. a.at - d.until < Hour /\ ~a.force /\ a.data = d
      BY <1>3, <2>2, <2>5
    <3>4. ~overlap /\ s.tip # Null => s.tip = t
      BY <2>8, <2>9, <3>1
    <3>. QED BY <3>1, <3>2, <3>3, <3>4 DEF Honest
  <2>11. U!UpdateHonest'
    BY <2>4, <2>10, ToldHonest
  <2>. QED BY <1>1, <1>2, <1>3, <2>1, <2>4, <2>5, <2>7, <2>8, <2>9, <2>11 DEF UpdateInv
<1>4. CASE ~(~force /\ updateCache # Null /\ updateClock - updateCache.at < Hour)
  <2>1. PICK q : q = [at |-> "github", force |-> force, since |-> updateClock]
    OBVIOUS
  <2>2. /\ updateReqs' = [updateReqs EXCEPT ![r] = q]
        /\ overlap' = (overlap \/ \E s \in Req : updateReqs[s].at # "idle")
        /\ answer' = Null /\ UNCHANGED told
    BY <1>4, <2>1 DEF U!Ask, U!Running
  <2>3. Sane(q, tip) /\ Newer(q, told)
    BY <2>1 DEF Sane, Newer
  <2>4. overlap' \in BOOLEAN /\ (~overlap' => ~overlap /\ \A s \in Req : updateReqs[s].at = "idle")
    BY <1>1, <2>2
  <2>. QED BY <1>1, <1>2, <2>2, <2>3, <2>4, OneGoesOn
<1>. QED BY <1>3, <1>4

LEMMA WalkStarts == ASSUME NEW f \in Fleet PROVE Walked(f, U!ToAsk(f), <<>>)
<1>1. <<>> \in Seq(Entry) /\ Len(<<>>) = 0 /\ DOMAIN <<>> = {}
  OBVIOUS
<1>. QED BY <1>1 DEF Walked, OnceEach

LEMMA GitHubAnswers ==
  ASSUME UpdateInv, NEW r \in Req, U!GitHub(r)
  PROVE  UpdateInv'
<1>1. /\ tip \in Nat /\ updateLatest \in Fleet /\ overlap \in BOOLEAN
      /\ told = Null \/ (told \in Nat /\ told <= tip)
  BY DEF UpdateInv
<1>2. updateReqs[r].at = "github" /\ UNCHANGED <<updateClock, tip, local, current, updateLatest, overlap, checks>>
  BY DEF U!GitHub, U!world
<1>3. Walked(updateLatest, U!ToAsk(updateLatest), <<>>)
  BY <1>1, WalkStarts
<1>4. CASE U!Continue(r, U!NoSparktop, updateLatest, U!ToAsk(updateLatest), <<>>)
  <2>1. Versions(U!NoSparktop, tip) /\ NotOlder(told, U!NoSparktop.tip)
    BY DEF Versions, NotOlder, U!NoSparktop
  <2>. QED BY <1>2, <1>3, <1>4, <2>1, Continues
<1>5. CASE U!Continue(r, U!Sparktop(tip, Null), updateLatest, U!ToAsk(updateLatest), <<>>)
  <2>1. PICK s : s = U!Sparktop(tip, Null)
    OBVIOUS
  <2>2. s.tip = tip /\ s.behind = Null /\ s.current = current /\ (s.update => current # Null)
    BY <2>1 DEF U!Sparktop
  <2>3. Versions(s, tip) /\ NotOlder(told, s.tip)
    BY <1>1, <2>2, UpdateConstants DEF Versions, NotOlder
  <2>. QED BY <1>2, <1>3, <1>5, <2>1, <2>3, Continues
<1>6. CASE /\ updateReqs' = [updateReqs EXCEPT ![r] = [at |-> "compare", force |-> @.force, since |-> @.since, tip |-> tip]]
           /\ answer' = Null /\ UNCHANGED <<updateCache, told>>
  <2>1. PICK q : q = [at |-> "compare", force |-> updateReqs[r].force, since |-> updateReqs[r].since, tip |-> tip]
    OBVIOUS
  <2>2. updateReqs' = [updateReqs EXCEPT ![r] = q]
    BY <1>6, <2>1
  <2>3. Sane(q, tip) /\ Newer(q, told)
    BY <1>1, <2>1 DEF Sane, Newer, NotOlder
  <2>. QED BY <1>1, <1>2, <1>6, <2>2, <2>3, OneGoesOn
<1>. QED BY <1>4, <1>5, <1>6 DEF U!GitHub

LEMMA Compares ==
  ASSUME UpdateInv, NEW r \in Req, U!Compare(r)
  PROVE  UpdateInv'
<1>1. /\ tip \in Nat /\ updateLatest \in Fleet /\ overlap \in BOOLEAN
      /\ Sane(updateReqs[r], tip) /\ (~overlap => Newer(updateReqs[r], told))
  BY DEF UpdateInv
<1>2. updateReqs[r].at = "compare" /\ UNCHANGED <<updateClock, tip, local, current, updateLatest, overlap, checks>>
  BY DEF U!Compare, U!world
<1>3. PICK t \in Nat : t = updateReqs[r].tip /\ t <= tip
  BY <1>1, <1>2 DEF Sane
<1>4. PICK behind \in (IF current \in Nat THEN {U!AheadBy(t, current)} ELSE {}) \cup {Null} :
        U!Continue(r, U!Sparktop(t, behind), updateLatest, U!ToAsk(updateLatest), <<>>)
  BY <1>3 DEF U!Compare
<1>5. Walked(updateLatest, U!ToAsk(updateLatest), <<>>)
  BY <1>1, WalkStarts
<1>6. PICK s : s = U!Sparktop(t, behind)
  OBVIOUS
<1>7. /\ s.tip = t /\ s.current = current /\ s.behind = behind
      /\ s.update = (current # Null /\ current # t)
  BY <1>6 DEF U!Sparktop
<1>8. behind # Null => (behind > 0) = (s.update /\ t > current)
  <2>1. SUFFICES ASSUME behind # Null PROVE (behind > 0) = (s.update /\ t > current)
    OBVIOUS
  <2>2. current \in Nat /\ behind = IF t > current THEN t - current ELSE 0
    BY <1>4, <2>1 DEF U!AheadBy
  <2>3. current # Null
    BY <2>2, UpdateConstants
  <2>4. behind > 0 <=> t > current
    BY <2>2
  <2>5. t > current => current # t
    BY <2>2
  <2>6. s.update <=> current # Null /\ current # t
    BY <1>7
  <2>7. (behind > 0) = (t > current)
    BY <2>4
  <2>8. (s.update /\ t > current) = (t > current)
    BY <2>3, <2>5, <2>6
  <2>. QED BY <2>7, <2>8
<1>9. Versions(s, tip)
  BY <1>3, <1>7, <1>8, UpdateConstants DEF Versions
<1>10. ~overlap => NotOlder(told, s.tip)
  BY <1>1, <1>2, <1>3, <1>7 DEF Newer
<1>. QED BY <1>2, <1>4, <1>5, <1>6, <1>9, <1>10, Continues

\* The next image, of a request that asks about one.
LEMMA NextImage ==
  ASSUME UpdateInv, NEW r \in Req, updateReqs[r].at \in {"local", "remote"}, NEW q, q = updateReqs[r]
  PROVE  /\ Versions(q.sparktop, tip) /\ (~overlap => NotOlder(told, q.sparktop.tip))
         /\ Walked(q.nodes, q.left, q.images) /\ U!Foremost(q.left) \in q.left
<1>1. Sane(q, tip) /\ (~overlap => Newer(q, told))
  BY DEF UpdateInv
<1>2. Versions(q.sparktop, tip) /\ Walked(q.nodes, q.left, q.images) /\ q.left # {}
  BY <1>1 DEF Sane
<1>3. U!Foremost(q.left) \in q.left
  BY <1>2, ForemostIsLeft DEF Walked
<1>4. ~overlap => NotOlder(told, q.sparktop.tip)
  BY <1>1 DEF Newer
<1>. QED BY <1>2, <1>3, <1>4

LEMMA ListsOne ==
  ASSUME UpdateInv, NEW r \in Req, updateReqs[r].at \in {"local", "remote"}, NEW l, NEW rem, NEW error \in BOOLEAN,
         error => rem = Null, U!Listed(r, U!ImageUpdate(U!Turn(r), l, rem, error)),
         UNCHANGED <<updateClock, tip, local, current, updateLatest, overlap, checks>>
  PROVE  UpdateInv'
<1>1. PICK q : q = updateReqs[r]
  OBVIOUS
<1>2. /\ Versions(q.sparktop, tip) /\ (~overlap => NotOlder(told, q.sparktop.tip))
      /\ Walked(q.nodes, q.left, q.images) /\ U!Foremost(q.left) \in q.left
  BY <1>1, NextImage
<1>3. PICK p \in q.left : p = U!Foremost(q.left)
  BY <1>2
<1>4. PICK e : e = U!ImageUpdate(U!Turn(r), l, rem, error)
  OBVIOUS
<1>5. /\ e = [node |-> e.node, image |-> e.image, local |-> e.local, remote |-> e.remote, error |-> e.error, update |-> e.update]
      /\ e.node = U!ImageAt(q.nodes, p).node /\ e.image = U!ImageAt(q.nodes, p).image
      /\ e.local = (l # Null) /\ e.remote = (rem # Null) /\ e.error = error
      /\ e.update = (l # Null /\ rem # Null /\ l # rem)
  BY <1>1, <1>3, <1>4 DEF U!ImageUpdate, U!Turn
<1>6. /\ e.node \in UNION {{f[i].id : i \in DOMAIN f} : f \in Fleet}
      /\ e.image \in UNION {UNION {{f[i].images[k] : k \in DOMAIN f[i].images} : i \in DOMAIN f} : f \in Fleet}
  <2>1. PICK f \in Fleet : f = q.nodes /\ p \in U!ToAsk(f)
    BY <1>2, <1>3 DEF Walked
  <2>2. PICK i \in DOMAIN f : p \in {i} \X DOMAIN f[i].images
    BY <2>1 DEF U!ToAsk
  <2>3. e.node = f[p[1]].id /\ e.image = f[p[1]].images[p[2]]
    BY <1>5, <2>1 DEF U!ImageAt
  <2>4. p[1] = i /\ p[2] \in DOMAIN f[i].images
    BY <2>2
  <2>. QED BY <2>1, <2>3, <2>4
<1>7. e \in Entry
  BY <1>5, <1>6 DEF Entry
<1>8. Walked(q.nodes, q.left \ {p}, Append(q.images, e))
  BY <1>2, <1>5, <1>7, WalkedOn
<1>9. U!Continue(r, q.sparktop, q.nodes, q.left \ {p}, Append(q.images, e))
  BY <1>1, <1>3, <1>4 DEF U!Listed
<1>. QED BY <1>2, <1>8, <1>9, Continues

LEMMA NodeAnswers ==
  ASSUME UpdateInv, NEW r \in Req, U!AskNode(r)
  PROVE  UpdateInv'
<1>1. PICK q : q = updateReqs[r]
  OBVIOUS
<1>2. q.at = "local" /\ UNCHANGED <<updateClock, tip, local, current, updateLatest, overlap, checks>>
  BY <1>1 DEF U!AskNode, U!world
<1>3. /\ Versions(q.sparktop, tip) /\ (~overlap => NotOlder(told, q.sparktop.tip))
      /\ Walked(q.nodes, q.left, q.images)
  BY <1>1, <1>2, NextImage
<1>4. ASSUME NEW l, U!Listed(r, U!ImageUpdate(U!Turn(r), l, Null, TRUE)) PROVE UpdateInv'
  BY <1>1, <1>2, <1>4, ListsOne
<1>5. CASE U!Continue(r, q.sparktop, q.nodes, {p \in q.left : p[1] # U!Foremost(q.left)[1]}, q.images)
  <2>1. PICK less : less = {p \in q.left : p[1] # U!Foremost(q.left)[1]}
    OBVIOUS
  <2>2. less \subseteq q.left
    BY <2>1
  <2>3. Walked(q.nodes, less, q.images)
    BY <1>3, <2>2 DEF Walked
  <2>. QED BY <1>1, <1>2, <1>3, <1>5, <2>1, <2>3, Continues
<1>6. ASSUME NEW has,
             updateReqs' = [updateReqs EXCEPT ![r].at = "remote", ![r].has = has],
             answer' = Null, UNCHANGED <<updateCache, told>>
      PROVE  UpdateInv'
  <2>1. updateReqs = [s \in Req |-> updateReqs[s]] /\ overlap \in BOOLEAN /\ Sane(q, tip) /\ (~overlap => Newer(q, told))
    BY <1>1 DEF UpdateInv
  <2>2. q = [at |-> q.at, force |-> q.force, since |-> q.since, sparktop |-> q.sparktop,
             nodes |-> q.nodes, left |-> q.left, images |-> q.images, has |-> q.has]
    BY <1>2, <2>1 DEF Sane
  <2>3. PICK next : next = [at |-> "remote", force |-> q.force, since |-> q.since, sparktop |-> q.sparktop,
                            nodes |-> q.nodes, left |-> q.left, images |-> q.images, has |-> has]
    OBVIOUS
  <2>4. updateReqs' = [updateReqs EXCEPT ![r] = next]
    <3>1. updateReqs' = [updateReqs EXCEPT ![r] = [q EXCEPT !.at = "remote", !.has = has]]
      BY <1>1, <1>6, <2>1
    <3>2. PICK o : o = [at |-> "remote", force |-> q.force, since |-> q.since, sparktop |-> q.sparktop,
                        nodes |-> q.nodes, left |-> q.left, images |-> q.images, has |-> q.has]
      OBVIOUS
    <3>3. [q EXCEPT !.at = "remote"] = o
      BY <2>2, <3>2
    <3>4. [o EXCEPT !.has = has] = next
      BY <2>3, <3>2
    <3>5. [q EXCEPT !.at = "remote", !.has = has] = [[q EXCEPT !.at = "remote"] EXCEPT !.has = has]
      OBVIOUS
    <3>. QED BY <3>1, <3>3, <3>4, <3>5
  <2>5. Sane(next, tip)
    BY <1>2, <2>1, <2>3 DEF Sane
  <2>6. ~overlap => Newer(next, told)
    BY <1>2, <2>1, <2>3 DEF Newer
  <2>. QED BY <1>1, <1>2, <1>6, <2>1, <2>4, <2>5, <2>6, OneGoesOn
<1>. QED BY <1>1, <1>4, <1>5, <1>6 DEF U!AskNode

LEMMA RegistryAnswers ==
  ASSUME UpdateInv, NEW r \in Req, U!AskRegistry(r)
  PROVE  UpdateInv'
<1>1. updateReqs[r].at = "remote" /\ UNCHANGED <<updateClock, tip, local, current, updateLatest, overlap, checks>>
  BY DEF U!AskRegistry, U!world
<1>2. ASSUME NEW l, U!Listed(r, U!ImageUpdate(U!Turn(r), l, Null, TRUE)) PROVE UpdateInv'
  BY <1>1, <1>2, ListsOne
<1>3. ASSUME NEW l, NEW rem, U!Listed(r, U!ImageUpdate(U!Turn(r), l, rem, FALSE)) PROVE UpdateInv'
  BY <1>1, <1>3, ListsOne
<1>. QED BY <1>2, <1>3 DEF U!AskRegistry

LEMMA UpdateNext ==
  ASSUME UpdateInv, U!Next
  PROVE  UpdateInv'
<1>1. CASE U!World \/ U!Tick
  BY <1>1, WorldGoesOn
<1>2. ASSUME NEW r \in Req, NEW force \in BOOLEAN, U!Ask(r, force) PROVE UpdateInv'
  BY <1>2, Asks
<1>3. ASSUME NEW r \in Req, U!GitHub(r) \/ U!Compare(r) \/ U!AskNode(r) \/ U!AskRegistry(r) PROVE UpdateInv'
  BY <1>3, GitHubAnswers, Compares, NodeAnswers, RegistryAnswers
<1>. QED BY <1>1, <1>2, <1>3 DEF U!Next

\* What a client is told of updates (index.ts:594-634, updates.ts), for any nodes, images, commits,
\* requests at a time and age of the cache: it is of a check that ended less than an hour ago, and
\* began with the request if a new one was asked for; no client is told an older commit than
\* another was, while checks do not overlap; an update is only claimed where both sides are
\* known and differ; and no image is listed twice for a node, whatever comes and goes meanwhile.
THEOREM UpdatesAreHonest == Spec => []UpdateHonest
<1>1. Init => (part = "updates" => UpdateInv)
  BY UpdateInit DEF Init
<1>2. (part = "updates" => UpdateInv) /\ [Next]_vars => (part = "updates" => UpdateInv)'
  <2>. SUFFICES ASSUME part = "updates" => UpdateInv, [Next]_vars, part' = "updates"
                PROVE  UpdateInv'
    OBVIOUS
  <2>1. CASE Next
    <3>1. part = "updates" /\ U!Next
      BY <2>1 DEF Next, OthersStay
    <3>. QED BY <3>1, UpdateNext
  <2>2. CASE UNCHANGED vars
    BY <2>2 DEF vars, updatesVars, UpdateInv, U!UpdateHonest
  <2>. QED BY <2>1, <2>2
<1>3. (part = "updates" => UpdateInv) => UpdateHonest
  BY DEF UpdateInv, UpdateHonest
<1>. QED BY <1>1, <1>2, <1>3, PTL DEF Spec

-----------------------------------------------------------------------------
(* ClientFeed. *)

Tick == [ts : Nat, val : [Key -> Nat \cup {NaN}]]

Increases(ts) == \A i, j \in 1..Len(ts) : i < j => ts[i] < ts[j]

\* A history whose ticks are among `real`, in their order unless the clock was set back.
Real(h, real, ordered) ==
  /\ h.ts \in Seq(Nat) /\ DOMAIN h.series \subseteq Key
  /\ \A k \in DOMAIN h.series : h.series[k] \in Seq(Nat \cup {NaN}) /\ Len(h.series[k]) = Len(h.ts)
  /\ \A i \in 1..Len(h.ts) : [ts |-> h.ts[i], val |-> [k \in Key |-> F!ReadingAt(h, k, i)]] \in real
  /\ ordered => Increases(h.ts)

History == [ts : Seq(Nat), series : UNION {[K -> Seq(Nat \cup {NaN})] : K \in SUBSET Key}]

Message == [type : {"snapshot"}, data : Tick] \cup [type : {"history"}, data : History]

Sound(msg, real, ordered) ==
  \/ msg.type = "snapshot" /\ msg.data \in real
  \/ msg.type = "history" /\ Real(msg.data, real, ordered)

\* The server's ticks `l` are among `real`, and in their order.
Logged(l, real, ordered, now) ==
  /\ l \in Seq(Tick) /\ \A i \in 1..Len(l) : l[i] \in real
  /\ ordered => /\ \A i, j \in 1..Len(l) : i < j => l[i].ts < l[j].ts
                /\ \A i \in 1..Len(l) : l[i].ts <= now

\* Whatever reaches the page, or is about to, was broadcast.
FeedInv ==
  /\ clock \in Nat /\ ticks \in Nat /\ stepped \in BOOLEAN /\ sent \subseteq Tick
  /\ Logged(log, sent, ~stepped, clock)
  /\ latest # None => latest \in sent
  /\ chan \in Seq(Message) /\ \A i \in 1..Len(chan) : Sound(chan[i], sent, ~stepped)
  /\ hist # None => Real(hist, sent, ~stepped)

LEMMA FeedConstants == ClientCap \in Nat \ {0} /\ ServerCap \in Nat \ {0} /\ MaxTicks \in Nat
BY ServerAssumption DEF F!FeedAssumption

\* What was real stays so.
LEMMA RealKeeps ==
  ASSUME NEW h, NEW all, NEW more, NEW ordered \in BOOLEAN, NEW still \in BOOLEAN,
         all \subseteq more, still => ordered, Real(h, all, ordered)
  PROVE  Real(h, more, still)
BY DEF Real

\* The end of a sequence.
Skipped(n, cap) == IF n > cap THEN n - cap ELSE 0

LEMMA LastOfFacts ==
  ASSUME NEW Values, NEW s \in Seq(Values), NEW cap \in Nat \ {0}
  PROVE  /\ F!LastOf(s, cap) \in Seq(Values)
         /\ Len(F!LastOf(s, cap)) = Len(s) - Skipped(Len(s), cap)
         /\ \A i \in 1..Len(F!LastOf(s, cap)) : F!LastOf(s, cap)[i] = s[i + Skipped(Len(s), cap)]
<1>1. CASE Len(s) > cap
  <2>0. Len(s) \in Nat /\ Len(s) - cap + 1 \in Nat /\ Len(s) - cap + 1 <= Len(s) /\ Len(s) - cap + 1 >= 1
    BY <1>1
  <2>1. PICK m \in Nat, n \in Nat : m = Len(s) - cap + 1 /\ n = Len(s) /\ m <= n /\ m >= 1
    BY <2>0
  <2>2. F!LastOf(s, cap) = SubSeq(s, m, n)
    BY <1>1, <2>1 DEF F!LastOf
  <2>3. \A i \in m..n : s[i] \in Values
    BY <2>1
  <2>4. /\ SubSeq(s, m, n) \in Seq(Values)
        /\ Len(SubSeq(s, m, n)) = n - m + 1
        /\ \A i \in 1..(n - m + 1) : SubSeq(s, m, n)[i] = s[m + i - 1]
    BY <2>1, <2>3, SubSeqProperties
  <2>5. Skipped(Len(s), cap) = m - 1
    BY <1>1, <2>1 DEF Skipped
  <2>. QED BY <2>1, <2>2, <2>4, <2>5
<1>2. CASE ~(Len(s) > cap)
  BY <1>2 DEF F!LastOf, Skipped
<1>. QED BY <1>1, <1>2

\* The backlog is what the log has.
LEMMA PayloadReal ==
  ASSUME FeedInv
  PROVE  Real(F!Payload.data, sent, ~stepped) /\ F!Payload \in Message /\ F!Payload.type = "history"
<1>. DEFINE d == F!Payload.data
            known == {x \in Key : \E i \in 1..Len(log) : log[i].val[x] # NaN}
<1>1. /\ log \in Seq(Tick) /\ \A i \in 1..Len(log) : log[i] \in sent
      /\ ~stepped => \A i, j \in 1..Len(log) : i < j => log[i].ts < log[j].ts
  BY DEF FeedInv, Logged
<1>2. /\ d.ts = [i \in 1..Len(log) |-> log[i].ts]
      /\ d.series = [k \in known |-> [i \in 1..Len(log) |-> log[i].val[k]]]
  BY DEF F!Payload
<1>. HIDE DEF d
<1>3. \A i \in 1..Len(log) : log[i] \in Tick
  BY <1>1
<1>4. /\ d.ts \in Seq(Nat) /\ Len(d.ts) = Len(log) /\ \A i \in 1..Len(log) : d.ts[i] = log[i].ts
  BY <1>1, <1>2, <1>3 DEF Tick
<1>5. DOMAIN d.series = known /\ known \subseteq Key
  BY <1>2
<1>6. ASSUME NEW k \in known
      PROVE  /\ d.series[k] \in Seq(Nat \cup {NaN}) /\ Len(d.series[k]) = Len(log)
             /\ \A i \in 1..Len(log) : d.series[k][i] = log[i].val[k]
  <2>1. d.series[k] = [i \in 1..Len(log) |-> log[i].val[k]]
    BY <1>2
  <2>2. \A i \in 1..Len(log) : log[i].val[k] \in Nat \cup {NaN}
    BY <1>3 DEF Tick
  <2>3. Len(log) \in Nat
    BY <1>1
  <2>. QED BY <2>1, <2>2, <2>3
<1>7. ASSUME NEW i \in 1..Len(log)
      PROVE  [ts |-> d.ts[i], val |-> [k \in Key |-> F!ReadingAt(d, k, i)]] = log[i]
  <2>1. \A k \in Key : F!ReadingAt(d, k, i) = log[i].val[k]
    BY <1>5, <1>6 DEF F!ReadingAt
  <2>2. log[i] \in Tick
    BY <1>3
  <2>3. [k \in Key |-> F!ReadingAt(d, k, i)] = log[i].val
    BY <2>1, <2>2 DEF Tick
  <2>. QED BY <2>2, <2>3, <1>4 DEF Tick
<1>8. ~stepped => Increases(d.ts)
  BY <1>1, <1>4 DEF Increases
<1>9. d \in History
  <2>1. d.series \in [known -> Seq(Nat \cup {NaN})]
    BY <1>2, <1>6
  <2>2. d.series \in UNION {[K -> Seq(Nat \cup {NaN})] : K \in SUBSET Key}
    BY <1>5, <2>1
  <2>3. d = [ts |-> d.ts, series |-> d.series]
    BY DEF d, F!Payload
  <2>. QED BY <1>4, <2>2, <2>3 DEF History
<1>10. F!Payload = [type |-> "history", data |-> d]
  BY DEF d, F!Payload
<1>. HIDE DEF known
<1>11. Real(d, sent, ~stepped)
  BY <1>1, <1>4, <1>5, <1>6, <1>7, <1>8 DEF Real
<1>. QED BY <1>9, <1>10, <1>11 DEF Message

EmptyHistory == [ts |-> <<>>, series |-> <<>>]

LEMMA EmptyReal == ASSUME NEW real, NEW ordered \in BOOLEAN PROVE Real(EmptyHistory, real, ordered)
<1>1. EmptyHistory.ts = <<>> /\ EmptyHistory.series = <<>>
  BY DEF EmptyHistory
<1>2. DOMAIN EmptyHistory.series = {}
  BY <1>1
<1>3. Len(EmptyHistory.ts) = 0 /\ EmptyHistory.ts \in Seq(Nat)
  BY <1>1
<1>. QED BY <1>2, <1>3 DEF Real, Increases

\* t is s with e at its end, less its first o.
Follows(t, s, e, n, o, Values) ==
  /\ t \in Seq(Values) /\ Len(t) = n + 1 - o
  /\ \A i \in 1..(n + 1 - o) : t[i] = IF i + o = n + 1 THEN e ELSE s[i + o]

\* A series of the page and the reading that it gets: of n ticks, and nothing is shifted.
LEMMA Lengthened ==
  ASSUME NEW Values, NEW s \in Seq(Values), NEW e \in Values, NEW n \in Nat, Len(s) = n, NEW o \in Nat, o = Skipped(n + 1, ClientCap)
  PROVE  Follows(F!LastOf(Append(s, e), ClientCap), s, e, n, o, Values)
<1>1. PICK t \in Seq(Values) : t = Append(s, e)
  BY AppendProperties
<1>2. Len(t) = n + 1 /\ \A i \in 1..(n + 1) : t[i] = IF i = n + 1 THEN e ELSE s[i]
  BY <1>1
<1>3. ClientCap \in Nat \ {0}
  BY FeedConstants
<1>4. /\ F!LastOf(t, ClientCap) \in Seq(Values)
      /\ Len(F!LastOf(t, ClientCap)) = Len(t) - Skipped(Len(t), ClientCap)
      /\ \A i \in 1..Len(F!LastOf(t, ClientCap)) : F!LastOf(t, ClientCap)[i] = t[i + Skipped(Len(t), ClientCap)]
  BY <1>1, <1>3, LastOfFacts
<1>5. o <= n
  BY <1>3 DEF Skipped
<1>6. ASSUME NEW i \in 1..(n + 1 - o)
      PROVE  F!LastOf(t, ClientCap)[i] = IF i + o = n + 1 THEN e ELSE s[i + o]
  <2>1. i + o \in 1..(n + 1)
    BY <1>5
  <2>2. F!LastOf(t, ClientCap)[i] = t[i + o]
    BY <1>2, <1>4
  <2>. QED BY <1>2, <2>1, <2>2
<1>. QED BY <1>1, <1>2, <1>4, <1>6 DEF Follows

\* A newer tick at the end of a history, of which the oldest may be dropped.
Longer(base, tick) ==
  LET known == DOMAIN base.series
  IN [ts |-> F!LastOf(Append(base.ts, tick.ts), ClientCap),
      series |-> [k \in known \cup F!InSample(tick) |->
                    F!LastOf(Append(IF k \in known THEN base.series[k]
                                    ELSE [i \in 1..Len(base.ts) |-> NaN], tick.val[k]), ClientCap)]]

LEMMA LongerReal ==
  ASSUME NEW real, real \subseteq Tick, NEW ordered \in BOOLEAN, NEW base, Real(base, real, ordered),
         NEW tick \in real, base.ts = <<>> \/ tick.ts > base.ts[Len(base.ts)]
  PROVE  Real(Longer(base, tick), real, ordered)
<1>. DEFINE new == Longer(base, tick)
            known == DOMAIN base.series
            before(k) == IF k \in known THEN base.series[k] ELSE [i \in 1..Len(base.ts) |-> NaN]
<1>1. PICK n \in Nat : n = Len(base.ts)
  BY DEF Real
<1>2. PICK o \in Nat : o = Skipped(n + 1, ClientCap) /\ o <= n
  <2>1. Skipped(n + 1, ClientCap) \in Nat /\ Skipped(n + 1, ClientCap) <= n
    BY FeedConstants DEF Skipped
  <2>. QED BY <2>1
<1>3. /\ new.ts = F!LastOf(Append(base.ts, tick.ts), ClientCap)
      /\ new.series = [k \in known \cup F!InSample(tick) |-> F!LastOf(Append(before(k), tick.val[k]), ClientCap)]
  BY DEF Longer
<1>. HIDE DEF new
<1>4. known \subseteq Key /\ F!InSample(tick) \subseteq Key
  BY DEF Real, F!InSample
<1>5. tick \in Tick /\ tick.ts \in Nat /\ \A k \in Key : tick.val[k] \in Nat \cup {NaN}
  BY DEF Tick
<1>6. /\ new.ts \in Seq(Nat) /\ Len(new.ts) = n + 1 - o
      /\ \A i \in 1..(n + 1 - o) : new.ts[i] = IF i + o = n + 1 THEN tick.ts ELSE base.ts[i + o]
  <2>1. PICK s \in Seq(Nat), e \in Nat : s = base.ts /\ e = tick.ts
    BY <1>5 DEF Real
  <2>2. Len(s) = n
    BY <1>1, <2>1
  <2>3. Follows(F!LastOf(Append(s, e), ClientCap), s, e, n, o, Nat)
    BY <1>2, <2>2, Lengthened
  <2>. QED BY <1>3, <2>1, <2>3 DEF Follows
<1>7. ASSUME NEW k \in Key
      PROVE  before(k) \in Seq(Nat \cup {NaN}) /\ Len(before(k)) = n
  <2>1. CASE k \in known
    BY <2>1, <1>1 DEF Real
  <2>2. CASE k \notin known
    <3>1. before(k) = [i \in 1..n |-> NaN]
      BY <2>2, <1>1
    <3>. QED BY <3>1
  <2>. QED BY <2>1, <2>2
<1>. HIDE DEF before
<1>8. ASSUME NEW k \in known \cup F!InSample(tick)
      PROVE  /\ new.series[k] \in Seq(Nat \cup {NaN}) /\ Len(new.series[k]) = n + 1 - o
             /\ \A i \in 1..(n + 1 - o) : new.series[k][i] = IF i + o = n + 1 THEN tick.val[k] ELSE before(k)[i + o]
  <2>1. new.series[k] = F!LastOf(Append(before(k), tick.val[k]), ClientCap)
    BY <1>3
  <2>2. before(k) \in Seq(Nat \cup {NaN}) /\ Len(before(k)) = n /\ tick.val[k] \in Nat \cup {NaN}
    BY <1>4, <1>5, <1>7
  <2>3. PICK s \in Seq(Nat \cup {NaN}), e \in Nat \cup {NaN} : s = before(k) /\ e = tick.val[k]
    BY <2>2
  <2>4. Len(s) = n
    BY <2>2, <2>3
  <2>5. Follows(F!LastOf(Append(s, e), ClientCap), s, e, n, o, Nat \cup {NaN})
    BY <1>2, <2>4, Lengthened
  <2>. QED BY <2>1, <2>3, <2>5 DEF Follows
<1>9. DOMAIN new.series = known \cup F!InSample(tick)
  BY <1>3
<1>10. ASSUME NEW i \in 1..(n + 1 - o)
       PROVE  [ts |-> new.ts[i], val |-> [k \in Key |-> F!ReadingAt(new, k, i)]] \in real
  <2>1. CASE i + o = n + 1
    <3>1. \A k \in Key : F!ReadingAt(new, k, i) = tick.val[k]
      BY <1>8, <1>9, <2>1 DEF F!ReadingAt, F!InSample
    <3>2. [k \in Key |-> F!ReadingAt(new, k, i)] = tick.val
      BY <3>1, <1>5 DEF Tick
    <3>3. new.ts[i] = tick.ts
      BY <1>6, <2>1
    <3>4. [ts |-> new.ts[i], val |-> [k \in Key |-> F!ReadingAt(new, k, i)]] = tick
      BY <3>2, <3>3, <1>5 DEF Tick
    <3>. QED BY <3>4
  <2>2. CASE i + o # n + 1
    <3>1. PICK j \in 1..n : j = i + o
      BY <2>2
    <3>2. ASSUME NEW k \in Key PROVE F!ReadingAt(new, k, i) = F!ReadingAt(base, k, j)
      <4>1. CASE k \in known
        BY <1>8, <1>9, <2>2, <3>1, <4>1 DEF F!ReadingAt, before
      <4>2. CASE k \in F!InSample(tick) \ known
        <5>1. F!ReadingAt(new, k, i) = before(k)[j]
          BY <1>8, <1>9, <2>2, <3>1, <4>2 DEF F!ReadingAt
        <5>2. before(k)[j] = NaN
          BY <1>1, <4>2 DEF before
        <5>. QED BY <5>1, <5>2, <4>2 DEF F!ReadingAt
      <4>3. CASE k \notin known \cup F!InSample(tick)
        BY <1>9, <4>3 DEF F!ReadingAt
      <4>. QED BY <4>1, <4>2, <4>3
    <3>3. new.ts[i] = base.ts[j]
      BY <1>6, <2>2, <3>1
    <3>4. [ts |-> base.ts[j], val |-> [k \in Key |-> F!ReadingAt(base, k, j)]] \in real
      BY <1>1 DEF Real
    <3>5. [k \in Key |-> F!ReadingAt(new, k, i)] = [k \in Key |-> F!ReadingAt(base, k, j)]
      BY <3>2
    <3>. QED BY <3>3, <3>4, <3>5
  <2>. QED BY <2>1, <2>2
<1>11. ASSUME ordered PROVE Increases(new.ts)
  <2>1. Increases(base.ts) /\ base.ts \in Seq(Nat)
    BY <1>11 DEF Real
  <2>2. \A j \in 1..n : base.ts[j] <= base.ts[n] /\ base.ts[j] \in Nat
    BY <1>1, <2>1 DEF Increases
  <2>3. \A j \in 1..n : base.ts[j] < tick.ts
    <3>1. SUFFICES ASSUME n # 0 PROVE \A j \in 1..n : base.ts[j] < tick.ts
      OBVIOUS
    <3>2. tick.ts > base.ts[n]
      BY <1>1, <3>1
    <3>3. base.ts[n] \in Nat
      BY <1>1, <2>1, <3>1
    <3>. QED BY <2>2, <3>2, <3>3, <1>5
  <2>4. SUFFICES ASSUME NEW i \in 1..(n + 1 - o), NEW j \in 1..(n + 1 - o), i < j
                 PROVE  new.ts[i] < new.ts[j]
    BY <1>6 DEF Increases
  <2>5. i + o \in 1..n /\ i + o < j + o /\ new.ts[i] = base.ts[i + o]
    BY <1>6, <2>4
  <2>6. CASE j + o = n + 1
    BY <1>6, <2>3, <2>5, <2>6
  <2>7. CASE j + o # n + 1
    <3>1. j + o \in 1..n /\ new.ts[j] = base.ts[j + o]
      BY <1>6, <2>7
    <3>. QED BY <1>1, <2>1, <2>5, <3>1 DEF Increases
  <2>. QED BY <2>6, <2>7
<1>. QED BY <1>4, <1>6, <1>8, <1>9, <1>10, <1>11 DEF Real, new

LEMMA AppendReal ==
  ASSUME NEW real, real \subseteq Tick, NEW ordered \in BOOLEAN, NEW prev,
         prev # None => Real(prev, real, ordered), NEW tick \in real
  PROVE  Real(F!AppendSample(prev, tick), real, ordered)
<1>1. PICK base : base = IF prev = None THEN EmptyHistory ELSE prev
  OBVIOUS
<1>2. Real(base, real, ordered)
  BY <1>1, EmptyReal
<1>3. F!AppendSample(prev, tick) =
        IF base.ts # <<>> /\ tick.ts <= base.ts[Len(base.ts)] THEN base ELSE Longer(base, tick)
  BY <1>1 DEF F!AppendSample, F!Last, Longer, EmptyHistory
<1>4. CASE base.ts # <<>> /\ tick.ts <= base.ts[Len(base.ts)]
  BY <1>2, <1>3, <1>4
<1>5. CASE ~(base.ts # <<>> /\ tick.ts <= base.ts[Len(base.ts)])
  <2>1. base.ts \in Seq(Nat) /\ tick.ts \in Nat
    BY <1>2 DEF Real, Tick
  <2>2. base.ts = <<>> \/ tick.ts > base.ts[Len(base.ts)]
    <3>1. CASE base.ts # <<>>
      <4>1. base.ts[Len(base.ts)] \in Nat
        BY <2>1, <3>1
      <4>. QED BY <4>1, <2>1, <1>5
    <3>. QED BY <3>1
  <2>. QED BY <1>2, <1>3, <1>5, <2>2, LongerReal
<1>. QED BY <1>4, <1>5

\* The log takes a tick, and may drop its oldest.
LEMMA LogTakes ==
  ASSUME NEW l, NEW all, NEW more, all \subseteq more, NEW ordered \in BOOLEAN, NEW still \in BOOLEAN,
         NEW before \in Nat, NEW tick \in Tick, tick \in more, Logged(l, all, ordered, before),
         still => ordered /\ before < tick.ts
  PROVE  Logged(F!Log!LastTicks(Append(l, tick)), more, still, tick.ts)
<1>1. PICK s \in Seq(Tick) : s = Append(l, tick)
  BY AppendProperties DEF Logged
<1>2. /\ l \in Seq(Tick) /\ Len(s) = Len(l) + 1
      /\ \A i \in 1..Len(s) : s[i] = IF i = Len(s) THEN tick ELSE l[i]
  BY <1>1, AppendProperties DEF Logged
<1>3. tick.ts \in Nat /\ \A i \in 1..Len(l) : l[i].ts \in Nat
  <2>1. \A t \in Tick : t.ts \in Nat
    BY DEF Tick
  <2>2. \A i \in 1..Len(l) : l[i] \in Tick
    BY <1>2
  <2>. QED BY <2>1, <2>2
<1>4. Logged(s, more, still, tick.ts)
  <2>1. \A i \in 1..Len(s) : s[i] \in more
    BY <1>2 DEF Logged
  <2>2. ASSUME still PROVE \A i \in 1..Len(l) : l[i].ts < tick.ts
    BY <2>2, <1>3 DEF Logged
  <2>3. ASSUME still, NEW i \in 1..Len(s), NEW j \in 1..Len(s), i < j PROVE s[i].ts < s[j].ts
    <3>1. i \in 1..Len(l) /\ s[i] = l[i]
      BY <1>2, <2>3
    <3>2. CASE j = Len(s)
      BY <1>2, <2>2, <2>3, <3>1, <3>2
    <3>3. CASE j # Len(s)
      <4>1. j \in 1..Len(l) /\ s[j] = l[j]
        BY <1>2, <3>3
      <4>. QED BY <2>3, <3>1, <4>1 DEF Logged
    <3>. QED BY <3>2, <3>3
  <2>4. ASSUME still, NEW i \in 1..Len(s) PROVE s[i].ts <= tick.ts
    <3>1. CASE i = Len(s)
      BY <1>2, <1>3, <3>1
    <3>2. CASE i # Len(s)
      <4>1. i \in 1..Len(l) /\ s[i] = l[i]
        BY <1>2, <3>2
      <4>. QED BY <2>2, <2>4, <4>1, <1>3
    <3>. QED BY <3>1, <3>2
  <2>. QED BY <2>1, <2>3, <2>4 DEF Logged
<1>5. CASE Len(s) > ServerCap
  <2>1. F!Log!LastTicks(s) = Tail(s)
    BY <1>5 DEF F!Log!LastTicks
  <2>2. PICK t \in Seq(Tick) : t = Tail(s)
    <3>1. s # <<>>
      BY <1>2, <1>5, FeedConstants
    <3>2. Tail(s) \in Seq(Tick)
      BY <3>1, HeadTailProperties
    <3>. QED BY <3>2
  <2>3. Len(t) = Len(s) - 1 /\ \A i \in 1..Len(t) : t[i] = s[i + 1]
    BY <1>2, <2>2
  <2>4. Logged(t, more, still, tick.ts)
    <3>1. \A i \in 1..Len(t) : i + 1 \in 1..Len(s)
      BY <1>2, <2>3
    <3>2. \A i \in 1..Len(t) : t[i] \in more
      BY <1>4, <2>3, <3>1 DEF Logged
    <3>3. ASSUME still, NEW i \in 1..Len(t), NEW j \in 1..Len(t), i < j PROVE t[i].ts < t[j].ts
      <4>1. i + 1 \in 1..Len(s) /\ j + 1 \in 1..Len(s) /\ i + 1 < j + 1
        BY <3>1, <3>3
      <4>2. s[i + 1].ts < s[j + 1].ts
        BY <1>4, <3>3, <4>1 DEF Logged
      <4>. QED BY <2>3, <4>2
    <3>4. ASSUME still, NEW i \in 1..Len(t) PROVE t[i].ts <= tick.ts
      BY <1>4, <2>3, <3>1, <3>4 DEF Logged
    <3>. QED BY <3>2, <3>3, <3>4 DEF Logged
  <2>. QED BY <1>1, <2>1, <2>2, <2>4
<1>6. CASE ~(Len(s) > ServerCap)
  BY <1>1, <1>4, <1>6 DEF F!Log!LastTicks
<1>. QED BY <1>5, <1>6

LEMMA SoundKeeps ==
  ASSUME NEW msg, NEW all, NEW more, NEW ordered \in BOOLEAN, NEW still \in BOOLEAN,
         all \subseteq more, still => ordered, Sound(msg, all, ordered)
  PROVE  Sound(msg, more, still)
BY RealKeeps DEF Sound

LEMMA FeedInit == F!Init => FeedInv
<1>. SUFFICES ASSUME F!Init PROVE FeedInv
  OBVIOUS
<1>1. clock = 0 /\ stepped = FALSE /\ sent = {} /\ ticks = 0 /\ log = <<>> /\ latest = None /\ chan = <<>> /\ hist = None
  BY DEF F!Init
<1>2. Logged(log, sent, ~stepped, clock)
  BY <1>1 DEF Logged
<1>3. chan \in Seq(Message) /\ \A i \in 1..Len(chan) : Sound(chan[i], sent, ~stepped)
  BY <1>1
<1>. QED BY <1>1, <1>2, <1>3 DEF FeedInv

LEMMA FeedBroadcast ==
  ASSUME FeedInv, NEW now \in Nat, NEW K \in SUBSET Key, F!Broadcast(now, K)
  PROVE  FeedInv'
<1>1. PICK tick : tick = [ts |-> now, val |-> [k \in Key |-> IF k \in K THEN ticks + 1 ELSE NaN]]
  OBVIOUS
<1>2. /\ ticks' = ticks + 1 /\ clock' = now /\ stepped' = (stepped \/ now <= clock)
      /\ log' = F!Log!LastTicks(Append(log, tick)) /\ latest' = tick /\ sent' = sent \cup {tick}
      /\ hist' = hist
      /\ \/ conn = "open" /\ chan' = Append(chan, F!Snapshot(tick))
         \/ chan' = chan
  BY <1>1 DEF F!Broadcast, F!Log!Record
<1>3. /\ clock \in Nat /\ ticks \in Nat /\ stepped \in BOOLEAN /\ sent \subseteq Tick
      /\ Logged(log, sent, ~stepped, clock)
      /\ chan \in Seq(Message) /\ \A i \in 1..Len(chan) : Sound(chan[i], sent, ~stepped)
      /\ hist # None => Real(hist, sent, ~stepped)
  BY DEF FeedInv
<1>4. tick \in Tick /\ tick.ts = now
  BY <1>1, <1>3 DEF Tick
<1>5. sent \subseteq sent' /\ tick \in sent' /\ sent' \subseteq Tick
  BY <1>2, <1>3, <1>4
<1>6. stepped' \in BOOLEAN /\ (~stepped' => ~stepped /\ clock < now)
  <2>1. now <= clock \/ clock < now
    BY <1>3
  <2>. QED BY <1>2, <1>3, <2>1
<1>7. Logged(log', sent', ~stepped', clock')
  BY <1>2, <1>3, <1>4, <1>5, <1>6, LogTakes
<1>8. hist' # None => Real(hist', sent', ~stepped')
  BY <1>2, <1>3, <1>5, <1>6, RealKeeps
<1>9. chan' \in Seq(Message) /\ \A i \in 1..Len(chan') : Sound(chan'[i], sent', ~stepped')
  <2>1. \A i \in 1..Len(chan) : Sound(chan[i], sent', ~stepped')
    BY <1>3, <1>5, <1>6, SoundKeeps
  <2>2. CASE chan' = chan
    BY <1>3, <2>1, <2>2
  <2>3. CASE chan' = Append(chan, F!Snapshot(tick))
    <3>1. F!Snapshot(tick) \in Message /\ Sound(F!Snapshot(tick), sent', ~stepped')
      BY <1>4, <1>5 DEF F!Snapshot, Message, Sound
    <3>2. /\ chan' \in Seq(Message) /\ Len(chan') = Len(chan) + 1
          /\ \A i \in 1..Len(chan') : chan'[i] = IF i = Len(chan') THEN F!Snapshot(tick) ELSE chan[i]
      BY <1>3, <2>3, <3>1, AppendProperties
    <3>3. ASSUME NEW i \in 1..Len(chan') PROVE Sound(chan'[i], sent', ~stepped')
      <4>1. CASE i = Len(chan')
        BY <3>1, <3>2, <4>1
      <4>2. CASE i # Len(chan')
        BY <1>3, <2>1, <3>2, <4>2
      <4>. QED BY <4>1, <4>2
    <3>. QED BY <3>2, <3>3
  <2>. QED BY <1>2, <2>2, <2>3
<1>10. clock' \in Nat /\ ticks' \in Nat /\ latest' \in sent'
  BY <1>2, <1>3, <1>5
<1>. QED BY <1>5, <1>6, <1>7, <1>8, <1>9, <1>10 DEF FeedInv

LEMMA FeedOpen ==
  ASSUME FeedInv, F!Open
  PROVE  FeedInv'
<1>1. /\ clock \in Nat /\ ticks \in Nat /\ stepped \in BOOLEAN /\ sent \subseteq Tick
      /\ Logged(log, sent, ~stepped, clock)
      /\ latest # None => latest \in sent
      /\ hist # None => Real(hist, sent, ~stepped)
  BY DEF FeedInv
<1>2. PICK now : now = IF latest # None \/ clock = MaxTicks THEN clock ELSE clock + 1
  OBVIOUS
<1>3. PICK first : first = IF latest # None THEN latest ELSE [ts |-> now, val |-> [k \in Key |-> NaN]]
  OBVIOUS
<1>4. /\ clock' = now /\ chan' = <<F!Snapshot(first), F!Payload>> /\ sent' = sent \cup {first}
      /\ ticks' = ticks /\ stepped' = stepped /\ log' = log /\ latest' = latest /\ hist' = hist
  BY <1>2, <1>3 DEF F!Open
<1>5. now \in Nat /\ clock <= now
  BY <1>1, <1>2
<1>6. first \in Tick
  BY <1>1, <1>3, <1>5 DEF Tick
<1>7. sent \subseteq sent' /\ first \in sent' /\ sent' \subseteq Tick
  BY <1>1, <1>4, <1>6
<1>8. Logged(log', sent', ~stepped', clock')
  <2>1. \A i \in 1..Len(log) : log[i].ts \in Nat
    BY <1>1 DEF Logged, Tick
  <2>. QED BY <1>1, <1>4, <1>5, <1>7, <2>1 DEF Logged
<1>9. hist' # None => Real(hist', sent', ~stepped')
  BY <1>1, <1>4, <1>7, RealKeeps
<1>10. chan' \in Seq(Message) /\ \A i \in 1..Len(chan') : Sound(chan'[i], sent', ~stepped')
  <2>1. F!Snapshot(first) \in Message /\ Sound(F!Snapshot(first), sent', ~stepped')
    BY <1>6, <1>7 DEF F!Snapshot, Message, Sound
  <2>2. F!Payload \in Message /\ Real(F!Payload.data, sent, ~stepped) /\ F!Payload.type = "history"
    BY PayloadReal
  <2>3. Sound(F!Payload, sent', ~stepped')
    <3>1. Sound(F!Payload, sent, ~stepped)
      BY <2>2 DEF Sound
    <3>. QED BY <1>1, <1>4, <1>7, <3>1, SoundKeeps
  <2>. QED BY <1>4, <2>1, <2>2, <2>3
<1>. QED BY <1>1, <1>4, <1>5, <1>7, <1>8, <1>9, <1>10 DEF FeedInv

LEMMA FeedReceive ==
  ASSUME FeedInv, F!Receive
  PROVE  FeedInv'
<1>1. /\ chan \in Seq(Message) /\ \A i \in 1..Len(chan) : Sound(chan[i], sent, ~stepped)
      /\ hist # None => Real(hist, sent, ~stepped)
      /\ sent \subseteq Tick /\ stepped \in BOOLEAN
  BY DEF FeedInv
<1>2. /\ chan # <<>> /\ chan' = Tail(chan)
      /\ hist' = IF Head(chan).type = "snapshot" THEN F!AppendSample(hist, Head(chan).data)
                 ELSE F!Deeper(hist, Head(chan).data)
      /\ clock' = clock /\ ticks' = ticks /\ stepped' = stepped /\ sent' = sent
      /\ log' = log /\ latest' = latest
  BY DEF F!Receive, F!server
<1>3. Sound(Head(chan), sent, ~stepped)
  <2>1. Head(chan) = chan[1] /\ 1 \in 1..Len(chan)
    BY <1>1, <1>2
  <2>. QED BY <1>1, <2>1
<1>4. Real(hist', sent, ~stepped)
  <2>1. CASE Head(chan).type = "snapshot"
    <3>1. Head(chan).data \in sent
      BY <1>3, <2>1 DEF Sound
    <3>2. Real(F!AppendSample(hist, Head(chan).data), sent, ~stepped)
      BY <1>1, <3>1, AppendReal
    <3>. QED BY <1>2, <2>1, <3>2
  <2>2. CASE Head(chan).type # "snapshot"
    <3>1. Real(Head(chan).data, sent, ~stepped)
      BY <1>3, <2>2 DEF Sound
    <3>2. hist' = F!Deeper(hist, Head(chan).data)
      BY <1>2, <2>2
    <3>3. Head(chan).data.ts \in Seq(Nat)
      BY <3>1 DEF Real
    <3>4. CASE hist = None
      BY <3>1, <3>2, <3>3, <3>4 DEF F!Deeper, F!Depth
    <3>5. CASE hist # None
      BY <1>1, <3>1, <3>2, <3>5 DEF F!Deeper
    <3>. QED BY <3>4, <3>5
  <2>. QED BY <2>1, <2>2
<1>5. chan' \in Seq(Message) /\ \A i \in 1..Len(chan') : Sound(chan'[i], sent, ~stepped)
  <2>1. /\ chan' \in Seq(Message) /\ Len(chan') = Len(chan) - 1
        /\ \A i \in 1..Len(chan') : chan'[i] = chan[i + 1] /\ i + 1 \in 1..Len(chan)
    BY <1>1, <1>2
  <2>. QED BY <1>1, <2>1
<1>. QED BY <1>2, <1>4, <1>5 DEF FeedInv

LEMMA FeedNext ==
  ASSUME FeedInv, F!Next
  PROVE  FeedInv'
<1>1. CASE F!Ticking
  <2>1. PICK K \in SUBSET Key :
          \/ clock < MaxTicks /\ F!Broadcast(clock + 1, K)
          \/ ~stepped /\ \E now \in 0..(clock - 1) : F!Broadcast(now, K)
    BY <1>1 DEF F!Ticking
  <2>2. PICK now \in Nat : F!Broadcast(now, K)
    BY <2>1 DEF FeedInv
  <2>. QED BY <2>2, FeedBroadcast
<1>2. CASE F!Open
  BY <1>2, FeedOpen
<1>3. CASE F!Receive
  BY <1>3, FeedReceive
<1>4. CASE F!Close
  <2>1. chan' = <<>> /\ UNCHANGED <<clock, ticks, stepped, sent, log, latest, hist>>
    BY <1>4 DEF F!Close, F!server
  <2>. QED BY <2>1 DEF FeedInv
<1>5. CASE F!Retry
  BY <1>5 DEF F!Retry, F!server, FeedInv
<1>6. CASE F!Restart
  <2>1. log' = <<>> /\ latest' = None /\ chan' = <<>> /\ UNCHANGED <<clock, ticks, stepped, sent, hist>>
    BY <1>6 DEF F!Restart
  <2>2. Logged(<<>>, sent, ~stepped, clock)
    BY DEF Logged
  <2>. QED BY <2>1, <2>2 DEF FeedInv
<1>. QED BY <1>1, <1>2, <1>3, <1>4, <1>5, <1>6 DEF F!Next

\* The merge of the page (history.ts:4-8, useCluster.ts:39-90) never shows a tick that the server
\* did not broadcast, nor one whose readings are shifted against the timeline, however
\* often the connection breaks, the server restarts, or its clock is set back, for any
\* capacities of the two; and while the clock is not set back the page's timeline increases.
THEOREM TicksAreTheServers == Spec => []TicksAreReal
<1>1. Init => (part = "feed" => FeedInv)
  BY FeedInit DEF Init
<1>2. (part = "feed" => FeedInv) /\ [Next]_vars => (part = "feed" => FeedInv)'
  <2>. SUFFICES ASSUME part = "feed" => FeedInv, [Next]_vars, part' = "feed"
                PROVE  FeedInv'
    OBVIOUS
  <2>1. CASE Next
    <3>1. part = "feed" /\ F!Next
      BY <2>1 DEF Next, OthersStay
    <3>. QED BY <3>1, FeedNext
  <2>2. CASE UNCHANGED vars
    BY <2>2 DEF vars, feedVars, FeedInv
  <2>. QED BY <2>1, <2>2
<1>3. (part = "feed" => FeedInv) => TicksAreReal
  <2>. SUFFICES ASSUME FeedInv, hist # None PROVE F!TicksAreReal
    BY DEF TicksAreReal, F!TicksAreReal
  <2>1. Real(hist, sent, ~stepped)
    BY DEF FeedInv
  <2>. QED BY <2>1 DEF Real, Increases, F!TicksAreReal
<1>. QED BY <1>1, <1>2, <1>3, PTL DEF Spec

-----------------------------------------------------------------------------
(* ClientFeed: nothing is left out. *)

\* Of two sequences in increasing order, of which the first has all but its first element from the
\* second: it is at most one longer, and if it is, it is the second after that element.
LEMMA Dense ==
  ASSUME NEW a \in Seq(Nat), NEW b \in Seq(Nat), Increases(a), Increases(b), Len(a) > Len(b),
         \A i \in 2..Len(a) : \E j \in 1..Len(b) : a[i] = b[j]
  PROVE  Len(a) = Len(b) + 1 /\ \A i \in 1..Len(b) : a[i + 1] = b[i]
<1>1. PICK d \in Nat, n \in Nat : d = Len(a) /\ n = Len(b) /\ d > n
  OBVIOUS
<1>2. /\ \A i \in 1..d : a[i] \in Nat
      /\ \A i \in 1..n : b[i] \in Nat
      /\ \A i, j \in 1..d : i < j => a[i] < a[j]
      /\ \A i, j \in 1..n : i < j => b[i] < b[j]
  <2>1. (\A i \in 1..d : a[i] \in Nat) /\ (\A i \in 1..n : b[i] \in Nat)
    BY <1>1, ElementOfSeq
  <2>2. \A i, j \in 1..d : i < j => a[i] < a[j]
    BY <1>1 DEF Increases
  <2>3. \A i, j \in 1..n : i < j => b[i] < b[j]
    BY <1>1 DEF Increases
  <2>. QED BY <2>1, <2>2, <2>3
<1>3. \A i, j \in 1..n : b[i] < b[j] => i < j
  <2>1. ASSUME NEW i \in 1..n, NEW j \in 1..n, b[i] < b[j], ~(i < j) PROVE FALSE
    <3>1. CASE i = j
      BY <1>2, <2>1, <3>1
    <3>2. CASE i > j
      <4>1. b[j] < b[i]
        BY <1>2, <3>2
      <4>. QED BY <1>2, <2>1, <4>1
    <3>. QED BY <2>1, <3>1, <3>2
  <2>. QED BY <2>1
<1>4. ASSUME NEW i \in 2..d, NEW j \in 1..n, a[i] = b[j] PROVE j >= i - 1
  <2>. DEFINE early == {k \in 2..d : \E m \in 1..n : a[k] = b[m] /\ m < k - 1}
  <2>1. SUFFICES ASSUME j < i - 1 PROVE FALSE
    BY <1>1
  <2>0. early # {}
    BY <1>4, <2>1
  <2>2. early \subseteq Nat
    BY <1>1
  <2>. HIDE DEF early
  <2>3. PICK k \in early : \A m \in early : k <= m
    BY <2>0, <2>2, LeastNumber
  <2>4. PICK m \in 1..n : k \in 2..d /\ a[k] = b[m] /\ m < k - 1
    BY DEF early
  <2>5. k - 1 \in 2..d /\ k - 1 < k
    BY <2>4
  <2>6. PICK q \in 1..n : a[k - 1] = b[q]
    BY <1>1, <2>5
  <2>7. b[q] < b[m]
    <3>1. a[k - 1] < a[k]
      <4>1. k - 1 \in 1..d /\ k \in 1..d
        BY <2>4, <2>5
      <4>. QED BY <1>2, <2>5, <4>1
    <3>. QED BY <2>4, <2>6, <3>1
  <2>8. q < m
    BY <1>3, <2>7
  <2>9. q < k - 1 - 1
    BY <2>4, <2>8
  <2>10. k - 1 \in early
    BY <2>5, <2>6, <2>9 DEF early
  <2>. QED BY <2>3, <2>4, <2>5, <2>10
<1>5. d = n + 1
  <2>1. CASE d >= 2
    <3>1. d \in 2..d
      BY <1>1, <2>1
    <3>2. PICK j \in 1..n : a[d] = b[j]
      BY <1>1, <3>1
    <3>. QED BY <1>1, <1>4, <3>1, <3>2
  <2>. QED BY <1>1, <2>1
<1>6. \A i \in 1..n : a[i + 1] = b[i]
  <2>. DEFINE wrong == {k \in 0..(n - 1) : a[d - k] # b[n - k]}
  <2>1. ASSUME wrong # {} PROVE FALSE
    <3>1. wrong \subseteq Nat
      BY <1>1
    <3>. HIDE DEF wrong
    <3>2. PICK k \in wrong : \A m \in wrong : k <= m
      BY <2>1, <3>1, LeastNumber
    <3>3. k \in 0..(n - 1) /\ a[d - k] # b[n - k]
      BY DEF wrong
    <3>4. d - k \in 2..d /\ d - k - 1 = n - k /\ n - k \in 1..n
      BY <1>1, <1>5, <3>3
    <3>5. PICK j \in 1..n : a[d - k] = b[j]
      BY <1>1, <3>4
    <3>6. j >= n - k
      BY <1>4, <3>4, <3>5
    <3>7. CASE k = 0
      BY <1>1, <3>3, <3>5, <3>6, <3>7
    <3>8. CASE k # 0
      <4>1. k - 1 \in 0..(n - 1) /\ k - 1 < k
        BY <1>1, <3>3, <3>8
      <4>2. k - 1 \notin wrong
        BY <3>2, <3>3, <4>1
      <4>3. a[d - (k - 1)] = b[n - (k - 1)]
        BY <4>1, <4>2 DEF wrong
      <4>0. d \in Nat /\ n \in Nat /\ k \in Nat /\ j \in Nat /\ d = n + 1 /\ k <= n - 1 /\ k >= 1 /\ j <= n
        BY <1>1, <1>5, <3>3, <3>5, <3>8
      <4>4. d - k \in 1..d /\ d - (k - 1) \in 1..d /\ d - k < d - (k - 1) /\ n - (k - 1) \in 1..n
        BY <4>0
      <4>5. a[d - k] < a[d - (k - 1)]
        BY <1>2, <4>4
      <4>6. j < n - (k - 1)
        BY <1>3, <3>5, <4>3, <4>4, <4>5
      <4>7. j = n - k
        BY <4>0, <3>6, <4>6
      <4>. QED BY <3>3, <3>5, <4>7
    <3>. QED BY <3>7, <3>8
  <2>2. ASSUME NEW i \in 1..n PROVE a[i + 1] = b[i]
    <3>1. n - i \in 0..(n - 1) /\ d - (n - i) = i + 1 /\ n - (n - i) = i
      BY <1>1, <1>5
    <3>. QED BY <2>1, <3>1
  <2>. QED BY <2>2
<1>. QED BY <1>1, <1>5, <1>6

\* The messages from the f-th on, of which the f-th is the backlog, are snapshots.
Lively(c, f) ==
  /\ f \in 0..2 /\ f <= Len(c)
  /\ f # 0 => c[f].type = "history"
  /\ f = 2 => c[1].type = "snapshot"
  /\ \A i \in (f + 1)..Len(c) : c[i].type = "snapshot"

\* The timeline of the page once it has the backlog, and once it has everything.
Waiting(c, f) == [i \in 1..(Len(c) - f) |-> c[f + i].data.ts]
Primed(h, c, f) ==
  IF f = 0 THEN h
  ELSE F!Deeper(IF f = 1 THEN h ELSE F!AppendSample(h, c[1].data), c[f].data)

Coming(h, c, f) == Primed(h, c, f).ts \o Waiting(c, f)

EndsWith(w, l, n) ==
  /\ n \in Nat /\ n <= Len(w) /\ n <= Len(l)
  /\ \A i \in 0..(n - 1) : w[Len(w) - i] = l[Len(l) - i].ts

\* How many of the newest ticks the page is to show in the end.
Owed(l, odd, new) ==
  LET all == IF odd /\ new < ClientCap THEN new ELSE ClientCap
  IN IF all < Len(l) THEN all ELSE Len(l)

\* A timeline that ends with the newest ticks of the log.
Completes(w, l, n, now) ==
  w \in Seq(Nat) /\ Increases(w) /\ (\A i \in 1..Len(w) : w[i] <= now) /\ EndsWith(w, l, n)

OnItsWay(h, c, f, l, n, now) ==
  Lively(c, f) /\ (f = 0 => h # None) /\ Completes(Coming(h, c, f), l, n, now)

\* Everything that was sent is in the log, but for a stand-in before it.
Whole(l, all, now) ==
  \E p \in Int :
    /\ p <= now /\ \A j \in 1..Len(l) : p < l[j].ts
    /\ \A s \in all : s.ts = p \/ \E j \in 1..Len(l) : s.ts = l[j].ts

Short(h) == Len(h.ts) <= ServerCap

Orderly == ~stepped /\ ServerCap >= ClientCap

\* The backlog and what follows it complete the history of the page.
CatchInv ==
  /\ Len(log) <= ServerCap /\ fresh \in Nat /\ strange \in BOOLEAN
  /\ (latest = None) = (log = <<>>)
  /\ latest # None => latest = log[Len(log)]
  /\ Orderly =>
       /\ hist # None => Short(hist)
       /\ \A i \in 1..Len(chan) : chan[i].type = "history" => Short(chan[i].data)
       /\ \A s \in sent : s.ts <= clock
       /\ ~strange /\ Len(log) < ServerCap => Whole(log, sent, clock)
       /\ conn = "open" => \E f \in 0..2 : OnItsWay(hist, chan, f, log, Owed(log, strange, fresh), clock)

LEMMA NoneApart == None \notin Tick /\ None \notin History
<1>1. None \notin Tick
  BY ServerAssumption DEF F!FeedAssumption, Tick
<1>2. ASSUME None \in History PROVE FALSE
  <2>1. PICK d \in History : d = None
    BY <1>2
  <2>2. PICK K \in SUBSET Key : d.series \in [K -> Seq(Nat \cup {NaN})]
    BY DEF History
  <2>3. d = [ts |-> d.ts, series |-> d.series] /\ d.ts \in Seq(Nat)
    BY DEF History
  <2>4. d \in [ts : Seq(Nat), series : [K -> Seq(Nat \cup {NaN})]]
    BY <2>2, <2>3
  <2>. QED BY <2>1, <2>4, ServerAssumption DEF F!FeedAssumption
<1>. QED BY <1>1, <1>2

\* What is read after the backlog.
LEMMA WaitingFacts ==
  ASSUME NEW c \in Seq(Message), NEW f, Lively(c, f)
  PROVE  /\ Waiting(c, f) \in Seq(Nat) /\ Len(Waiting(c, f)) = Len(c) - f
         /\ \A i \in 1..(Len(c) - f) : Waiting(c, f)[i] = c[f + i].data.ts
<1>1. PICK n \in Nat : n = Len(c) - f
  BY DEF Lively
<1>2. ASSUME NEW i \in 1..n PROVE c[f + i].data.ts \in Nat
  <2>1. f + i \in 1..Len(c) /\ f + i \in (f + 1)..Len(c)
    BY <1>1 DEF Lively
  <2>2. c[f + i] \in Message /\ c[f + i].type = "snapshot"
    BY <2>1 DEF Lively
  <2>3. c[f + i].data \in Tick
    BY <2>2 DEF Message
  <2>. QED BY <2>3 DEF Tick
<1>3. Waiting(c, f) = [i \in 1..n |-> c[f + i].data.ts]
  BY <1>1 DEF Waiting
<1>. QED BY <1>1, <1>2, <1>3

\* w is the timeline b with the snapshots that follow.
Joined(w, b, c, f) ==
  /\ w \in Seq(Nat) /\ Len(w) = Len(b) + Len(c) - f
  /\ \A i \in 1..(Len(b) + Len(c) - f) : w[i] = IF i <= Len(b) THEN b[i] ELSE c[f + i - Len(b)].data.ts

LEMMA ComingFacts ==
  ASSUME NEW h, NEW c \in Seq(Message), NEW f, Lively(c, f), NEW b, b \in Seq(Nat), b = Primed(h, c, f).ts
  PROVE  Joined(Coming(h, c, f), b, c, f)
<1>1. PICK w \in Seq(Nat) : w = Waiting(c, f)
  BY WaitingFacts
<1>2. Len(w) = Len(c) - f /\ \A i \in 1..(Len(c) - f) : w[i] = c[f + i].data.ts
  BY <1>1, WaitingFacts
<1>3. Coming(h, c, f) = b \o w
  BY <1>1 DEF Coming
<1>4. /\ b \o w \in Seq(Nat) /\ Len(b \o w) = Len(b) + Len(w)
      /\ \A i \in 1..(Len(b) + Len(w)) : (b \o w)[i] = IF i <= Len(b) THEN b[i] ELSE w[i - Len(b)]
  BY ConcatProperties
<1>5. Len(b) \in Nat /\ Len(c) \in Nat /\ f \in Nat /\ f <= Len(c)
  BY DEF Lively
<1>6. ASSUME NEW i \in 1..(Len(b) + Len(c) - f)
      PROVE  (b \o w)[i] = IF i <= Len(b) THEN b[i] ELSE c[f + i - Len(b)].data.ts
  <2>1. i \in 1..(Len(b) + Len(w))
    BY <1>2, <1>5
  <2>2. CASE i <= Len(b)
    BY <1>4, <2>1, <2>2
  <2>3. CASE ~(i <= Len(b))
    <3>1. i - Len(b) \in 1..(Len(c) - f) /\ f + (i - Len(b)) = f + i - Len(b)
      BY <1>5, <2>3
    <3>2. w[i - Len(b)] = c[f + (i - Len(b))].data.ts
      BY <1>2, <3>1
    <3>. QED BY <1>4, <2>1, <2>3, <3>1, <3>2
  <2>. QED BY <2>2, <2>3
<1>. QED BY <1>2, <1>3, <1>4, <1>5, <1>6 DEF Joined

\* Which of two histories survives.
LEMMA DeeperFacts ==
  ASSUME NEW real, NEW ordered \in BOOLEAN, NEW h, h # None => Real(h, real, ordered), NEW d, Real(d, real, ordered)
  PROVE  /\ Real(F!Deeper(h, d), real, ordered)
         /\ \/ F!Deeper(h, d) = h /\ h # None /\ Len(h.ts) > Len(d.ts)
            \/ F!Deeper(h, d) = d
<1>1. d.ts \in Seq(Nat)
  BY DEF Real
<1>2. CASE h = None
  BY <1>1, <1>2 DEF F!Deeper, F!Depth
<1>3. CASE h # None
  BY <1>3 DEF F!Deeper, F!Depth
<1>. QED BY <1>2, <1>3

LEMMA AppendShort ==
  ASSUME ServerCap >= ClientCap, NEW real, real \subseteq Tick, NEW ordered \in BOOLEAN, NEW prev,
         prev # None => Real(prev, real, ordered) /\ Short(prev), NEW tick \in real
  PROVE  Short(F!AppendSample(prev, tick))
<1>1. PICK base : base = IF prev = None THEN EmptyHistory ELSE prev
  OBVIOUS
<1>2. F!AppendSample(prev, tick) =
        IF base.ts # <<>> /\ tick.ts <= base.ts[Len(base.ts)] THEN base ELSE Longer(base, tick)
  BY <1>1 DEF F!AppendSample, F!Last, Longer, EmptyHistory
<1>3. base.ts \in Seq(Nat) /\ Len(base.ts) <= ServerCap
  <2>1. CASE prev = None
    <3>1. base.ts = <<>> /\ Len(base.ts) = 0
      BY <1>1, <2>1 DEF EmptyHistory
    <3>. QED BY <3>1, FeedConstants
  <2>2. CASE prev # None
    BY <1>1, <2>2 DEF Real, Short
  <2>. QED BY <2>1, <2>2
<1>4. Len(Longer(base, tick).ts) <= ServerCap
  <2>1. PICK e \in Nat : e = tick.ts
    BY DEF Tick
  <2>2. PICK s \in Seq(Nat), n \in Nat : s = base.ts /\ n = Len(s)
    BY <1>3
  <2>3. PICK o \in Nat : o = Skipped(n + 1, ClientCap)
    <3>1. Skipped(n + 1, ClientCap) \in Nat
      BY FeedConstants DEF Skipped
    <3>. QED BY <3>1
  <2>4. Follows(F!LastOf(Append(s, e), ClientCap), s, e, n, o, Nat)
    BY <2>2, <2>3, Lengthened
  <2>5. Len(Longer(base, tick).ts) = n + 1 - o
    BY <2>1, <2>2, <2>4 DEF Longer, Follows
  <2>6. n + 1 - o <= ClientCap
    BY <2>3, FeedConstants DEF Skipped
  <2>. QED BY <2>5, <2>6, FeedConstants
<1>. QED BY <1>2, <1>3, <1>4 DEF Short

\* r is the log l after a tick, seen from its end.
Takes(r, l, tick) ==
  /\ r \in Seq(Tick) /\ r # <<>> /\ Len(r) <= ServerCap /\ Len(r) <= Len(l) + 1
  /\ Len(r) < ServerCap => Len(r) = Len(l) + 1
  /\ r[Len(r)] = tick
  /\ \A i \in 1..(Len(r) - 1) : r[Len(r) - i] = l[Len(l) + 1 - i]

LEMMA LogEnd ==
  ASSUME NEW l \in Seq(Tick), Len(l) <= ServerCap, NEW tick \in Tick, NEW r, r = F!Log!LastTicks(Append(l, tick))
  PROVE  Takes(r, l, tick)
<1>0. PICK n \in Nat : n = Len(l)
  OBVIOUS
<1>1. PICK s \in Seq(Tick) : s = Append(l, tick) /\ n = Len(l)
  BY <1>0, AppendProperties
<1>2. Len(s) = n + 1 /\ s[n + 1] = tick /\ \A i \in 1..n : s[i] = l[i]
  BY <1>1, AppendProperties
<1>3. CASE n + 1 > ServerCap
  <2>1. r = Tail(s)
    BY <1>1, <1>2, <1>3 DEF F!Log!LastTicks
  <2>2. r \in Seq(Tick) /\ Len(r) = n /\ \A i \in 1..n : r[i] = s[i + 1]
    <3>1. s # <<>>
      BY <1>2
    <3>. QED BY <1>2, <2>1, <3>1, HeadTailProperties
  <2>3. n = ServerCap /\ n >= 1
    BY <1>1, <1>3, FeedConstants
  <2>4. r # <<>> /\ r[n] = tick
    <3>1. n \in 1..n
      BY <2>3
    <3>. QED BY <1>2, <2>2, <2>3, <3>1
  <2>5. ASSUME NEW i \in 1..(n - 1) PROVE r[n - i] = l[n + 1 - i]
    <3>1. n - i \in 1..n /\ n + 1 - i \in 1..n /\ (n - i) + 1 = n + 1 - i
      OBVIOUS
    <3>. QED BY <1>2, <2>2, <3>1
  <2>. QED BY <1>1, <2>2, <2>3, <2>4, <2>5 DEF Takes
<1>4. CASE ~(n + 1 > ServerCap)
  <2>1. r = s
    BY <1>1, <1>2, <1>4 DEF F!Log!LastTicks
  <2>2. ASSUME NEW i \in 1..n PROVE s[n + 1 - i] = l[n + 1 - i]
    <3>1. n + 1 - i \in 1..n
      OBVIOUS
    <3>. QED BY <1>2, <3>1
  <2>3. s # <<>>
    BY <1>2
  <2>. QED BY <1>1, <1>2, <1>4, <2>1, <2>2, <2>3, FeedConstants DEF Takes
<1>. QED BY <1>1, <1>3, <1>4, FeedConstants

\* A timeline and a log, each with the same tick at its end.
LEMMA EndGrows ==
  ASSUME NEW w \in Seq(Nat), NEW v \in Seq(Nat), NEW l \in Seq(Tick), NEW r \in Seq(Tick), NEW tick \in Tick,
         Len(v) = Len(w) + 1, v[Len(v)] = tick.ts, \A i \in 1..Len(w) : v[i] = w[i],
         r[Len(r)] = tick, \A i \in 1..(Len(r) - 1) : r[Len(r) - i] = l[Len(l) + 1 - i],
         NEW n, EndsWith(w, l, n), NEW m \in Nat, m <= n + 1, m <= Len(r)
  PROVE  EndsWith(v, r, m)
<1>1. PICK a \in Nat, b \in Nat, c \in Nat : a = Len(w) /\ b = Len(l) /\ c = Len(r)
  OBVIOUS
<1>2. n \in Nat /\ n <= a /\ n <= b /\ \A i \in 0..(n - 1) : w[a - i] = l[b - i].ts
  BY <1>1 DEF EndsWith
<1>3. ASSUME NEW i \in 0..(m - 1) PROVE v[a + 1 - i] = r[c - i].ts
  <2>1. CASE i = 0
    BY <1>1, <2>1
  <2>2. CASE i # 0
    <3>1. /\ i - 1 \in 0..(n - 1) /\ i \in 1..(c - 1) /\ a + 1 - i \in 1..a
          /\ a - (i - 1) = a + 1 - i /\ b - (i - 1) = b + 1 - i
      BY <1>1, <1>2, <2>2
    <3>2. w[a + 1 - i] = l[b + 1 - i].ts
      BY <1>2, <3>1
    <3>. QED BY <1>1, <3>1, <3>2
  <2>. QED BY <2>1, <2>2
<1>. QED BY <1>1, <1>2, <1>3 DEF EndsWith

LEMMA OwedFacts ==
  ASSUME NEW l \in Seq(Tick), NEW odd \in BOOLEAN, NEW new \in Nat
  PROVE  /\ Owed(l, odd, new) \in Nat /\ Owed(l, odd, new) <= Len(l) /\ Owed(l, odd, new) <= ClientCap
         /\ odd /\ new = 0 => Owed(l, odd, new) = 0
         /\ \A r \in Seq(Tick) : Len(r) <= Len(l) + 1 => Owed(r, odd, new + 1) <= Owed(l, odd, new) + 1
BY FeedConstants DEF Owed

\* A newer tick on both sides.
LEMMA CompletesMore ==
  ASSUME NEW w \in Seq(Nat), NEW v \in Seq(Nat), NEW l \in Seq(Tick), NEW r \in Seq(Tick), NEW tick \in Tick,
         Len(v) = Len(w) + 1, v[Len(v)] = tick.ts, \A i \in 1..Len(w) : v[i] = w[i],
         r[Len(r)] = tick, \A i \in 1..(Len(r) - 1) : r[Len(r) - i] = l[Len(l) + 1 - i],
         NEW n, NEW now \in Nat, Completes(w, l, n, now), now < tick.ts,
         NEW m \in Nat, m <= n + 1, m <= Len(r)
  PROVE  Completes(v, r, m, tick.ts)
<1>1. PICK a \in Nat : a = Len(w) /\ Len(v) = a + 1
  OBVIOUS
<1>2. tick.ts \in Nat
  BY DEF Tick
<1>3. /\ \A i \in 1..a : w[i] \in Nat /\ w[i] <= now
      /\ \A i, j \in 1..a : i < j => w[i] < w[j]
  BY <1>1 DEF Completes, Increases
<1>4. \A i \in 1..(a + 1) : v[i] = IF i = a + 1 THEN tick.ts ELSE w[i]
  BY <1>1
<1>5. ASSUME NEW i \in 1..(a + 1) PROVE v[i] <= tick.ts
  <2>1. CASE i = a + 1
    BY <1>2, <1>4, <2>1
  <2>2. CASE i # a + 1
    <3>1. i \in 1..a /\ v[i] = w[i]
      BY <1>4, <2>2
    <3>2. w[i] \in Nat /\ w[i] <= now
      BY <1>3, <3>1
    <3>. QED BY <1>2, <3>1, <3>2
  <2>. QED BY <2>1, <2>2
<1>6. ASSUME NEW i \in 1..(a + 1), NEW j \in 1..(a + 1), i < j PROVE v[i] < v[j]
  <2>0. i \in 1..a
    BY <1>6
  <2>1. v[i] = w[i] /\ w[i] \in Nat /\ w[i] <= now
    BY <1>3, <1>4, <2>0
  <2>2. CASE j = a + 1
    <3>1. v[j] = tick.ts
      BY <1>4, <2>2
    <3>. QED BY <1>2, <2>1, <3>1
  <2>3. CASE j # a + 1
    BY <1>3, <1>4, <1>6, <2>0, <2>1, <2>3
  <2>. QED BY <2>2, <2>3
<1>7. EndsWith(v, r, m)
  BY EndGrows DEF Completes
<1>. QED BY <1>1, <1>5, <1>6, <1>7 DEF Completes, Increases

\* The oldest ticks of a timeline go.
LEMMA CompletesLess ==
  ASSUME NEW w \in Seq(Nat), NEW v \in Seq(Nat), NEW o \in Nat,
         Len(v) = Len(w) - o, \A i \in 1..Len(v) : v[i] = w[i + o],
         NEW l, NEW n, NEW now, Completes(w, l, n, now), n <= Len(v)
  PROVE  Completes(v, l, n, now)
<1>1. PICK a \in Nat : a = Len(v) /\ Len(w) = a + o
  <2>1. Len(v) \in Nat /\ Len(w) \in Nat
    OBVIOUS
  <2>2. Len(w) = Len(v) + o
    BY <2>1
  <2>. QED BY <2>1, <2>2
<1>2. /\ \A i \in 1..(a + o) : w[i] <= now
      /\ \A i, j \in 1..(a + o) : i < j => w[i] < w[j]
      /\ n \in Nat /\ n <= Len(l)
      /\ \A i \in 0..(n - 1) : w[a + o - i] = l[Len(l) - i].ts
  BY <1>1 DEF Completes, Increases, EndsWith
<1>3. \A i \in 1..a : i + o \in 1..(a + o) /\ v[i] = w[i + o]
  BY <1>1
<1>4. \A i \in 1..a : v[i] <= now
  BY <1>2, <1>3
<1>5. ASSUME NEW i \in 1..a, NEW j \in 1..a, i < j PROVE v[i] < v[j]
  <2>1. i + o < j + o
    BY <1>1, <1>5
  <2>. QED BY <1>2, <1>3, <2>1
<1>6. ASSUME NEW i \in 0..(n - 1) PROVE v[a - i] = l[Len(l) - i].ts
  <2>1. a - i \in 1..a /\ (a - i) + o = a + o - i
    BY <1>1, <1>2
  <2>2. v[a - i] = w[a + o - i]
    BY <1>3, <2>1
  <2>. QED BY <1>2, <2>2
<1>. QED BY <1>1, <1>2, <1>4, <1>5, <1>6 DEF Completes, Increases, EndsWith

LEMMA PrimedReal ==
  ASSUME FeedInv, NEW f, Lively(chan, f), f = 0 => hist # None
  PROVE  Real(Primed(hist, chan, f), sent, ~stepped)
<1>1. /\ chan \in Seq(Message) /\ \A i \in 1..Len(chan) : Sound(chan[i], sent, ~stepped)
      /\ hist # None => Real(hist, sent, ~stepped)
      /\ sent \subseteq Tick /\ stepped \in BOOLEAN
  BY DEF FeedInv
<1>2. f \in 0..2 /\ f <= Len(chan) /\ Len(chan) \in Nat
  BY <1>1 DEF Lively
<1>3. CASE f = 0
  BY <1>1, <1>3 DEF Primed
<1>4. CASE f # 0
  <2>1. Real(chan[f].data, sent, ~stepped)
    <3>1. f \in 1..Len(chan) /\ chan[f].type = "history"
      BY <1>2, <1>4 DEF Lively
    <3>. QED BY <1>1, <3>1 DEF Sound
  <2>2. PICK h : h = IF f = 1 THEN hist ELSE F!AppendSample(hist, chan[1].data)
    OBVIOUS
  <2>3. h # None => Real(h, sent, ~stepped)
    <3>1. CASE f = 1
      BY <1>1, <2>2, <3>1
    <3>2. CASE f # 1
      <4>1. 1 \in 1..Len(chan) /\ chan[1].type = "snapshot"
        BY <1>2, <1>4, <3>2 DEF Lively
      <4>2. chan[1].data \in sent
        BY <1>1, <4>1 DEF Sound
      <4>. QED BY <1>1, <2>2, <3>2, <4>2, AppendReal
    <3>. QED BY <3>1, <3>2
  <2>4. Real(F!Deeper(h, chan[f].data), sent, ~stepped)
    BY <1>1, <2>1, <2>3, DeeperFacts
  <2>. QED BY <1>4, <2>2, <2>4 DEF Primed
<1>. QED BY <1>3, <1>4

LEMMA CatchInit == F!Init => CatchInv
<1>. SUFFICES ASSUME F!Init PROVE CatchInv
  OBVIOUS
<1>1. /\ clock = 0 /\ sent = {} /\ log = <<>> /\ latest = None /\ chan = <<>> /\ hist = None /\ fresh = 0
      /\ strange = FALSE /\ conn = "connecting"
  BY DEF F!Init
<1>2. Whole(log, sent, clock)
  BY <1>1 DEF Whole
<1>3. Len(log) = 0 /\ Len(chan) = 0
  BY <1>1
<1>4. 0 <= ServerCap
  BY FeedConstants
<1>5. \A i \in 1..Len(chan) : Short(chan[i].data)
  BY <1>3
<1>. QED BY <1>1, <1>2, <1>3, <1>4, <1>5 DEF CatchInv

LEMMA CatchBroadcast ==
  ASSUME FeedInv, CatchInv, NEW now \in Nat, NEW K \in SUBSET Key, F!Broadcast(now, K)
  PROVE  CatchInv'
<1>1. PICK tick : tick = [ts |-> now, val |-> [k \in Key |-> IF k \in K THEN ticks + 1 ELSE NaN]]
  OBVIOUS
<1>2. /\ clock' = now /\ stepped' = (stepped \/ now <= clock)
      /\ log' = F!Log!LastTicks(Append(log, tick)) /\ latest' = tick /\ sent' = sent \cup {tick}
      /\ hist' = hist /\ strange' = strange /\ conn' = conn
      /\ \/ conn = "open" /\ chan' = Append(chan, F!Snapshot(tick)) /\ fresh' = fresh + 1
         \/ conn # "open" /\ chan' = chan /\ fresh' = fresh
  BY <1>1 DEF F!Broadcast, F!Log!Record
<1>3. /\ clock \in Nat /\ ticks \in Nat /\ stepped \in BOOLEAN /\ sent \subseteq Tick
      /\ log \in Seq(Tick) /\ chan \in Seq(Message)
  BY DEF FeedInv, Logged
<1>4. tick \in Tick /\ tick.ts = now
  BY <1>1, <1>3 DEF Tick
<1>5. /\ Len(log) <= ServerCap /\ fresh \in Nat /\ strange \in BOOLEAN
  BY DEF CatchInv
<1>6. /\ log' \in Seq(Tick) /\ log' # <<>> /\ Len(log') <= ServerCap /\ Len(log') <= Len(log) + 1
      /\ Len(log') < ServerCap => Len(log') = Len(log) + 1
      /\ log'[Len(log')] = tick
      /\ \A i \in 1..(Len(log') - 1) : log'[Len(log') - i] = log[Len(log) + 1 - i]
  <2>1. Takes(log', log, tick)
    BY <1>2, <1>3, <1>4, <1>5, LogEnd
  <2>. QED BY <2>1 DEF Takes
<1>7. latest' # None /\ latest' = log'[Len(log')]
  BY <1>2, <1>4, <1>6, NoneApart
<1>8. fresh' \in Nat /\ strange' \in BOOLEAN
  BY <1>2, <1>5
<1>9. ASSUME Orderly'
      PROVE  /\ hist' # None => Short(hist')
             /\ \A i \in 1..Len(chan') : chan'[i].type = "history" => Short(chan'[i].data)
             /\ \A s \in sent' : s.ts <= clock'
             /\ ~strange' /\ Len(log') < ServerCap => Whole(log', sent', clock')
             /\ conn' = "open" => \E f \in 0..2 : OnItsWay(hist', chan', f, log', Owed(log', strange', fresh'), clock')
  <2>1. Orderly /\ clock < now
    <3>1. ~stepped' /\ ServerCap >= ClientCap
      BY <1>9 DEF Orderly
    <3>2. ~stepped /\ ~(now <= clock)
      BY <1>2, <3>1
    <3>3. clock < now
      BY <1>3, <3>2
    <3>. QED BY <3>1, <3>2, <3>3 DEF Orderly
  <2>2. /\ hist # None => Short(hist)
        /\ \A i \in 1..Len(chan) : chan[i].type = "history" => Short(chan[i].data)
        /\ \A s \in sent : s.ts <= clock
        /\ ~strange /\ Len(log) < ServerCap => Whole(log, sent, clock)
        /\ conn = "open" => \E f \in 0..2 : OnItsWay(hist, chan, f, log, Owed(log, strange, fresh), clock)
    BY <2>1 DEF CatchInv
  <2>3. hist' # None => Short(hist')
    BY <1>2, <2>2
  <2>4. /\ F!Snapshot(tick) \in Message /\ F!Snapshot(tick).type = "snapshot" /\ F!Snapshot(tick).data = tick
    BY <1>4 DEF F!Snapshot, Message
  <2>5. \A i \in 1..Len(chan') : chan'[i].type = "history" => Short(chan'[i].data)
    <3>1. CASE chan' = chan
      BY <2>2, <3>1
    <3>2. CASE chan' = Append(chan, F!Snapshot(tick))
      <4>1. /\ Len(chan') = Len(chan) + 1
            /\ \A i \in 1..Len(chan') : chan'[i] = IF i = Len(chan') THEN F!Snapshot(tick) ELSE chan[i]
        BY <1>3, <2>4, <3>2, AppendProperties
      <4>2. ASSUME NEW i \in 1..Len(chan'), chan'[i].type = "history" PROVE Short(chan'[i].data)
        <5>1. i # Len(chan') /\ i \in 1..Len(chan) /\ chan'[i] = chan[i]
          BY <1>3, <2>4, <4>1, <4>2
        <5>. QED BY <2>2, <4>2, <5>1
      <4>. QED BY <4>2
    <3>. QED BY <1>2, <3>1, <3>2
  <2>6. \A s \in sent' : s.ts <= clock'
    <3>1. \A s \in sent : s.ts \in Nat
      BY <1>3 DEF Tick
    <3>. QED BY <1>2, <1>3, <1>4, <2>1, <2>2, <3>1
  <2>7. ASSUME ~strange', Len(log') < ServerCap PROVE Whole(log', sent', clock')
    <3>0. Len(log') = Len(log) + 1 /\ ~strange
      BY <1>2, <1>6, <2>7
    <3>1. Len(log') = Len(log) + 1 /\ Len(log) < ServerCap /\ ~strange
      <4>1. Len(log) \in Nat /\ ServerCap \in Nat /\ Len(log) + 1 < ServerCap
        BY <1>3, <2>7, <3>0, FeedConstants
      <4>. QED BY <3>0, <4>1
    <3>2. PICK p \in Int : /\ p <= clock /\ \A j \in 1..Len(log) : p < log[j].ts
                           /\ \A s \in sent : s.ts = p \/ \E j \in 1..Len(log) : s.ts = log[j].ts
      BY <2>2, <3>1 DEF Whole
    <3>3. \A j \in 1..Len(log) : j \in 1..Len(log') /\ log'[j] = log[j]
      <4>1. PICK n \in Nat : n = Len(log) /\ Len(log') = n + 1
        BY <1>3, <3>1
      <4>2. ASSUME NEW j \in 1..n PROVE log'[j] = log[j]
        <5>1. n + 1 - j \in 1..(n + 1 - 1) /\ (n + 1) - (n + 1 - j) = j
          OBVIOUS
        <5>. QED BY <1>6, <4>1, <5>1
      <4>. QED BY <4>1, <4>2
    <3>4. p <= clock'
      BY <1>2, <1>3, <2>1, <3>2
    <3>5. ASSUME NEW j \in 1..Len(log') PROVE p < log'[j].ts
      <4>1. CASE j = Len(log')
        BY <1>3, <1>4, <1>6, <2>1, <3>2, <4>1
      <4>2. CASE j # Len(log')
        <5>1. j \in 1..Len(log)
          BY <1>3, <3>1, <4>2
        <5>. QED BY <3>2, <3>3, <5>1
      <4>. QED BY <4>1, <4>2
    <3>6. ASSUME NEW s \in sent' PROVE s.ts = p \/ \E j \in 1..Len(log') : s.ts = log'[j].ts
      <4>1. CASE s = tick
        <5>1. Len(log') \in 1..Len(log')
          BY <1>3, <3>1
        <5>. QED BY <1>6, <4>1, <5>1
      <4>2. CASE s \in sent
        BY <3>2, <3>3, <4>2
      <4>. QED BY <1>2, <4>1, <4>2
    <3>. QED BY <3>4, <3>5, <3>6 DEF Whole
  <2>8. ASSUME conn' = "open"
        PROVE  \E f \in 0..2 : OnItsWay(hist', chan', f, log', Owed(log', strange', fresh'), clock')
    <3>1. conn = "open" /\ chan' = Append(chan, F!Snapshot(tick)) /\ fresh' = fresh + 1
      BY <1>2, <2>8
    <3>2. PICK f \in 0..2 : OnItsWay(hist, chan, f, log, Owed(log, strange, fresh), clock)
      BY <2>2, <3>1
    <3>3. Lively(chan, f) /\ (f = 0 => hist # None) /\ Completes(Coming(hist, chan, f), log, Owed(log, strange, fresh), clock)
      BY <3>2 DEF OnItsWay
    <3>4. PICK n \in Nat, c \in Seq(Message) : n = Len(chan) /\ c = chan'
      <4>1. Len(chan) \in Nat
        BY <1>3
      <4>2. chan' \in Seq(Message)
        BY <1>3, <2>4, <3>1, AppendProperties
      <4>. QED BY <4>1, <4>2
    <3>5. Len(c) = n + 1 /\ c[n + 1] = F!Snapshot(tick) /\ \A i \in 1..n : c[i] = chan[i]
      BY <1>3, <2>4, <3>1, <3>4, AppendProperties
    <3>6. f <= n /\ f \in Nat
      BY <3>3, <3>4 DEF Lively
    <3>7. Lively(c, f)
      <4>1. ASSUME NEW i \in (f + 1)..(n + 1) PROVE c[i].type = "snapshot"
        <5>1. CASE i = n + 1
          BY <2>4, <3>5, <5>1
        <5>2. CASE i # n + 1
          <6>1. i \in (f + 1)..n /\ i \in 1..n
            BY <3>6, <5>2
          <6>. QED BY <3>3, <3>4, <3>5, <6>1 DEF Lively
        <5>. QED BY <5>1, <5>2
      <4>2. f # 0 => f \in 1..n /\ 1 \in 1..n
        BY <3>6
      <4>. QED BY <3>3, <3>4, <3>5, <3>6, <4>1, <4>2 DEF Lively
    <3>8. Primed(hist, c, f) = Primed(hist, chan, f)
      <4>1. f # 0 => f \in 1..n /\ 1 \in 1..n
        BY <3>6
      <4>. QED BY <3>5, <4>1 DEF Primed
    <3>9. PICK b \in Seq(Nat) : b = Primed(hist, chan, f).ts
      BY <3>3, PrimedReal DEF Real
    <3>10. PICK w \in Seq(Nat) : w = Coming(hist, chan, f)
      BY <1>3, <3>3, <3>9, ComingFacts DEF Joined
    <3>11. PICK v \in Seq(Nat) : v = Coming(hist, c, f)
      BY <3>7, <3>8, <3>9, ComingFacts DEF Joined
    <3>12. PICK a \in Nat : a = Len(b)
      OBVIOUS
    <3>13. Len(w) = a + n - f /\ \A i \in 1..(a + n - f) : w[i] = IF i <= a THEN b[i] ELSE chan[f + i - a].data.ts
      <4>1. Joined(w, b, chan, f)
        BY <1>3, <3>3, <3>9, <3>10, ComingFacts
      <4>. QED BY <3>4, <3>12, <4>1 DEF Joined
    <3>14. Len(v) = a + (n + 1) - f /\ \A i \in 1..(a + (n + 1) - f) : v[i] = IF i <= a THEN b[i] ELSE c[f + i - a].data.ts
      <4>1. Joined(v, b, c, f)
        BY <3>7, <3>8, <3>9, <3>11, ComingFacts
      <4>. QED BY <3>5, <3>12, <4>1 DEF Joined
    <3>15. Len(v) = Len(w) + 1
      BY <3>6, <3>13, <3>14
    <3>16. ASSUME NEW i \in 1..Len(w) PROVE v[i] = w[i]
      <4>1. i \in 1..(a + n - f) /\ i \in 1..(a + (n + 1) - f)
        BY <3>6, <3>13
      <4>2. CASE i <= a
        BY <3>13, <3>14, <4>1, <4>2
      <4>3. CASE ~(i <= a)
        <5>1. f + i - a \in 1..n
          BY <3>6, <4>1, <4>3
        <5>. QED BY <3>5, <3>13, <3>14, <4>1, <4>3, <5>1
      <4>. QED BY <4>2, <4>3
    <3>17. v[Len(v)] = tick.ts
      <4>1. /\ a + (n + 1) - f \in 1..(a + (n + 1) - f) /\ ~(a + (n + 1) - f <= a)
            /\ f + (a + (n + 1) - f) - a = n + 1
        BY <3>6
      <4>. QED BY <2>4, <3>5, <3>14, <4>1
    <3>18. PICK m \in Nat : m = Owed(log', strange', fresh') /\ m <= Len(log') /\ m <= Owed(log, strange, fresh) + 1
      <4>1. PICK r \in Seq(Tick) : r = log'
        BY <1>6
      <4>0. PICK new \in Nat : new = fresh + 1
        BY <1>5
      <4>2. Owed(r, strange, fresh + 1) \in Nat /\ Owed(r, strange, fresh + 1) <= Len(r)
        BY <1>5, <4>0, OwedFacts
      <4>3. Owed(r, strange, fresh + 1) <= Owed(log, strange, fresh) + 1
        BY <1>3, <1>5, <1>6, <4>1, OwedFacts
      <4>. QED BY <1>2, <3>1, <4>1, <4>2, <4>3
    <3>24. PICK q : q = Owed(log, strange, fresh)
      OBVIOUS
    <3>19. PICK r \in Seq(Tick) : r = log' /\ q = Owed(log, strange, fresh)
      BY <1>6, <3>24
    <3>20. Completes(w, log, q, clock) /\ clock < tick.ts /\ m <= q + 1 /\ m <= Len(r)
      BY <1>4, <2>1, <3>3, <3>10, <3>18, <3>19
    <3>21. r[Len(r)] = tick /\ \A i \in 1..(Len(r) - 1) : r[Len(r) - i] = log[Len(log) + 1 - i]
      BY <1>6, <3>19
    <3>22. Completes(v, r, m, tick.ts)
      BY <1>3, <1>4, <3>15, <3>16, <3>17, <3>20, <3>21, CompletesMore
    <3>23. OnItsWay(hist', chan', f, log', Owed(log', strange', fresh'), clock')
      BY <1>2, <1>4, <3>3, <3>4, <3>7, <3>11, <3>18, <3>19, <3>22 DEF OnItsWay
    <3>. QED BY <3>23
  <2>. QED BY <2>3, <2>5, <2>6, <2>7, <2>8
<1>. QED BY <1>6, <1>7, <1>8, <1>9 DEF CatchInv

LEMMA PayloadTimes ==
  ASSUME log \in Seq(Tick)
  PROVE  F!Payload.data.ts \in Seq(Nat) /\ Len(F!Payload.data.ts) = Len(log) /\ \A i \in 1..Len(log) : F!Payload.data.ts[i] = log[i].ts
<1>1. F!Payload.data.ts = [i \in 1..Len(log) |-> log[i].ts]
  BY DEF F!Payload
<1>2. ASSUME NEW i \in 1..Len(log) PROVE log[i].ts \in Nat
  <2>1. log[i] \in Tick
    BY ElementOfSeq
  <2>. QED BY <2>1 DEF Tick
<1>. QED BY <1>1, <1>2

\* A history that is deeper than the log of a server that has everything is the log, after
\* a stand-in.
LEMMA DeepIsWhole ==
  ASSUME NEW l \in Seq(Tick), NEW all \in SUBSET Tick, NEW now, Whole(l, all, now),
         NEW times \in Seq(Nat), Len(times) = Len(l), \A i \in 1..Len(l) : times[i] = l[i].ts, Increases(times),
         NEW h, Real(h, all, TRUE), Len(h.ts) > Len(l)
  PROVE  Len(h.ts) = Len(l) + 1 /\ \A i \in 1..Len(l) : h.ts[i + 1] = l[i].ts
<1>1. PICK a \in Seq(Nat) : a = h.ts
  BY DEF Real
<1>2. Increases(a) /\ Len(a) > Len(times)
  BY <1>1 DEF Real
<1>3. PICK p \in Int : /\ \A j \in 1..Len(l) : p < l[j].ts
                       /\ \A s \in all : s.ts = p \/ \E j \in 1..Len(l) : s.ts = l[j].ts
  BY DEF Whole
<1>4. ASSUME NEW i \in 1..Len(a) PROVE a[i] = p \/ \E j \in 1..Len(l) : a[i] = l[j].ts
  <2>1. [ts |-> a[i], val |-> [k \in Key |-> F!ReadingAt(h, k, i)]] \in all
    BY <1>1, <1>4 DEF Real
  <2>. QED BY <1>3, <2>1
<1>5. ASSUME NEW i \in 2..Len(a) PROVE \E j \in 1..Len(times) : a[i] = times[j]
  <2>1. 1 \in 1..Len(a) /\ i \in 1..Len(a) /\ 1 < i
    BY <1>5
  <2>2. a[1] < a[i] /\ a[1] \in Nat /\ a[i] \in Nat
    BY <1>2, <2>1, ElementOfSeq DEF Increases
  <2>3. p <= a[1]
    <3>1. CASE a[1] = p
      BY <3>1
    <3>2. CASE \E j \in 1..Len(l) : a[1] = l[j].ts
      <4>1. PICK j \in 1..Len(l) : a[1] = l[j].ts
        BY <3>2
      <4>. QED BY <1>3, <2>2, <4>1
    <3>. QED BY <1>4, <2>1, <3>1, <3>2
  <2>4. a[i] # p
    BY <2>2, <2>3
  <2>5. PICK j \in 1..Len(l) : a[i] = l[j].ts
    BY <1>4, <2>1, <2>4
  <2>. QED BY <2>5
<1>6. Len(a) = Len(times) + 1 /\ \A i \in 1..Len(times) : a[i + 1] = times[i]
  BY <1>2, <1>5, Dense
<1>. QED BY <1>1, <1>6

LEMMA CatchOpen ==
  ASSUME FeedInv, CatchInv, F!Open
  PROVE  CatchInv'
<1>1. /\ clock \in Nat /\ stepped \in BOOLEAN /\ sent \subseteq Tick /\ log \in Seq(Tick)
      /\ Logged(log, sent, ~stepped, clock)
      /\ latest # None => latest \in sent
      /\ hist # None => Real(hist, sent, ~stepped)
  BY DEF FeedInv, Logged
<1>2. PICK now : now = IF latest # None \/ clock = MaxTicks THEN clock ELSE clock + 1
  OBVIOUS
<1>3. PICK first : first = IF latest # None THEN latest ELSE [ts |-> now, val |-> [k \in Key |-> NaN]]
  OBVIOUS
<1>4. /\ clock' = now /\ chan' = <<F!Snapshot(first), F!Payload>> /\ sent' = sent \cup {first}
      /\ strange' = (strange \/ (latest = None /\ sent # {})) /\ conn' = "open" /\ fresh' = 0
      /\ stepped' = stepped /\ log' = log /\ latest' = latest /\ hist' = hist
  BY <1>2, <1>3 DEF F!Open
<1>5. now \in Nat /\ clock <= now
  BY <1>1, <1>2
<1>6. first \in Tick
  BY <1>1, <1>3, <1>5 DEF Tick
<1>7. sent \subseteq sent' /\ first \in sent' /\ sent' \subseteq Tick
  BY <1>1, <1>4, <1>6
<1>8. /\ Len(log) <= ServerCap /\ strange \in BOOLEAN
      /\ (latest = None) = (log = <<>>)
      /\ latest # None => latest = log[Len(log)]
  BY DEF CatchInv
<1>9. /\ Len(log') <= ServerCap /\ fresh' \in Nat /\ strange' \in BOOLEAN
      /\ (latest' = None) = (log' = <<>>)
      /\ latest' # None => latest' = log'[Len(log')]
  BY <1>4, <1>8
<1>10. ASSUME Orderly'
       PROVE  /\ hist' # None => Short(hist')
              /\ \A i \in 1..Len(chan') : chan'[i].type = "history" => Short(chan'[i].data)
              /\ \A s \in sent' : s.ts <= clock'
              /\ ~strange' /\ Len(log') < ServerCap => Whole(log', sent', clock')
              /\ conn' = "open" => \E f \in 0..2 : OnItsWay(hist', chan', f, log', Owed(log', strange', fresh'), clock')
  <2>1. ~stepped /\ ServerCap >= ClientCap /\ Orderly
    BY <1>4, <1>10 DEF Orderly
  <2>2. /\ hist # None => Short(hist)
        /\ \A s \in sent : s.ts <= clock
        /\ ~strange /\ Len(log) < ServerCap => Whole(log, sent, clock)
    BY <2>1 DEF CatchInv
  <2>3. hist' # None => Short(hist')
    BY <1>4, <2>2
  <2>4. PICK d : d = F!Payload.data
    OBVIOUS
  <2>5. /\ d.ts \in Seq(Nat) /\ Len(d.ts) = Len(log) /\ \A i \in 1..Len(log) : d.ts[i] = log[i].ts
        /\ Short(d)
    BY <1>1, <1>8, <2>4, PayloadTimes DEF Short
  <2>6. /\ F!Payload \in Message /\ F!Payload.type = "history" /\ Real(d, sent, ~stepped)
    BY <2>4, PayloadReal
  <2>7. PICK c \in Seq(Message) : c = chan'
    <3>1. F!Snapshot(first) \in Message
      BY <1>6 DEF F!Snapshot, Message
    <3>2. PICK one \in Message, two \in Message : one = F!Snapshot(first) /\ two = F!Payload
      BY <2>6, <3>1
    <3>3. <<one, two>> \in Seq(Message)
      OBVIOUS
    <3>. QED BY <1>4, <3>2, <3>3
  <2>8. /\ Len(c) = 2 /\ c[1] = F!Snapshot(first) /\ c[2] = F!Payload
        /\ c[1].type = "snapshot" /\ c[1].data = first /\ c[2].type = "history" /\ c[2].data = d
    BY <1>4, <2>4, <2>6, <2>7 DEF F!Snapshot
  <2>9. \A i \in 1..Len(chan') : chan'[i].type = "history" => Short(chan'[i].data)
    <3>1. ASSUME NEW i \in 1..2, c[i].type = "history" PROVE Short(c[i].data)
      <4>1. i = 2
        BY <2>8, <3>1
      <4>. QED BY <2>5, <2>8, <4>1
    <3>. QED BY <2>7, <2>8, <3>1
  <2>10. first.ts <= now
    <3>1. CASE latest # None
      BY <1>1, <1>2, <1>3, <2>2, <3>1
    <3>2. CASE latest = None
      BY <1>3, <1>5, <3>2
    <3>. QED BY <3>1, <3>2
  <2>11. \A s \in sent' : s.ts <= now
    <3>1. \A s \in sent : s.ts \in Nat
      BY <1>1 DEF Tick
    <3>. QED BY <1>1, <1>4, <1>5, <2>2, <2>10, <3>1
  <2>12. ASSUME ~strange', Len(log) < ServerCap PROVE Whole(log, sent', now)
    <3>1. ~strange /\ (latest # None \/ sent = {})
      BY <1>4, <2>12
    <3>2. CASE latest # None
      <4>1. sent' = sent /\ now = clock
        BY <1>1, <1>2, <1>3, <1>4, <3>2
      <4>. QED BY <2>2, <2>12, <3>1, <4>1
    <3>3. CASE latest = None
      <4>1. sent' = {first} /\ first.ts = now /\ log = <<>>
        BY <1>3, <1>4, <1>8, <3>1, <3>3
      <4>2. Len(log) = 0
        BY <4>1
      <4>. QED BY <1>5, <4>1, <4>2 DEF Whole
    <3>. QED BY <3>2, <3>3
  <2>13. PICK mine : mine = F!AppendSample(hist, first)
    OBVIOUS
  <2>14. Real(mine, sent', TRUE) /\ Short(mine)
    <3>1. hist # None => Real(hist, sent', TRUE) /\ Short(hist)
      BY <1>1, <1>7, <2>1, <2>2, RealKeeps
    <3>2. Real(mine, sent', TRUE)
      BY <1>7, <2>13, <3>1, AppendReal
    <3>3. Short(mine)
      BY <1>7, <2>1, <2>13, <3>1, AppendShort
    <3>. QED BY <3>2, <3>3
  <2>15. Real(d, sent', TRUE)
    BY <1>7, <2>1, <2>6, RealKeeps
  <2>16. PICK both : both = F!Deeper(mine, d)
    OBVIOUS
  <2>17. /\ Real(both, sent', TRUE)
         /\ (both = mine /\ Len(mine.ts) > Len(d.ts)) \/ both = d
    <3>1. PICK all : all = sent'
      OBVIOUS
    <3>2. (mine # None => Real(mine, all, TRUE)) /\ Real(d, all, TRUE)
      BY <2>14, <2>15, <3>1
    <3>3. /\ Real(F!Deeper(mine, d), all, TRUE)
          /\ \/ F!Deeper(mine, d) = mine /\ mine # None /\ Len(mine.ts) > Len(d.ts)
             \/ F!Deeper(mine, d) = d
      BY <3>2, DeeperFacts
    <3>. QED BY <2>16, <3>1, <3>3
  <2>18. Primed(hist, c, 2) = both
    BY <2>8, <2>13, <2>16 DEF Primed
  <2>19. PICK b \in Seq(Nat) : b = both.ts
    BY <2>17 DEF Real
  <2>20. Increases(b) /\ \A i \in 1..Len(b) : b[i] <= now
    <3>1. ASSUME NEW i \in 1..Len(b) PROVE b[i] <= now
      <4>1. [ts |-> b[i], val |-> [k \in Key |-> F!ReadingAt(both, k, i)]] \in sent'
        BY <2>17, <2>19, <3>1 DEF Real
      <4>. QED BY <2>11, <4>1
    <3>. QED BY <2>17, <2>19, <3>1 DEF Real
  <2>21. PICK n \in Nat : n = Owed(log, strange', 0) /\ n <= Len(log) /\ (strange' => n = 0)
    <3>1. PICK odd \in BOOLEAN : odd = strange'
      BY <1>9
    <3>2. Owed(log, odd, 0) \in Nat /\ Owed(log, odd, 0) <= Len(log) /\ (odd => Owed(log, odd, 0) = 0)
      BY <1>1, <3>1, OwedFacts
    <3>. QED BY <3>1, <3>2
  <2>22. EndsWith(b, log, n)
    <3>1. CASE strange'
      <4>1. n = 0
        BY <2>21, <3>1
      <4>. QED BY <4>1, <1>1 DEF EndsWith
    <3>2. CASE both = d
      <4>1. PICK k \in Nat : k = Len(log)
        BY <1>1
      <4>2. Len(b) = k /\ \A i \in 1..k : b[i] = log[i].ts
        BY <2>5, <2>19, <3>2, <4>1
      <4>3. ASSUME NEW i \in 0..(n - 1) PROVE b[k - i] = log[k - i].ts
        <5>1. k - i \in 1..k
          BY <2>21, <4>1
        <5>. QED BY <4>2, <5>1
      <4>. QED BY <2>21, <4>1, <4>2, <4>3 DEF EndsWith
    <3>3. CASE ~strange' /\ both # d
      <4>1. both = mine /\ Len(b) > Len(log)
        BY <2>5, <2>17, <2>19, <3>3
      <4>2. Len(b) <= ServerCap
        BY <2>14, <2>19, <4>1 DEF Short
      <4>3. Len(log) < ServerCap
        BY <1>1, <4>1, <4>2, FeedConstants
      <4>4. Whole(log, sent', now)
        BY <2>12, <3>3, <4>3
      <4>5. Increases(d.ts)
        BY <2>15 DEF Real
      <4>6. PICK times \in Seq(Nat), all \in SUBSET Tick : times = d.ts /\ all = sent'
        BY <1>7, <2>5
      <4>7. Len(both.ts) = Len(log) + 1 /\ \A i \in 1..Len(log) : both.ts[i + 1] = log[i].ts
        BY <1>1, <2>5, <2>17, <2>19, <4>1, <4>4, <4>5, <4>6, DeepIsWhole
      <4>8. PICK k \in Nat : k = Len(log)
        BY <1>1
      <4>9. Len(b) = k + 1 /\ \A i \in 1..k : b[i + 1] = log[i].ts
        BY <2>19, <4>7, <4>8
      <4>10. ASSUME NEW i \in 0..(n - 1) PROVE b[k + 1 - i] = log[k - i].ts
        <5>1. k - i \in 1..k /\ (k - i) + 1 = k + 1 - i
          BY <2>21, <4>8
        <5>. QED BY <4>9, <5>1
      <4>11. n <= Len(b) /\ n <= Len(log)
        BY <2>21, <4>8, <4>9
      <4>12. \A i \in 0..(n - 1) : b[Len(b) - i] = log[Len(log) - i].ts
        BY <4>8, <4>9, <4>10
      <4>. QED BY <2>21, <4>11, <4>12 DEF EndsWith
    <3>. QED BY <3>1, <3>2, <3>3
  <2>23. Lively(c, 2)
    BY <2>8 DEF Lively
  <2>24. PICK w \in Seq(Nat) : w = Coming(hist, c, 2)
    BY <2>18, <2>19, <2>23, ComingFacts DEF Joined
  <2>25. Len(w) = Len(b) /\ \A i \in 1..Len(b) : w[i] = b[i]
    <3>1. Joined(w, b, c, 2)
      BY <2>18, <2>19, <2>23, <2>24, ComingFacts
    <3>2. PICK k \in Nat : k = Len(b)
      OBVIOUS
    <3>3. k + 2 - 2 = k
      BY <3>2
    <3>. QED BY <2>8, <3>1, <3>2, <3>3 DEF Joined
  <2>26. Completes(b, log, n, now)
    BY <2>20, <2>22 DEF Completes
  <2>27. Completes(w, log, n, now)
    <3>1. /\ Len(w) = Len(b) - 0 /\ \A i \in 1..Len(w) : w[i] = b[i + 0]
          /\ n <= Len(w)
      <4>1. Len(b) \in Nat /\ n <= Len(b)
        BY <2>22 DEF EndsWith
      <4>2. Len(w) = Len(b) - 0 /\ \A i \in 1..Len(b) : i + 0 = i
        BY <2>25, <4>1
      <4>. QED BY <2>25, <4>1, <4>2
    <3>. QED BY <2>26, <3>1, CompletesLess
  <2>28. OnItsWay(hist', chan', 2, log', Owed(log', strange', fresh'), clock')
    BY <1>4, <2>7, <2>21, <2>23, <2>24, <2>27 DEF OnItsWay
  <2>29. ~strange' /\ Len(log') < ServerCap => Whole(log', sent', clock')
    BY <1>4, <2>12
  <2>30. \A s \in sent' : s.ts <= clock'
    BY <1>4, <2>11
  <2>31. \E f \in 0..2 : OnItsWay(hist', chan', f, log', Owed(log', strange', fresh'), clock')
    BY <2>28
  <2>. QED BY <2>3, <2>9, <2>29, <2>30, <2>31
<1>. QED BY <1>9, <1>10 DEF CatchInv

\* No history is the same as no history.
LEMMA LongerIsOne ==
  ASSUME NEW real, NEW ordered, NEW base, NEW tick, Real(Longer(base, tick), real, ordered)
  PROVE  Longer(base, tick) # None
<1>1. PICK K : K = DOMAIN base.series \cup F!InSample(tick)
  OBVIOUS
<1>2. PICK times : times = Longer(base, tick).ts
  OBVIOUS
<1>6. PICK rows : rows = Longer(base, tick).series
  OBVIOUS
<1>7. Longer(base, tick) = [ts |-> times, series |-> rows] /\ rows = [k \in K |-> rows[k]]
  BY <1>1, <1>2, <1>6 DEF Longer
<1>3. times \in Seq(Nat) /\ K \subseteq Key /\ \A k \in K : rows[k] \in Seq(Nat \cup {NaN})
  BY <1>2, <1>6, <1>7 DEF Real
<1>4. rows \in [K -> Seq(Nat \cup {NaN})]
  BY <1>7, <1>3
<1>5. Longer(base, tick) \in History
  BY <1>3, <1>4, <1>7 DEF History
<1>. QED BY <1>5, NoneApart

\* Where the elements of a sequence are when one is added and the first o go.
LEMMA SkippedFacts ==
  ASSUME NEW n \in Nat, NEW cap \in Nat \ {0}
  PROVE  Skipped(n + 1, cap) \in Nat /\ Skipped(n + 1, cap) <= n /\ (Skipped(n + 1, cap) # 0 => n + 1 - Skipped(n + 1, cap) = cap)
BY DEF Skipped

LEMMA Shift ==
  ASSUME NEW a \in Nat, NEW o \in Nat, NEW d \in Nat, NEW m \in Nat, d = a + 1 - o, o <= a, NEW i \in 1..(d + m)
  PROVE  /\ i + o \in 1..(a + m + 1)
         /\ i < d => i \in 1..d /\ i + o <= a /\ i + o # a + 1
         /\ i = d => i \in 1..d /\ i + o = a + 1
         /\ i > d => i - d \in 1..m /\ (i - d) + 1 = (i + o) - a /\ ~(i <= d) /\ ~(i + o <= a)
OBVIOUS

LEMMA NotEmpty == ASSUME NEW Values, NEW s \in Seq(Values), s # <<>> PROVE \E m \in Nat : Len(s) = m + 1
<1>1. Len(s) \in Nat /\ Len(s) # 0
  BY EmptySeq
<1>2. Len(s) - 1 \in Nat /\ Len(s) = (Len(s) - 1) + 1
  BY <1>1
<1>. QED BY <1>2

\* What the page reads next: a snapshot after the backlog is newer than all that the page has.
LEMMA CatchReads ==
  ASSUME FeedInv, NEW c \in Seq(Message), c = chan, c # <<>>, NEW l, NEW n \in Nat, n <= ClientCap,
         NEW now, ~stepped, NEW f \in 0..2, OnItsWay(hist, c, f, l, n, now),
         NEW mine, mine = IF c[1].type = "snapshot" THEN F!AppendSample(hist, c[1].data) ELSE F!Deeper(hist, c[1].data)
  PROVE  OnItsWay(mine, Tail(c), IF f = 0 THEN 0 ELSE f - 1, l, n, now)
<1>0. /\ Lively(c, f) /\ (f = 0 => hist # None) /\ Completes(Coming(hist, c, f), l, n, now)
  BY Zenon DEF OnItsWay
<1>1. PICK m \in Nat : Len(c) = m + 1
  BY NotEmpty
<1>2. PICK t \in Seq(Message) : t = Tail(c)
  BY HeadTailProperties
<1>3. Len(t) = m /\ \A i \in 1..m : t[i] = c[i + 1]
  BY <1>1, <1>2
<1>4. PICK g \in 0..2 : g = IF f = 0 THEN 0 ELSE f - 1
  OBVIOUS
<1>5. Lively(t, g)
  <2>1. \A i \in (g + 1)..m : i + 1 \in (f + 1)..(m + 1) /\ i \in 1..m
    BY <1>4
  <2>2. \A i \in (g + 1)..m : t[i].type = "snapshot"
    BY <1>0, <1>1, <1>3, <2>1 DEF Lively
  <2>3. g # 0 => g = 1 /\ f = 2
    BY <1>4
  <2>4. g # 0 => 1 \in 1..m /\ t[1].type = "history"
    BY <1>0, <1>1, <1>3, <2>3 DEF Lively
  <2>5. g <= m
    BY <1>0, <1>1, <1>4 DEF Lively
  <2>. QED BY <1>3, <2>2, <2>3, <2>4, <2>5 DEF Lively
<1>6. Sound(c[1], sent, TRUE) /\ c[1] \in Message /\ sent \subseteq Tick /\ (hist # None => Real(hist, sent, TRUE))
  <2>1. 1 \in 1..Len(c)
    BY <1>1
  <2>2. /\ sent \subseteq Tick /\ Sound(c[1], sent, ~stepped) /\ c[1] \in Message
        /\ hist # None => Real(hist, sent, ~stepped)
    BY <2>1, ElementOfSeq DEF FeedInv
  <2>3. (~stepped) = TRUE
    OBVIOUS
  <2>. QED BY <2>2, <2>3
<1>7. CASE f # 0
  <2>1. Primed(mine, t, g) = Primed(hist, c, f)
    <3>1. CASE f = 1
      <4>1. c[1].type = "history"
        BY <1>0, <3>1 DEF Lively
      <4>. QED BY <1>4, <3>1, <4>1 DEF Primed
    <3>2. CASE f = 2
      <4>1. c[1].type = "snapshot" /\ 1 \in 1..m
        BY <1>0, <1>1, <3>2 DEF Lively
      <4>2. t[1] = c[2]
        BY <1>3, <4>1
      <4>. QED BY <1>4, <3>2, <4>1, <4>2 DEF Primed
    <3>. QED BY <1>7, <3>1, <3>2
  <2>2. Waiting(t, g) = Waiting(c, f)
    <3>1. m - g = Len(c) - f
      BY <1>1, <1>4, <1>7
    <3>2. ASSUME NEW i \in 1..(m - g) PROVE t[g + i] = c[f + i]
      <4>1. g + i \in 1..m /\ (g + i) + 1 = f + i
        BY <1>4, <1>7
      <4>. QED BY <1>3, <4>1
    <3>. QED BY <1>3, <3>1, <3>2 DEF Waiting
  <2>3. Coming(mine, t, g) = Coming(hist, c, f)
    BY <2>1, <2>2 DEF Coming
  <2>4. g = 0 => mine # None
    <3>1. ASSUME g = 0 PROVE c[1].type = "history"
      <4>1. f = 1
        BY <1>4, <1>7, <3>1
      <4>. QED BY <1>0, <4>1 DEF Lively
    <3>2. ASSUME c[1].type = "history" PROVE mine # None
      <4>1. c[1].data \in History
        BY <1>6, <3>2 DEF Message
      <4>2. mine = F!Deeper(hist, c[1].data)
        BY <3>2
      <4>3. c[1].data.ts \in Seq(Nat)
        BY <4>1 DEF History
      <4>4. CASE hist = None
        BY <4>1, <4>2, <4>3, <4>4, NoneApart DEF F!Deeper, F!Depth
      <4>5. CASE hist # None
        BY <4>1, <4>2, <4>5, NoneApart DEF F!Deeper
      <4>. QED BY <4>4, <4>5
    <3>. QED BY <3>1, <3>2
  <2>. QED BY <1>0, <1>2, <1>4, <1>5, <2>3, <2>4 DEF OnItsWay
<1>8. CASE f = 0
  <2>1. hist # None /\ Real(hist, sent, TRUE) /\ g = 0
    BY <1>0, <1>4, <1>6, <1>8
  <2>2. c[1].type = "snapshot"
    <3>1. 1 \in (f + 1)..Len(c)
      BY <1>1, <1>8
    <3>. QED BY <1>0, <3>1 DEF Lively
  <2>3. PICK tick \in Tick : tick = c[1].data /\ tick \in sent
    <3>1. c[1].data \in Tick /\ c[1].data \in sent
      BY <1>6, <2>2 DEF Sound
    <3>. QED BY <3>1
  <2>4. mine = F!AppendSample(hist, tick)
    BY <2>2, <2>3
  <2>5. PICK b \in Seq(Nat), a \in Nat : b = hist.ts /\ a = Len(b)
    BY <2>1 DEF Real
  <2>6. PICK w : w = Coming(hist, c, 0)
    OBVIOUS
  <2>7. /\ w \in Seq(Nat) /\ Len(w) = a + m + 1
        /\ \A i \in 1..(a + m + 1) : w[i] = IF i <= a THEN b[i] ELSE c[i - a].data.ts
    <3>1. Joined(w, b, c, 0)
      BY <1>0, <1>8, <2>5, <2>6, ComingFacts DEF Primed
    <3>0. a \in Nat /\ m \in Nat /\ Len(b) = a /\ Len(c) = m + 1
      BY <1>1, <2>5
    <3>2. a + Len(c) - 0 = a + m + 1 /\ \A i \in 1..(a + m + 1) : 0 + i - a = i - a
      BY <3>0
    <3>3. w \in Seq(Nat) /\ Len(w) = a + m + 1
      BY <3>0, <3>1, <3>2 DEF Joined
    <3>4. \A i \in 1..(a + m + 1) : w[i] = IF i <= a THEN b[i] ELSE c[i - a].data.ts
      BY <3>0, <3>1, <3>2 DEF Joined
    <3>. QED BY <3>3, <3>4
  <2>8. Completes(w, l, n, now)
    BY <1>0, <1>8, <2>6
  <2>9. w[a + 1] = tick.ts
    <3>1. a + 1 \in 1..(a + m + 1) /\ ~(a + 1 <= a) /\ (a + 1) - a = 1
      OBVIOUS
    <3>. QED BY <2>3, <2>7, <3>1
  <2>10. b = <<>> \/ tick.ts > b[Len(b)]
    <3>1. CASE a = 0
      BY <2>5, <3>1, EmptySeq
    <3>2. CASE a # 0
      <4>1. a \in 1..(a + m + 1) /\ a + 1 \in 1..(a + m + 1) /\ a < a + 1 /\ a <= a
        BY <3>2
      <4>2. w[a] < w[a + 1]
        BY <2>7, <2>8, <4>1 DEF Completes, Increases
      <4>3. w[a] = b[a] /\ w[a] \in Nat /\ tick.ts \in Nat
        BY <2>7, <4>1, ElementOfSeq DEF Tick
      <4>. QED BY <2>5, <2>9, <4>2, <4>3
    <3>. QED BY <3>1, <3>2
  <2>11. mine = Longer(hist, tick)
    <3>1. F!AppendSample(hist, tick) =
          IF hist.ts # <<>> /\ tick.ts <= hist.ts[Len(hist.ts)] THEN hist ELSE Longer(hist, tick)
      BY <2>1 DEF F!AppendSample, F!Last, Longer
    <3>2. tick.ts \in Nat /\ (b # <<>> => b[Len(b)] \in Nat)
      <4>1. b # <<>> => Len(b) \in 1..Len(b)
        OBVIOUS
      <4>. QED BY <4>1, ElementOfSeq DEF Tick
    <3>. QED BY <2>4, <2>5, <2>10, <3>1, <3>2
  <2>12. Real(mine, sent, TRUE)
    BY <1>6, <2>1, <2>3, <2>4, AppendReal
  <2>13. mine # None
    BY <2>11, <2>12, LongerIsOne
  <2>14. PICK e \in Nat, o \in Nat : e = tick.ts /\ o = Skipped(a + 1, ClientCap)
    <3>1. tick.ts \in Nat /\ Skipped(a + 1, ClientCap) \in Nat
      BY FeedConstants DEF Tick, Skipped
    <3>. QED BY <3>1
  <2>15. PICK s : s = F!LastOf(Append(b, e), ClientCap)
    OBVIOUS
  <2>16. Follows(s, b, e, a, o, Nat)
    BY <2>5, <2>14, <2>15, Lengthened
  <2>17. mine.ts = s
    BY <2>5, <2>11, <2>14, <2>15 DEF Longer
  <2>18. s \in Seq(Nat) /\ Len(s) = a + 1 - o /\ \A i \in 1..(a + 1 - o) : s[i] = IF i + o = a + 1 THEN e ELSE b[i + o]
    BY <2>16 DEF Follows
  <2>19. PICK v : v = Coming(mine, t, 0)
    OBVIOUS
  <2>20. o <= a /\ (o # 0 => a + 1 - o = ClientCap)
    BY <2>5, <2>14, FeedConstants, SkippedFacts
  <2>21. PICK d \in Nat : d = a + 1 - o
    BY <2>5, <2>14, <2>20
  <2>22. /\ v \in Seq(Nat) /\ Len(v) = d + m
         /\ \A i \in 1..(d + m) : v[i] = IF i <= d THEN s[i] ELSE t[i - d].data.ts
    <3>1. Lively(t, 0)
      BY <1>5, <2>1
    <3>2. Primed(mine, t, 0).ts = s
      BY <2>17 DEF Primed
    <3>3. Joined(v, s, t, 0)
      BY <2>18, <2>19, <3>1, <3>2, ComingFacts
    <3>4. d + Len(t) - 0 = d + m
      BY <1>1, <1>3, <2>21
    <3>5. \A i \in Int : 0 + i - d = i - d
      BY <2>21
    <3>6. Len(s) = d
      BY <2>18, <2>21
    <3>. QED BY <3>3, <3>4, <3>5, <3>6 DEF Joined
  <2>23. Len(v) = Len(w) - o
    BY <2>7, <2>21, <2>22
  <2>24. ASSUME NEW i \in 1..(d + m) PROVE v[i] = w[i + o]
    <3>0. /\ i + o \in 1..(a + m + 1)
          /\ i < d => i \in 1..d /\ i + o <= a /\ i + o # a + 1
          /\ i = d => i \in 1..d /\ i + o = a + 1
          /\ i > d => i - d \in 1..m /\ (i - d) + 1 = (i + o) - a /\ ~(i <= d) /\ ~(i + o <= a)
      <4>1. a \in Nat /\ o \in Nat /\ d \in Nat /\ m \in Nat /\ d = a + 1 - o /\ o <= a
        BY <1>1, <2>5, <2>14, <2>20, <2>21
      <4>. QED BY <4>1, Shift
    <3>1. (i < d => i <= d) /\ (i = d => i <= d) /\ (i < d \/ i = d \/ i > d)
      BY <2>21
    <3>5. /\ w[i + o] = IF i + o <= a THEN b[i + o] ELSE c[(i + o) - a].data.ts
          /\ v[i] = IF i <= d THEN s[i] ELSE t[i - d].data.ts
      BY <2>7, <2>22, <3>0
    <3>6. i \in 1..d => s[i] = IF i + o = a + 1 THEN e ELSE b[i + o]
      BY <2>18, <2>21
    <3>2. CASE i < d
      BY <3>0, <3>1, <3>2, <3>5, <3>6
    <3>3. CASE i = d
      <4>1. w[i + o] = e
        BY <2>9, <2>14, <3>0, <3>3
      <4>. QED BY <3>0, <3>1, <3>3, <3>5, <3>6, <4>1
    <3>4. CASE i > d
      <4>1. t[i - d] = c[(i + o) - a]
        BY <1>3, <3>0, <3>4
      <4>. QED BY <3>0, <3>4, <3>5, <4>1
    <3>. QED BY <3>1, <3>2, <3>3, <3>4
  <2>25. n <= Len(v)
    <3>1. n <= Len(w) /\ n <= ClientCap
      BY <2>8 DEF Completes, EndsWith
    <3>2. /\ a \in Nat /\ o \in Nat /\ m \in Nat /\ n \in Nat /\ ClientCap \in Nat
          /\ Len(w) = a + m + 1 /\ Len(v) = a + 1 - o + m /\ (o # 0 => a + 1 - o = ClientCap)
      BY <1>1, <2>5, <2>7, <2>14, <2>20, <2>21, <2>22, FeedConstants
    <3>. QED BY <3>1, <3>2
  <2>26. Completes(v, l, n, now)
    BY <2>7, <2>8, <2>22, <2>23, <2>24, <2>25, CompletesLess
  <2>. QED BY <1>2, <1>4, <1>5, <1>8, <2>1, <2>13, <2>19, <2>26 DEF OnItsWay
<1>. QED BY <1>7, <1>8

LEMMA CatchReceive ==
  ASSUME FeedInv, CatchInv, F!Receive
  PROVE  CatchInv'
<1>1. PICK c \in Seq(Message) : c = chan /\ c # <<>>
  BY DEF FeedInv, F!Receive
<1>2. /\ conn = "open" /\ conn' = conn /\ chan' = Tail(c) /\ fresh' = fresh /\ strange' = strange
      /\ clock' = clock /\ stepped' = stepped /\ sent' = sent /\ log' = log /\ latest' = latest
      /\ hist' = IF c[1].type = "snapshot" THEN F!AppendSample(hist, c[1].data)
                 ELSE F!Deeper(hist, c[1].data)
  <2>1. Head(c) = c[1]
    BY <1>1, HeadTailProperties
  <2>. QED BY <1>1, <2>1 DEF F!Receive, F!server
<1>3. /\ log \in Seq(Tick) /\ clock \in Nat /\ stepped \in BOOLEAN /\ sent \subseteq Tick
      /\ hist # None => Real(hist, sent, ~stepped)
  BY DEF FeedInv, Logged
<1>4. /\ Len(log) <= ServerCap /\ fresh \in Nat /\ strange \in BOOLEAN
      /\ (latest = None) = (log = <<>>) /\ (latest # None => latest = log[Len(log)])
  BY DEF CatchInv
<1>5. /\ Len(log') <= ServerCap /\ fresh' \in Nat /\ strange' \in BOOLEAN
      /\ (latest' = None) = (log' = <<>>) /\ (latest' # None => latest' = log'[Len(log')])
  BY <1>2, <1>4
<1>6. ASSUME Orderly'
      PROVE  /\ hist' # None => Short(hist')
             /\ \A i \in 1..Len(chan') : chan'[i].type = "history" => Short(chan'[i].data)
             /\ \A s \in sent' : s.ts <= clock'
             /\ ~strange' /\ Len(log') < ServerCap => Whole(log', sent', clock')
             /\ conn' = "open" => \E f \in 0..2 : OnItsWay(hist', chan', f, log', Owed(log', strange', fresh'), clock')
  <2>1. ~stepped /\ ServerCap >= ClientCap /\ Orderly
    BY <1>2, <1>6 DEF Orderly
  <2>2. /\ hist # None => Short(hist)
        /\ \A i \in 1..Len(c) : c[i].type = "history" => Short(c[i].data)
        /\ \A s \in sent : s.ts <= clock
        /\ ~strange /\ Len(log) < ServerCap => Whole(log, sent, clock)
        /\ \E f \in 0..2 : OnItsWay(hist, c, f, log, Owed(log, strange, fresh), clock)
    BY <1>1, <1>2, <2>1 DEF CatchInv
  <2>3. 1 \in 1..Len(c) /\ Sound(c[1], sent, ~stepped) /\ c[1] \in Message
    <3>1. 1 \in 1..Len(c)
      BY <1>1, EmptySeq
    <3>. QED BY <1>1, <3>1, ElementOfSeq DEF FeedInv
  <2>4. PICK mine : mine = hist'
    OBVIOUS
  <2>5. Short(mine)
    <3>1. CASE c[1].type = "snapshot"
      <4>1. c[1].data \in sent
        BY <2>3, <3>1 DEF Sound
      <4>2. Short(F!AppendSample(hist, c[1].data))
        BY <1>3, <2>1, <2>2, <4>1, AppendShort
      <4>. QED BY <1>2, <2>4, <3>1, <4>2
    <3>2. CASE c[1].type # "snapshot"
      <4>1. c[1].type = "history" /\ Real(c[1].data, sent, ~stepped)
        BY <2>3, <3>2 DEF Sound
      <4>2. Short(c[1].data)
        BY <2>2, <2>3, <4>1
      <4>3. (F!Deeper(hist, c[1].data) = hist /\ hist # None) \/ F!Deeper(hist, c[1].data) = c[1].data
        <5>0. PICK d : d = c[1].data
          OBVIOUS
        <5>1. PICK ordered \in BOOLEAN : d = c[1].data /\ ordered = (~stepped)
          BY <1>3, <5>0
        <5>2. (hist # None => Real(hist, sent, ordered)) /\ Real(d, sent, ordered)
          BY <1>3, <4>1, <5>1
        <5>3. \/ F!Deeper(hist, d) = hist /\ hist # None /\ Len(hist.ts) > Len(d.ts)
              \/ F!Deeper(hist, d) = d
          BY <5>2, DeeperFacts
        <5>. QED BY <5>1, <5>3
      <4>. QED BY <1>2, <2>2, <2>4, <3>2, <4>2, <4>3
    <3>. QED BY <3>1, <3>2
  <2>6. \A i \in 1..Len(chan') : chan'[i].type = "history" => Short(chan'[i].data)
    <3>1. PICK t : t = chan'
      OBVIOUS
    <3>2. Len(t) = Len(c) - 1 /\ \A i \in 1..Len(t) : t[i] = c[i + 1] /\ i + 1 \in 1..Len(c)
      BY <1>1, <1>2, <3>1, HeadTailProperties
    <3>3. \A i \in 1..Len(t) : t[i].type = "history" => Short(t[i].data)
      BY <2>2, <3>2
    <3>. QED BY <3>1, <3>3
  <2>7. PICK n \in Nat : n = Owed(log, strange, fresh) /\ n <= ClientCap
    <3>1. Owed(log, strange, fresh) \in Nat /\ Owed(log, strange, fresh) <= ClientCap
      BY <1>3, <1>4, OwedFacts
    <3>. QED BY <3>1
  <2>8. PICK f \in 0..2 : OnItsWay(hist, c, f, log, n, clock)
    BY <2>2, <2>7
  <2>9. PICK g \in 0..2 : g = IF f = 0 THEN 0 ELSE f - 1
    OBVIOUS
  <2>10. OnItsWay(mine, Tail(c), g, log, n, clock)
    BY <1>1, <1>2, <2>1, <2>4, <2>7, <2>8, <2>9, CatchReads
  <2>11. OnItsWay(hist', chan', g, log', Owed(log', strange', fresh'), clock')
    BY <1>2, <2>4, <2>7, <2>10
  <2>12. /\ hist' # None => Short(hist')
         /\ \A s \in sent' : s.ts <= clock'
         /\ ~strange' /\ Len(log') < ServerCap => Whole(log', sent', clock')
    BY <1>2, <2>2, <2>4, <2>5
  <2>. QED BY <2>6, <2>9, <2>11, <2>12
<1>. QED BY <1>5, <1>6 DEF CatchInv

LEMMA CatchNext ==
  ASSUME FeedInv, CatchInv, F!Next
  PROVE  CatchInv'
<1>1. CASE F!Ticking
  <2>1. PICK K \in SUBSET Key :
          \/ clock < MaxTicks /\ F!Broadcast(clock + 1, K)
          \/ ~stepped /\ \E now \in 0..(clock - 1) : F!Broadcast(now, K)
    BY <1>1 DEF F!Ticking
  <2>2. PICK now \in Nat : F!Broadcast(now, K)
    BY <2>1 DEF FeedInv
  <2>. QED BY <2>2, CatchBroadcast
<1>2. CASE F!Open
  BY <1>2, CatchOpen
<1>3. CASE F!Receive
  BY <1>3, CatchReceive
<1>4. CASE F!Close
  <2>1. /\ chan' = <<>> /\ fresh' = 0 /\ conn' # "open"
        /\ UNCHANGED <<clock, stepped, sent, log, latest, strange, hist>>
    BY <1>4 DEF F!Close, F!server
  <2>2. Len(chan') = 0
    BY <2>1
  <2>. QED BY <2>1, <2>2 DEF CatchInv, Orderly
<1>5. CASE F!Retry
  <2>1. conn' # "open" /\ UNCHANGED <<clock, stepped, sent, log, latest, strange, chan, fresh, hist>>
    BY <1>5 DEF F!Retry, F!server
  <2>. QED BY <2>1 DEF CatchInv, Orderly
<1>6. CASE F!Restart
  <2>1. /\ log' = <<>> /\ latest' = None /\ strange' = TRUE /\ chan' = <<>> /\ fresh' = 0 /\ conn' # "open"
        /\ UNCHANGED <<clock, stepped, sent, hist>>
    BY <1>6 DEF F!Restart
  <2>2. Len(chan') = 0 /\ Len(log') = 0 /\ 0 <= ServerCap
    BY <2>1, FeedConstants
  <2>3. /\ Len(log') <= ServerCap /\ fresh' \in Nat /\ strange' \in BOOLEAN
        /\ (latest' = None) = (log' = <<>>) /\ latest' = None
    BY <2>1, <2>2
  <2>4. Orderly' => /\ hist' # None => Short(hist')
                    /\ \A s \in sent' : s.ts <= clock'
    BY <2>1 DEF CatchInv, Orderly
  <2>5. \A i \in 1..Len(chan') : chan'[i].type = "history" => Short(chan'[i].data)
    BY <2>2
  <2>. QED BY <2>1, <2>3, <2>4, <2>5 DEF CatchInv
<1>. QED BY <1>1, <1>2, <1>3, <1>4, <1>5, <1>6 DEF F!Next

\* The timeline of the page, read from its end, has the times of the newest ticks.
LEMMA EndsInLog ==
  ASSUME NEW l \in Seq(Tick), NEW w \in Seq(Nat), NEW x \in Nat,
         EndsWith(w, l, IF x < Len(l) THEN x ELSE Len(l)), NEW kept, kept = F!LastOf(l, x)
  PROVE  F!IsSuffix([i \in 1..Len(kept) |-> kept[i].ts], w)
<1>1. PICK n \in Nat : n = IF x < Len(l) THEN x ELSE Len(l)
  OBVIOUS
<1>2. PICK z \in Nat : z = Len(l) /\ n <= z
  BY <1>1
<1>3. kept \in Seq(Tick) /\ Len(kept) = n /\ \A i \in 1..n : kept[i] = l[i + (z - n)]
  <2>1. CASE x = 0
    <3>1. z > 0 => kept = SubSeq(l, z + 1, z)
      BY <1>2, <2>1 DEF F!LastOf
    <3>2. z > 0 => kept = <<>>
      <4>1. \A i \in (z + 1)..z : l[i] \in Tick
        BY <1>2
      <4>2. SubSeq(l, z + 1, z) = <<>>
        BY <1>2, <4>1, SubSeqProperties, EmptySeq
      <4>. QED BY <3>1, <4>2
    <3>3. z = 0 => kept = <<>>
      <4>1. z = 0 => l = <<>>
        BY <1>2, EmptySeq
      <4>2. z = 0 => ~(Len(l) > x)
        BY <1>2
      <4>3. ~(Len(l) > x) => kept = l
        BY DEF F!LastOf
      <4>. QED BY <4>1, <4>2, <4>3
    <3>4. n = 0 /\ kept = <<>>
      BY <1>1, <1>2, <2>1, <3>2, <3>3
    <3>. QED BY <3>4
  <2>2. CASE x # 0
    <3>1. /\ kept \in Seq(Tick) /\ Len(kept) = z - Skipped(z, x)
          /\ \A i \in 1..Len(kept) : kept[i] = l[i + Skipped(z, x)]
      BY <1>2, <2>2, LastOfFacts
    <3>2. Skipped(z, x) = z - n /\ z - (z - n) = n
      BY <1>1, <1>2, <2>2 DEF Skipped
    <3>. QED BY <3>1, <3>2
  <2>. QED BY <2>1, <2>2
<1>4. PICK times : times = [i \in 1..Len(kept) |-> kept[i].ts]
  OBVIOUS
<1>5. times \in Seq(Nat) /\ Len(times) = n /\ \A i \in 1..n : times[i] = kept[i].ts
  <2>1. \A i \in 1..n : kept[i].ts \in Nat
    <3>1. ASSUME NEW i \in 1..n PROVE kept[i].ts \in Nat
      <4>1. kept[i] \in Tick
        BY <1>3, ElementOfSeq
      <4>. QED BY <4>1 DEF Tick
    <3>. QED BY <3>1
  <2>. QED BY <1>3, <1>4, <2>1
<1>6. PICK a \in Nat : a = Len(w)
  OBVIOUS
<1>7. n <= a /\ \A i \in 0..(n - 1) : w[a - i] = l[z - i].ts
  BY <1>1, <1>2, <1>6 DEF EndsWith
<1>8. PICK s : s = F!Reverse(times)
  OBVIOUS
<1>9. PICK t : t = F!Reverse(w)
  OBVIOUS
<1>10. s \in Seq(Nat) /\ Len(s) = n /\ \A i \in 1..n : s[i] = times[n - i + 1]
  <2>1. s = [i \in 1..n |-> times[(n - i) + 1]]
    BY <1>5, <1>8 DEF F!Reverse
  <2>2. \A i \in 1..n : (n - i) + 1 \in 1..n
    OBVIOUS
  <2>3. \A i \in 1..n : times[(n - i) + 1] \in Nat
    BY <1>5, <2>2, ElementOfSeq
  <2>. QED BY <2>1, <2>3
<1>11. t \in Seq(Nat) /\ Len(t) = a /\ \A i \in 1..a : t[i] = w[a - i + 1]
  <2>1. t = [i \in 1..a |-> w[(a - i) + 1]]
    BY <1>6, <1>9 DEF F!Reverse
  <2>2. \A i \in 1..a : (a - i) + 1 \in 1..a
    OBVIOUS
  <2>. QED BY <1>6, <2>1, <2>2
<1>12. ASSUME NEW i \in 1..n PROVE s[i] = t[i]
  <2>1. /\ i - 1 \in 0..(n - 1) /\ n - i + 1 \in 1..n /\ i \in 1..a
        /\ a - (i - 1) = a - i + 1 /\ (n - i + 1) + (z - n) = z - (i - 1)
    BY <1>7
  <2>2. s[i] = kept[n - i + 1].ts
    BY <1>5, <1>10, <2>1
  <2>3. kept[n - i + 1] = l[z - (i - 1)]
    BY <1>3, <2>1
  <2>. QED BY <1>7, <1>11, <2>1, <2>2, <2>3
<1>13. SubSeq(s, 1, n) = SubSeq(t, 1, n)
  <2>1. SubSeq(s, 1, n) = [i \in 1..n |-> s[i]]
    BY <1>10
  <2>2. SubSeq(t, 1, n) = [i \in 1..n |-> t[i]]
    BY <1>7, <1>11
  <2>. QED BY <1>12, <2>1, <2>2
<1>. QED BY <1>4, <1>7, <1>8, <1>9, <1>10, <1>11, <1>13 DEF F!IsSuffix, F!IsPrefix

\* A page that has read all that was sent to it shows the newest ticks of the server without a
\* gap (useCluster.ts:126, index.ts:548-580), for any capacities of which the server's is
\* not the smaller, however often the connection broke; and at least the ticks since it connected
\* when the server was restarted, or when the page connected twice before the first tick.
THEOREM PageCatchesUp == Spec => []CaughtUp
<1>1. Init => (part = "feed" => FeedInv /\ CatchInv)
  BY FeedInit, CatchInit DEF Init
<1>2. (part = "feed" => FeedInv /\ CatchInv) /\ [Next]_vars => (part = "feed" => FeedInv /\ CatchInv)'
  <2>. SUFFICES ASSUME part = "feed" => FeedInv /\ CatchInv, [Next]_vars, part' = "feed"
                PROVE  FeedInv' /\ CatchInv'
    OBVIOUS
  <2>1. CASE Next
    <3>1. part = "feed" /\ F!Next
      BY <2>1 DEF Next, OthersStay
    <3>. QED BY <3>1, FeedNext, CatchNext
  <2>2. CASE UNCHANGED vars
    BY <2>2 DEF vars, feedVars, FeedInv, CatchInv, Orderly
  <2>. QED BY <2>1, <2>2
<1>3. (part = "feed" => FeedInv /\ CatchInv) => CaughtUp
  <2>. SUFFICES ASSUME FeedInv, CatchInv, conn = "open", chan = <<>>, ~stepped, ServerCap >= ClientCap,
                       NEW x, x = (IF strange /\ fresh < ClientCap THEN fresh ELSE ClientCap),
                       NEW kept, kept = F!LastOf(log, x)
                PROVE  F!IsSuffix([i \in 1..Len(kept) |-> kept[i].ts], hist.ts)
    BY DEF CaughtUp, F!CaughtUp
  <2>1. /\ fresh \in Nat /\ strange \in BOOLEAN /\ log \in Seq(Tick) /\ Orderly
    BY DEF FeedInv, CatchInv, Logged, Orderly
  <2>2. PICK f \in 0..2 : OnItsWay(hist, chan, f, log, Owed(log, strange, fresh), clock)
    BY <2>1 DEF CatchInv
  <2>3. f = 0 /\ Len(chan) = 0
    BY <2>2 DEF OnItsWay, Lively
  <2>4. hist # None /\ Completes(Coming(hist, chan, 0), log, Owed(log, strange, fresh), clock)
    BY <2>2, <2>3 DEF OnItsWay
  <2>5. hist.ts \in Seq(Nat)
    BY <2>4 DEF FeedInv, Real
  <2>6. Coming(hist, chan, 0) = hist.ts
    <3>1. Waiting(chan, 0) = <<>>
      BY <2>3 DEF Waiting
    <3>2. Coming(hist, chan, 0) = hist.ts \o <<>>
      BY <3>1 DEF Coming, Primed
    <3>. QED BY <2>5, <3>2, ConcatEmptySeq
  <2>7. x \in Nat /\ Owed(log, strange, fresh) = IF x < Len(log) THEN x ELSE Len(log)
    BY <2>1, FeedConstants DEF Owed
  <2>8. EndsWith(hist.ts, log, IF x < Len(log) THEN x ELSE Len(log))
    BY <2>4, <2>6, <2>7 DEF Completes
  <2>. QED BY <2>1, <2>5, <2>7, <2>8, EndsInLog
<1>. QED BY <1>1, <1>2, <1>3, PTL DEF Spec

=================================================================================
