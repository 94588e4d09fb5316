------------------------------- MODULE Analysis -------------------------------
(***************************************************************************)
(* Cluster analysis (packages/core/src/cluster.ts:175-312, 424-575): links *)
(* inferred from subnets and verified against traffic, and warnings with   *)
(* hysteresis, over one build after another.  Traffic is in MB/s.          *)
(***************************************************************************)
EXTENDS Integers, Sequences, FiniteSets

CONSTANTS
  Nodes,      \* ids of nodes: numbers, ordered as localeCompare orders the ids
  Snapshots,  \* per node: the snapshots its collector may have emitted.  The level of a kind is a
              \* reading against two thresholds: "low" below off, "mid", "high" from on, or "absent"
  Lists,      \* the node lists, as sequences of ids
  NoSubnet    \* a port without an address

VARIABLES
  input,           \* what the last build was given: [list, snap]
  everConfirmed,   \* state.everConfirmed
  activeWarnings,  \* state.activeWarnings
  links,           \* the links of the last cluster snapshot
  agreed           \* pairs of ports whose counters have agreed in some build

vars == <<input, everConfirmed, activeWarnings, links, agreed>>

Kind  == {"temp", "disk", "vram", "gpu-clock"}

\* A port is listed once for a node, by its name.
AnalysisAssumption ==
  /\ Nodes \subseteq Int
  /\ \A list \in Lists : list \in Seq(Nodes)
  /\ \A n \in Nodes : \A snap \in Snapshots[n] :
       /\ \A k \in Kind : snap.level[k] \in {"absent", "low", "mid", "high"}
       /\ \A p, q \in snap.ports : p.dev = q.dev => p = q

InList(in) == {in.list[k] : k \in 1..Len(in.list)}
Online(in) == {n \in InList(in) : in.snap[n].status = "online"}
MaxOf(x, y) == IF x < y THEN y ELSE x

-----------------------------------------------------------------------------
(* Links. *)

\* The ports that take part: on a node that answers, with an address, and up.
Ports(in) ==
  {r \in UNION {{[node |-> n, port |-> p] : p \in in.snap[n].ports} : n \in Online(in)} :
     r.port.subnet # NoSubnet /\ r.port.up}
Members(in, s) == {r \in Ports(in) : r.port.subnet = s}

\* Exactly two ports, on two nodes.  Any other subnet is a shared segment.
IsPair(M) == \E a, b \in M : M = {a, b} /\ a.node # b.node

Pairs(in) == {M \in {Members(in, r.port.subnet) : r \in Ports(in)} : IsPair(M)}

\* CONFIRM_RATIO and CONFIRM_FLOOR_BPS.
Agrees(x, y) ==
  \/ MaxOf(x, y) < 2
  \/ 100 * MaxOf(x - y, y - x) <= 35 * MaxOf(x, y)

\* The ends of a link are ordered by node id.
EndA(in, M) == CHOOSE a \in M : \A b \in M : a.node <= b.node

\* A rate of 0 is unknown.
SlowerOf(x, y) == IF x = 0 \/ (y # 0 /\ y < x) THEN y ELSE x

BuildLink(in, M) ==
  LET a == EndA(in, M)
      b == CHOOSE m \in M : m # a
  IN [id |-> <<a.node, a.port.dev, b.node, b.port.dev>>,
      confirmed |-> Agrees(a.port.tx, b.port.rx) /\ Agrees(b.port.tx, a.port.rx),
      rate |-> SlowerOf(a.port.rate, b.port.rate),
      faults |-> a.port.faults \/ b.port.faults,
      active |-> MaxOf(MaxOf(a.port.tx, b.port.rx), MaxOf(b.port.tx, a.port.rx)) > 1]

Paired(in) == {BuildLink(in, M) : M \in Pairs(in)}

\* Mutant: the links of earlier builds are forgotten.
Proven_Now(ls, ever) == {l.id : l \in {m \in ls : m.confirmed}}

\* everConfirmed after a build: proof does not expire.
Proven(ls, ever) == ever \cup {l.id : l \in {m \in ls : m.confirmed}}

Verified(ls, ever) == {[l EXCEPT !.confirmed = l.id \in Proven(ls, ever)] : l \in ls}

-----------------------------------------------------------------------------
(* Warnings, each known by its id. *)

\* Mutant: the two thresholds are exchanged.
Crosses_Swapped(id, level, active) ==
  IF id \in active THEN level = "high" ELSE level \in {"mid", "high"}

Crosses(id, level, active) ==
  IF id \in active THEN level \in {"mid", "high"} ELSE level = "high"

\* A low clock counts only together with load, coolness, low power and an empty
\* throttle mask.
Raised(in, n, active) ==
  {k \in Kind : /\ Crosses(<<k, n>>, in.snap[n].level[k], active)
                /\ k = "gpu-clock" => in.snap[n].suspect}

NodeWarnings(in, n, active) ==
  IF n \in Online(in)
  THEN {<<k, n>> : k \in Raised(in, n, active)} \cup {<<"nccl-tcp", n, c>> : c \in in.snap[n].tcpOnly}
  ELSE {<<s, n>> : s \in {"error", "offline"} \cap {in.snap[n].status}}

LinkWarnings(ls) ==
  {<<"link-faults", l.id>> : l \in {m \in ls : m.faults}}
  \cup {<<"link-slow", l.id>> : l \in {m \in ls : \E best \in ls : m.rate < best.rate}}

Warnings(in, active) ==
  (UNION {NodeWarnings(in, n, active) : n \in InList(in)}) \cup LinkWarnings(Paired(in))

-----------------------------------------------------------------------------
Init ==
  /\ input = [list |-> <<>>, snap |-> <<>>]
  /\ everConfirmed = {} /\ activeWarnings = {} /\ links = {}
  /\ agreed = {}

PortsOf(l) == {<<l.id[1], l.id[2]>>, <<l.id[3], l.id[4]>>}

\* buildClusterSnapshot on the nodes that the list holds now.  The set of warnings
\* that the snapshot carries is the new activeWarnings.
Build(in) ==
  LET ls == Paired(in)
  IN /\ input' = in
     /\ links' = Verified(ls, everConfirmed)
     /\ everConfirmed' = Proven(ls, everConfirmed)
     /\ activeWarnings' = Warnings(in, activeWarnings)
     /\ agreed' = agreed \cup {PortsOf(l) : l \in {m \in ls : m.confirmed}}

Inputs ==
  LET newest == Snapshots
  IN UNION {{[list |-> l, snap |-> s] :
               s \in {f \in [{l[k] : k \in 1..Len(l)} -> UNION {newest[n] : n \in Nodes}] :
                        \A n \in DOMAIN f : f[n] \in newest[n]}} : l \in Lists}

Next == \E in \in Inputs : Build(in)

-----------------------------------------------------------------------------

\* A link is shown as confirmed exactly when the counters of its two ports have agreed
\* in this or an earlier build (types.ts:535 "Sticky"), however the node list was
\* reordered (addNode moves an edited node to its end) and whichever nodes,
\* ports and third parties on the subnet came and went in between.
ConfirmedOnceAgreed == \A l \in links : l.confirmed <=> PortsOf(l) \in agreed

\* No link is invented: a link joins two nodes that answer, and no third port that is
\* up shares its subnet (cluster.ts:212-217).  And none is listed twice: its id is its own, and
\* names its ends in the order of the nodes.
NoInventedLink ==
  /\ \A l \in links : \E s \in {r.port.subnet : r \in Ports(input)} :
       {<<r.node, r.port.dev>> : r \in Members(input, s)} = PortsOf(l)
  /\ \A l, m \in links : l.id[1] < l.id[3] /\ (l.id = m.id => l = m)

\* cluster.ts:428 "a reading must pass on to raise the warning, and fall back below off
\* to clear it", as long as the node answers and (for the clock) the other facts hold.
NoFlapStep ==
  \A n \in Online(input') : \A k \in Kind :
    LET level == input'.snap[n].level[k]
    IN /\ <<k, n>> \in activeWarnings' \ activeWarnings => level = "high"
       /\ <<k, n>> \in activeWarnings \ activeWarnings' =>
            level \in {"absent", "low"} \/ (k = "gpu-clock" /\ ~input'.snap[n].suspect)
NoFlap == [][NoFlapStep]_vars
==============================================================================
