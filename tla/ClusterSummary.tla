---------------------------- MODULE ClusterSummary ----------------------------
(***************************************************************************)
(* The figures of a cluster snapshot that are sums over its nodes, and the *)
(* distributed jobs inferred from their containers                         *)
(* (packages/core/src/cluster.ts:318-418, 572-646).  Nodes are polled one   *)
(* by one; a server may be reached through several of them.                *)
(***************************************************************************)
EXTENDS Integers, Sequences, SequencesExt, FiniteSets, FiniteSetsExt

CONSTANTS
  NodeList,   \* the nodes, in the order of the list: [id, cpu, temp, vram]
  Services,   \* inference servers
  Counted,    \* those of them with counters
  Endpoints,  \* per node: its endpoints, as a sequence of [id, service]
  Containers, \* those that may run: [id, node, image, masterAddr, hostIp, port, rank, job]
  Links,      \* [id, a, b, up, rate, ab, ba]
  Null,
  MaxServed   \* bound on requests served

\* Who takes part in one job names its rendezvous alike; no two jobs can meet at one.
SummaryAssumption ==
  \A c, d \in Containers :
    c.masterAddr # Null /\ c.port # Null /\ d.masterAddr # Null /\ d.port # Null =>
      (c.job = d.job <=> c.masterAddr = d.masterAddr /\ c.port = d.port)

VARIABLES
  served,  \* requests each server has served
  view,    \* per node, what its last poll read of each endpoint
  online,  \* the nodes that answer
  running  \* the containers that run

vars == <<served, view, online, running>>

Ids == {NodeList[i].id : i \in DOMAIN NodeList}
ServiceOf(n, e) == Endpoints[n][e].service

\* What a poll reads of an endpoint: tokens are ten a request; servers of one model differ by
\* their counters only, and one without counters tells nothing else.
Reading(n, e) ==
  LET s == ServiceOf(n, e)
  IN [id |-> Endpoints[n][e].id, service |-> s, running |-> 1,
      finished |-> IF s \in Counted THEN served[s] ELSE Null,
      tokens |-> IF s \in Counted THEN 10 * served[s] ELSE Null]

Init ==
  /\ served = [s \in Services |-> 0]
  /\ online = {} /\ running = {}
  /\ view = [n \in Ids |-> <<>>]

Serve(s) ==
  /\ served[s] < MaxServed
  /\ served' = [served EXCEPT ![s] = @ + 1]
  /\ UNCHANGED <<view, online, running>>

\* A poll of one node; one that fails leaves it out of the sums.
Poll(n) ==
  /\ \/ online' = online \cup {n} /\ view' = [view EXCEPT ![n] = [e \in DOMAIN Endpoints[n] |-> Reading(n, e)]]
     \/ online' = online \ {n} /\ view' = [view EXCEPT ![n] = <<>>]
  /\ UNCHANGED <<served, running>>

StartOrStop(c) ==
  /\ running' = IF c \in running THEN running \ {c} ELSE running \cup {c}
  /\ UNCHANGED <<served, view, online>>

Next ==
  \/ \E s \in Services : Serve(s)
  \/ \E n \in Ids : Poll(n)
  \/ \E c \in Containers : StartOrStop(c)

-----------------------------------------------------------------------------
\* Models are the same everywhere here: the totals alone tell two servers apart.
\* Mutant: every endpoint is a server of its own.
Fingerprint_Id(e) == <<"id", e.id>>

Fingerprint(e) == IF e.tokens # Null THEN <<"totals", e.tokens, e.finished>> ELSE <<"id", e.id>>

OnlineNodes == SelectSeq(NodeList, LAMBDA n : n.id \in online)
AllReadings == FlattenSeq([i \in DOMAIN OnlineNodes |-> view[OnlineNodes[i].id]])

\* The first endpoint of each fingerprint.
CountedOnce ==
  LET all == AllReadings
  IN {i \in DOMAIN all : \A k \in 1..(i - 1) : Fingerprint(all[k]) # Fingerprint(all[i])}
SumOf(Value(_), indices) == FoldSet(LAMBDA i, n : Value(i) + n, 0, indices)
OrZero(n) == IF n = Null THEN 0 ELSE n

RollUp ==
  LET all == AllReadings nodes == OnlineNodes
      temps == {nodes[i].temp : i \in DOMAIN nodes} \ {Null}
  IN [nodes |-> Len(NodeList), online |-> Len(nodes),
      endpoints |-> Len(all),
      tokens |-> SumOf(LAMBDA i : OrZero(all[i].tokens), CountedOnce),
      requestsRunning |-> SumOf(LAMBDA i : OrZero(all[i].running), CountedOnce),
      vram |-> SumOf(LAMBDA i : OrZero(nodes[i].vram), DOMAIN nodes),
      cpu |-> IF nodes = <<>> THEN 0 ELSE SumOf(LAMBDA i : nodes[i].cpu, DOMAIN nodes) \div Len(nodes),
      maxTemp |-> IF temps = {} THEN Null ELSE Max(temps)]

\* summarizeFabric(): of each link that is up, its rate and the busier of its directions.
SummarizeFabric ==
  LET up == {l \in Links : l.up /\ {l.a, l.b} \subseteq online}
  IN [capacity |-> SumOf(LAMBDA l : l.rate, up), traffic |-> SumOf(LAMBDA l : Max({l.ab, l.ba}), up)]

-----------------------------------------------------------------------------
\* By the rendezvous, if both address and port are known, or else by the image.  The address is
\* MASTER_ADDR, or else VLLM_HOST_IP, which is the host's own.
JobKey(c) ==
  LET addr == IF c.masterAddr # Null THEN c.masterAddr ELSE c.hostIp
  IN IF addr # Null /\ c.port # Null THEN <<"rendezvous", addr, c.port>> ELSE <<"image", c.image>>

TrafficOn(links) == SumOf(LAMBDA l : l.ab + l.ba, links)

\* Running containers of one key, on two nodes or more, with the links between those.
InferJobs ==
  LET seen == {c \in running : c.node \in online}
      of(k) == {c \in seen : JobKey(c) = k}
      between(k) == {l \in Links : {l.a, l.b} \subseteq {c.node : c \in of(k)} /\ {l.a, l.b} \subseteq online}
  IN {[key |-> k, members |-> of(k), links |-> between(k), traffic |-> TrafficOn(between(k))] :
        k \in {k \in {JobKey(c) : c \in seen} : \E c, d \in of(k) : c.node # d.node}}

-----------------------------------------------------------------------------
\* The totals are those of the servers behind the endpoints, each once, however many nodes it
\* is reached through, while no two servers have served the same and the nodes were polled at
\* the same totals: one polled before and one after a request make two servers of one, and
\* two servers that served the same are one (cluster.ts:583-593).
TotalsHonest ==
  LET all == AllReadings
      reached == {all[i].service : i \in DOMAIN all}
      readings(s) == {all[i].tokens : i \in {i \in DOMAIN all : all[i].service = s}}
      once == \A s \in reached \cap Counted : Cardinality(readings(s)) = 1
      apart == \A s, t \in reached \cap Counted : s # t => readings(s) \cap readings(t) = {}
      total(s) == Max(readings(s))
      r == RollUp
  IN /\ once /\ apart =>
          /\ r.tokens = SumOf(total, reached \cap Counted)
          /\ reached \subseteq Counted => r.requestsRunning = Cardinality(reached)
     \* Whatever the order of polls, a server that no other equals is not left out.
     /\ apart => r.tokens >= SumOf(total, reached \cap Counted)
     /\ r.online = 0 => r.maxTemp = Null /\ r.cpu = 0 /\ r.vram = 0
     /\ \A i \in DOMAIN OnlineNodes : OnlineNodes[i].temp # Null => r.maxTemp >= OnlineNodes[i].temp
     /\ SummarizeFabric.traffic <= SummarizeFabric.capacity

\* Containers that meet at one rendezvous on two nodes or more are one job, whatever their
\* image, and no container that meets elsewhere is in it.  Without a rendezvous the image decides;
\* a container that knows its own host only is taken to meet there.
JobsHonest ==
  LET seen == {c \in running : c.node \in online}
      jobs == InferJobs
      meets(c) == c.masterAddr # Null /\ c.port # Null
  IN /\ \A j, k \in jobs : j # k => j.members \cap k.members = {}
     /\ \A j \in jobs : \E c, d \in j.members : c.node # d.node
     /\ \A c, d \in seen : c.job = d.job /\ c.node # d.node /\ meets(c) /\ meets(d) =>
          \E j \in jobs : {c, d} \subseteq j.members
     /\ \A j \in jobs : \A c, d \in j.members : meets(c) /\ meets(d) => c.job = d.job
     /\ \A c, d \in seen : c.node # d.node /\ c.image = d.image /\ c.port = Null /\ d.port = Null =>
          \E j \in jobs : {c, d} \subseteq j.members
===============================================================================
