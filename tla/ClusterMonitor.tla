---------------------------- MODULE ClusterMonitor ----------------------------
(***************************************************************************)
(* The cluster monitor (packages/core/src/cluster.ts, class                *)
(* ClusterMonitor): the node list, one collector per enabled node, the     *)
(* newest snapshot of each node, and the coalesced broadcast.  Collectors  *)
(* appear here through what they emit: a running one any status, a        *)
(* stopped one what its last callbacks have to say (see NodeCollector).    *)
(***************************************************************************)
EXTENDS Naturals, FiniteSets, Functions

CONSTANTS
  Ids,         \* ids of nodes
  MaxRetired   \* bound on stopped collectors of one node that may still emit

ASSUME MonitorAssumption == MaxRetired \in Nat \ {0}

VARIABLES
  nodes,       \* this.cfg.nodes, as a function from ids to configurations
  collectors,  \* ids with an entry in this.collectors
  running,     \* per id: collectors constructed for it and not stopped
  retired,     \* per id: stopped collectors with a callback still to come
  latest,      \* this.latest: the status in the newest snapshot of a node
  timer,       \* this.emitTimer is pending
  last         \* this.lastSnapshot: the statuses it carries

fleet == <<nodes, collectors, running, retired>>
feed  == <<latest, timer, last>>
monitorVars == <<fleet, feed>>

\* What can be told from a snapshot: the node answered, or it did not
\* (offline, connecting, error).
Shown == {"online", "down"}

MonitorTypeOK ==
  /\ DOMAIN nodes \subseteq Ids
  /\ \A i \in DOMAIN nodes : nodes[i].enabled \in BOOLEAN
  /\ collectors \subseteq Ids
  /\ running \in [Ids -> Nat] /\ retired \in [Ids -> 0..MaxRetired]
  /\ DOMAIN latest \subseteq Ids /\ \A i \in DOMAIN latest : latest[i] \in Shown
  /\ timer \in BOOLEAN
  /\ DOMAIN last \subseteq Ids /\ \A i \in DOMAIN last : last[i] \in Shown

Put(f, i, v) == [j \in DOMAIN f \cup {i} |-> IF j = i THEN v ELSE f[j]]
Drop(f, i)   == Restrict(f, DOMAIN f \ {i})
Count(S)     == [i \in Ids |-> IF i \in S THEN 1 ELSE 0]
EnabledOf(f) == {i \in DOMAIN f : f[i].enabled}

\* build(): the configured nodes that have reported.
Build == Restrict(latest, DOMAIN latest \cap DOMAIN nodes)

\* start() on the node list f.  A collector that starts emits "connecting" at once.
MonitorStart(f) ==
  /\ nodes = f
  /\ collectors = EnabledOf(f)
  /\ running = Count(EnabledOf(f))
  /\ retired = [i \in Ids |-> 0]
  /\ latest = [i \in EnabledOf(f) |-> "down"]
  /\ timer = (EnabledOf(f) # {})
  /\ last = <<>>

MonitorRestart(f) ==
  /\ nodes' = f
  /\ collectors' = EnabledOf(f)
  /\ running' = Count(EnabledOf(f))
  /\ retired' = [i \in Ids |-> 0]
  /\ latest' = [i \in EnabledOf(f) |-> "down"]
  /\ timer' = (EnabledOf(f) # {})
  /\ last' = <<>>

\* Mutant: the replaced collector is forgotten without being stopped.
AddNode_KeepsOld(i, c) ==
  /\ nodes' = Put(nodes, i, c)
  /\ collectors' = IF c.enabled THEN collectors \cup {i} ELSE collectors \ {i}
  /\ running' = [running EXCEPT ![i] = IF c.enabled THEN @ + 1 ELSE @]
  /\ latest' = IF c.enabled THEN Put(latest, i, "down") ELSE latest
  /\ timer' = TRUE
  /\ UNCHANGED <<retired, last>>

\* addNode: the collector of a node edited is stopped and replaced.  stop() reports
\* "offline" unless that is already the collector's status.
AddNode(i, c) ==
  LET had == i \in collectors
  IN /\ nodes' = Put(nodes, i, c)
     /\ collectors' = IF c.enabled THEN collectors \cup {i} ELSE collectors \ {i}
     /\ running' = [running EXCEPT ![i] = (IF had THEN @ - 1 ELSE @)
                                          + (IF c.enabled THEN 1 ELSE 0)]
     /\ had => retired[i] < MaxRetired
     /\ retired' = [retired EXCEPT ![i] = IF had THEN @ + 1 ELSE @]
     /\ latest' \in IF c.enabled THEN {Put(latest, i, "down")}
                    ELSE IF had THEN {latest, Put(latest, i, "down")}
                    ELSE {latest}
     /\ timer' = TRUE
     /\ UNCHANGED last

\* Mutant: removing a node does not ask for a broadcast.
RemoveNode_Silent(i) ==
  LET had == i \in collectors
  IN /\ nodes' = Drop(nodes, i)
     /\ collectors' = collectors \ {i}
     /\ running' = [running EXCEPT ![i] = IF had THEN @ - 1 ELSE @]
     /\ had => retired[i] < MaxRetired
     /\ retired' = [retired EXCEPT ![i] = IF had THEN @ + 1 ELSE @]
     /\ latest' = Drop(latest, i)
     /\ UNCHANGED <<timer, last>>

RemoveNode(i) ==
  LET had == i \in collectors
  IN /\ nodes' = Drop(nodes, i)
     /\ collectors' = collectors \ {i}
     /\ running' = [running EXCEPT ![i] = IF had THEN @ - 1 ELSE @]
     /\ had => retired[i] < MaxRetired
     /\ retired' = [retired EXCEPT ![i] = IF had THEN @ + 1 ELSE @]
     /\ latest' = Drop(latest, i)
     /\ timer' = TRUE
     /\ UNCHANGED last

\* A collector of node i emits a snapshot.  The listener does not ask which
\* collector it is; a stopped one emits until its last callback has run.
CollectorEmits(i) ==
  /\ running[i] + retired[i] > 0
  /\ \E s \in Shown : latest' = Put(latest, i, s)
  /\ timer' = TRUE
  /\ UNCHANGED <<fleet, last>>

\* The last callback of a stopped collector has run.
CollectorRests(i) ==
  /\ retired[i] > 0
  /\ retired' = [retired EXCEPT ![i] = @ - 1]
  /\ UNCHANGED <<nodes, collectors, running, feed>>

\* The timer of scheduleEmit fires.
Broadcast ==
  /\ timer
  /\ timer' = FALSE
  /\ last' = Build
  /\ UNCHANGED <<fleet, latest>>

MonitorStep ==
  \/ \E i \in Ids : CollectorEmits(i) \/ CollectorRests(i)
  \/ Broadcast

-----------------------------------------------------------------------------
\* Whatever the list went through, the collectors that run are one for each enabled
\* node, and each of them can be reached through the map: no connection is left
\* behind by an edit, and no node is polled twice.
OneCollectorEach ==
  /\ collectors = EnabledOf(nodes)
  /\ running = Count(collectors)

\* cluster.ts:131 "Nothing is lost": if the last broadcast is not what would be
\* broadcast now, a broadcast is due.
NothingLost == last # Build => timer

\* README.md:620 "Adding, editing and removing nodes all take effect without a
\* restart": a disabled node, once its collector has come to rest, is not
\* broadcast as online.
DisabledIsDown ==
  \A i \in DOMAIN nodes \cap DOMAIN last :
    ~nodes[i].enabled /\ retired[i] = 0 /\ ~timer => last[i] = "down"
==============================================================================
