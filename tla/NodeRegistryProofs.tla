-------------------------- MODULE NodeRegistryProofs --------------------------
(***************************************************************************)
(* Proofs about NodeRegistry, and with it ClusterMonitor, for any nodes,   *)
(* requests and environment.                                               *)
(***************************************************************************)
EXTENDS NodeRegistry, TLAPS

-----------------------------------------------------------------------------
(* What Put, Drop and Restrict return. *)

\* Put adds or replaces the value at one key and leaves the others.
LEMMA PutFacts ==
  ASSUME NEW f, NEW i, NEW v
  PROVE  /\ DOMAIN Put(f, i, v) = DOMAIN f \cup {i}
         /\ Put(f, i, v)[i] = v
         /\ \A j \in DOMAIN f \ {i} : Put(f, i, v)[j] = f[j]
BY DEF Put

\* Restrict keeps the values at the keys it keeps.
LEMMA RestrictFacts ==
  ASSUME NEW f, NEW S
  PROVE  DOMAIN Restrict(f, S) = S /\ \A j \in S : Restrict(f, S)[j] = f[j]
BY DEF Restrict

\* Drop forgets one key and leaves the others.
LEMMA DropFacts ==
  ASSUME NEW f, NEW i
  PROVE  /\ DOMAIN Drop(f, i) = DOMAIN f \ {i}
         /\ \A j \in DOMAIN f \ {i} : Drop(f, i)[j] = f[j]
BY RestrictFacts DEF Drop

-----------------------------------------------------------------------------
(* The monitor.  Its invariant speaks of no other variable. *)

MonitorInv == MonitorTypeOK /\ OneCollectorEach /\ NothingLost

\* A list of nodes, as far as the monitor looks at it.
IsList(f) == DOMAIN f \subseteq Ids /\ \A i \in DOMAIN f : f[i].enabled \in BOOLEAN

\* One collector for each id of a set, none for the rest.
LEMMA CountType == ASSUME NEW S PROVE Count(S) \in [Ids -> Nat]
BY DEF Count

\* A monitor that starts: with no node to report, what it has broadcast is empty and so
\* is what it would broadcast.
LEMMA StartInv ==
  ASSUME NEW f, IsList(f), MonitorStart(f) PROVE MonitorInv
<1>. USE MonitorAssumption DEF MonitorStart
<1>1. EnabledOf(f) \subseteq Ids
  BY DEF EnabledOf, IsList
<1>2. MonitorTypeOK
  <2>1. retired \in [Ids -> 0..MaxRetired] /\ running \in [Ids -> Nat]
    BY CountType
  <2>2. DOMAIN latest \subseteq Ids /\ \A i \in DOMAIN latest : latest[i] \in Shown
    BY <1>1 DEF Shown
  <2>3. DOMAIN last \subseteq Ids /\ \A i \in DOMAIN last : last[i] \in Shown
    OBVIOUS
  <2>. QED BY <1>1, <2>1, <2>2, <2>3 DEF MonitorTypeOK, IsList
<1>3. OneCollectorEach
  BY DEF OneCollectorEach
<1>4. NothingLost
  <2>. SUFFICES ASSUME ~timer PROVE last = Build
    BY DEF NothingLost
  <2>1. DOMAIN latest = {}
    OBVIOUS
  <2>. QED BY <2>1 DEF Build, Restrict
<1>. QED BY <1>2, <1>3, <1>4 DEF MonitorInv

\* A monitor that starts again, in a new process, is one that starts.
LEMMA RestartInv ==
  ASSUME NEW f, IsList(f), MonitorRestart(f) PROVE MonitorInv'
<1>. USE MonitorAssumption DEF MonitorRestart
<1>1. EnabledOf(f) \subseteq Ids
  BY DEF EnabledOf, IsList
<1>2. MonitorTypeOK'
  <2>1. retired' \in [Ids -> 0..MaxRetired] /\ running' \in [Ids -> Nat]
    BY CountType
  <2>2. DOMAIN latest' \subseteq Ids /\ \A i \in DOMAIN latest' : latest'[i] \in Shown
    BY <1>1 DEF Shown
  <2>3. DOMAIN last' \subseteq Ids /\ \A i \in DOMAIN last' : last'[i] \in Shown
    OBVIOUS
  <2>. QED BY <1>1, <2>1, <2>2, <2>3 DEF MonitorTypeOK, IsList
<1>3. OneCollectorEach'
  BY DEF OneCollectorEach
<1>4. NothingLost'
  <2>. SUFFICES ASSUME ~timer' PROVE last' = Build'
    BY DEF NothingLost
  <2>1. DOMAIN latest' = {}
    OBVIOUS
  <2>. QED BY <2>1 DEF Build, Restrict
<1>. QED BY <1>2, <1>3, <1>4 DEF MonitorInv

\* An edit: whether there was a collector, and whether there is to be one, in any of
\* the four combinations, exactly one is left running or none.
LEMMA AddInv ==
  ASSUME MonitorInv, NEW i \in Ids, NEW c, c.enabled \in BOOLEAN, AddNode(i, c)
  PROVE  MonitorInv'
<1>. DEFINE had == i \in collectors
<1>0. /\ MonitorTypeOK /\ OneCollectorEach
      /\ nodes' = Put(nodes, i, c)
      /\ collectors' = IF c.enabled THEN collectors \cup {i} ELSE collectors \ {i}
      /\ running' = [running EXCEPT ![i] = (IF had THEN @ - 1 ELSE @)
                                           + (IF c.enabled THEN 1 ELSE 0)]
      /\ had => retired[i] < MaxRetired
      /\ retired' = [retired EXCEPT ![i] = IF had THEN @ + 1 ELSE @]
      /\ latest' \in {latest, Put(latest, i, "down")}
      /\ timer' = TRUE /\ last' = last
  BY DEF AddNode, MonitorInv
<1>1. DOMAIN nodes' = DOMAIN nodes \cup {i} /\ nodes'[i] = c
      /\ \A j \in DOMAIN nodes \ {i} : nodes'[j] = nodes[j]
  BY <1>0 DEF Put
<1>2. collectors' = EnabledOf(nodes')
  <2>1. CASE c.enabled
    BY <2>1, <1>0, <1>1 DEF OneCollectorEach, EnabledOf
  <2>2. CASE ~c.enabled
    BY <2>2, <1>0, <1>1 DEF OneCollectorEach, EnabledOf
  <2>. QED BY <2>1, <2>2
<1>3. running' = Count(collectors')
  <2>1. \A j \in Ids : running[j] = IF j \in collectors THEN 1 ELSE 0
    BY <1>0 DEF OneCollectorEach, Count
  <2>2. running' = [j \in Ids |-> IF j = i THEN (IF had THEN running[i] - 1 ELSE running[i])
                                               + (IF c.enabled THEN 1 ELSE 0)
                                  ELSE running[j]]
    BY <1>0 DEF MonitorTypeOK
  <2>3. running'[i] = IF i \in collectors' THEN 1 ELSE 0
    BY <2>1, <2>2, <1>0
  <2>4. \A j \in Ids \ {i} : running'[j] = IF j \in collectors' THEN 1 ELSE 0
    BY <2>1, <2>2, <1>0
  <2>. QED BY <2>2, <2>3, <2>4 DEF Count
<1>4. running' \in [Ids -> Nat]
  BY <1>3, CountType
<1>5. retired' \in [Ids -> 0..MaxRetired]
  BY <1>0, MonitorAssumption DEF MonitorTypeOK
<1>6. DOMAIN latest' \subseteq Ids /\ \A j \in DOMAIN latest' : latest'[j] \in Shown
  <2>1. CASE latest' = latest
    BY <2>1, <1>0 DEF MonitorTypeOK
  <2>2. CASE latest' = Put(latest, i, "down")
    BY <2>2, <1>0 DEF MonitorTypeOK, Shown, Put
  <2>. QED BY <1>0, <2>1, <2>2
<1>7. collectors' \subseteq Ids
  BY <1>0 DEF MonitorTypeOK
<1>8. DOMAIN nodes' \subseteq Ids /\ \A j \in DOMAIN nodes' : nodes'[j].enabled \in BOOLEAN
  BY <1>0, <1>1 DEF MonitorTypeOK
<1>9. MonitorTypeOK'
  BY <1>0, <1>4, <1>5, <1>6, <1>7, <1>8 DEF MonitorTypeOK
<1>. QED BY <1>0, <1>2, <1>3, <1>9 DEF MonitorInv, OneCollectorEach, NothingLost

\* A removal stops the collector that the node had.
LEMMA RemoveInv ==
  ASSUME MonitorInv, NEW i \in Ids, RemoveNode(i)
  PROVE  MonitorInv'
<1>. DEFINE had == i \in collectors
<1>0. /\ MonitorTypeOK /\ OneCollectorEach
      /\ nodes' = Drop(nodes, i)
      /\ collectors' = collectors \ {i}
      /\ running' = [running EXCEPT ![i] = IF had THEN @ - 1 ELSE @]
      /\ had => retired[i] < MaxRetired
      /\ retired' = [retired EXCEPT ![i] = IF had THEN @ + 1 ELSE @]
      /\ latest' = Drop(latest, i)
      /\ timer' = TRUE /\ last' = last
  BY DEF RemoveNode, MonitorInv
<1>1. DOMAIN nodes' = DOMAIN nodes \ {i} /\ \A j \in DOMAIN nodes \ {i} : nodes'[j] = nodes[j]
  BY <1>0, DropFacts
<1>2. collectors' = EnabledOf(nodes')
  BY <1>0, <1>1 DEF OneCollectorEach, EnabledOf
<1>3. running' = Count(collectors')
  <2>1. \A j \in Ids : running[j] = IF j \in collectors THEN 1 ELSE 0
    BY <1>0 DEF OneCollectorEach, Count
  <2>2. running' = [j \in Ids |-> IF j = i /\ had THEN running[j] - 1 ELSE running[j]]
    BY <1>0 DEF MonitorTypeOK
  <2>3. \A j \in Ids : running'[j] = IF j \in collectors' THEN 1 ELSE 0
    BY <2>1, <2>2, <1>0
  <2>. QED BY <2>2, <2>3 DEF Count
<1>4. running' \in [Ids -> Nat]
  BY <1>3, CountType
<1>5. retired' \in [Ids -> 0..MaxRetired]
  BY <1>0, MonitorAssumption DEF MonitorTypeOK
<1>6. DOMAIN latest' \subseteq Ids /\ \A j \in DOMAIN latest' : latest'[j] \in Shown
  BY <1>0 DEF MonitorTypeOK, Drop, Restrict
<1>7. collectors' \subseteq Ids
  BY <1>0 DEF MonitorTypeOK
<1>8. DOMAIN nodes' \subseteq Ids /\ \A j \in DOMAIN nodes' : nodes'[j].enabled \in BOOLEAN
  BY <1>0, <1>1 DEF MonitorTypeOK
<1>9. MonitorTypeOK'
  BY <1>0, <1>4, <1>5, <1>6, <1>7, <1>8 DEF MonitorTypeOK
<1>. QED BY <1>0, <1>2, <1>3, <1>9 DEF MonitorInv, OneCollectorEach, NothingLost

\* What changes neither the list nor the collectors keeps the invariant when it asks for a
\* broadcast.
LEMMA FeedInv ==
  ASSUME MonitorInv, UNCHANGED <<fleet, last>>, timer' = TRUE,
         DOMAIN latest' \subseteq Ids, \A j \in DOMAIN latest' : latest'[j] \in Shown
  PROVE  MonitorInv'
BY DEF MonitorInv, MonitorTypeOK, OneCollectorEach, NothingLost, fleet, EnabledOf, Count

\* What the monitor does by itself: collectors emit and come to rest, the timer fires.
LEMMA MonitorStepInv ==
  ASSUME MonitorInv, MonitorStep PROVE MonitorInv'
<1>1. ASSUME NEW i \in Ids, CollectorEmits(i) PROVE MonitorInv'
  <2>1. PICK s \in Shown : latest' = Put(latest, i, s)
    BY <1>1 DEF CollectorEmits
  <2>2. DOMAIN latest' \subseteq Ids /\ \A j \in DOMAIN latest' : latest'[j] \in Shown
    BY <2>1 DEF MonitorInv, MonitorTypeOK, Put
  <2>. QED BY <1>1, <2>2, FeedInv DEF CollectorEmits
<1>2. ASSUME NEW i \in Ids, CollectorRests(i) PROVE MonitorInv'
  <2>1. /\ retired' = [retired EXCEPT ![i] = @ - 1] /\ retired[i] > 0
        /\ UNCHANGED <<nodes, collectors, running, latest, timer, last>>
    BY <1>2 DEF CollectorRests, feed
  <2>2. retired' \in [Ids -> 0..MaxRetired]
    BY <2>1, MonitorAssumption DEF MonitorInv, MonitorTypeOK
  <2>. QED BY <2>1, <2>2 DEF MonitorInv, MonitorTypeOK, OneCollectorEach, NothingLost,
                            EnabledOf, Count, Build
<1>3. CASE Broadcast
  <2>1. /\ timer' = FALSE /\ last' = Build
        /\ UNCHANGED <<nodes, collectors, running, retired, latest>>
    BY <1>3 DEF Broadcast, fleet
  <2>2. DOMAIN Build \subseteq DOMAIN latest /\ \A j \in DOMAIN Build : Build[j] = latest[j]
    BY RestrictFacts DEF Build
  <2>3. Build' = Build
    BY <2>1 DEF Build
  <2>. QED BY <2>1, <2>2, <2>3 DEF MonitorInv, MonitorTypeOK, OneCollectorEach, NothingLost,
                                  EnabledOf, Count
<1>. QED BY <1>1, <1>2, <1>3 DEF MonitorStep

\* A step that does not touch the monitor.
LEMMA MonitorStutter ==
  ASSUME MonitorInv, UNCHANGED monitorVars PROVE MonitorInv'
BY DEF MonitorInv, MonitorTypeOK, OneCollectorEach, NothingLost, monitorVars, fleet, feed,
       EnabledOf, Count, Build
-----------------------------------------------------------------------------
(* The registry. *)

\* Lists without the environment's nodes: what the file and a save hold.
Contents == UNION {[D -> Config] : D \in SUBSET (Ids \ EnvIds)}

Request ==
  {Idle}
  \cup [phase : {"body"}, id : Ids, existing : Config]
  \cup [phase : {"saving"}, id : Ids, out : Outcome, content : Contents]
  \cup [phase : {"saved"}, id : Ids, out : Outcome]

\* Where ids come from: every node that is not the environment's was posted.
IdsInv ==
  /\ reqs \in [Slots -> Request] /\ file \in Contents
  /\ DOMAIN nodes \subseteq EnvIds \cup issued
  /\ DOMAIN file \subseteq issued
  /\ \A s \in Slots :
       /\ reqs[s].phase = "body" => reqs[s].id \in EnvIds \cup issued
       /\ reqs[s].phase = "saving" => DOMAIN reqs[s].content \subseteq issued
       /\ reqs[s].phase \in {"saving", "saved"} =>
            reqs[s].out = Overlapped \/ reqs[s].id \in issued

\* Memory holds outcome v for node i, and no request will undo it: every save under way
\* writes it, and no PATCH is about to bring a deleted node back.
Held(i, v) ==
  IF v = Gone
  THEN /\ i \notin DOMAIN nodes
       /\ \A s \in Slots : ~AwaitsBody(s, i) /\ (Saving(s) => i \notin DOMAIN reqs[s].content)
  ELSE ~Shadowed(v) =>
       /\ i \in DOMAIN nodes /\ nodes[i] = v
       /\ \A s \in Slots : Saving(s) => i \in DOMAIN reqs[s].content /\ reqs[s].content[i] = v

\* The file holds it as well.
InFile(i, v) ==
  IF v = Gone THEN i \notin DOMAIN file
  ELSE ~Shadowed(v) => i \in DOMAIN file /\ file[i] = v

\* An outcome is held from the moment the request is applied, and in the file from its
\* rename on, unless the request is overlapped.
PromiseInv ==
  /\ \A s \in Slots : reqs[s].phase \in {"saving", "saved"} /\ reqs[s].out # Overlapped =>
       /\ Held(reqs[s].id, reqs[s].out)
       /\ reqs[s].phase = "saved" => InFile(reqs[s].id, reqs[s].out)
  /\ \A i \in DOMAIN answered : Held(i, answered[i]) /\ InFile(i, answered[i])

Inv == TypeOK /\ OneCollectorEach /\ NothingLost /\ IdsInv /\ PromiseInv

\* What a request carries in each of its phases.
LEMMA RequestFacts ==
  ASSUME NEW r \in Request
  PROVE  /\ r.phase \in {"idle", "body", "saving", "saved"}
         /\ r.phase = "idle" => r = Idle
         /\ r.phase = "body" => r.id \in Ids /\ r.existing \in Config
         /\ r.phase = "saving" => r.id \in Ids /\ r.out \in Outcome /\ r.content \in Contents
         /\ r.phase = "saved" => r.id \in Ids /\ r.out \in Outcome
BY DEF Request, Idle

\* A request that is overlapped keeps everything but what it promises.
LEMMA OverlapFacts ==
  ASSUME NEW r \in Request, r.phase \in {"saving", "saved"},
         NEW q, q = [r EXCEPT !.out = Overlapped]
  PROVE  /\ q \in Request /\ q.phase = r.phase /\ q.id = r.id /\ q.out = Overlapped
         /\ q.phase = "saving" => q.content = r.content
<1>1. CASE r.phase = "saving"
  BY <1>1 DEF Request, Idle, Outcome
<1>2. CASE r.phase = "saved"
  BY <1>2 DEF Request, Idle, Outcome
<1>. QED BY <1>1, <1>2

\* What the file and a save hold is a list without nodes of the environment.
LEMMA ContentsFacts ==
  ASSUME NEW f \in Contents
  PROVE  IsRegistry(f) /\ DOMAIN f \cap EnvIds = {}
BY DEF Contents, IsRegistry

\* What persist() writes is the list without the nodes of the environment.
LEMMA PersistableFacts ==
  ASSUME NEW f, IsRegistry(f)
  PROVE  /\ Persistable(f) \in Contents
         /\ DOMAIN Persistable(f) = DOMAIN f \ EnvIds
         /\ \A j \in DOMAIN f \ EnvIds : Persistable(f)[j] = f[j]
<1>1. /\ DOMAIN Persistable(f) = DOMAIN f \ EnvIds
      /\ \A j \in DOMAIN f \ EnvIds : Persistable(f)[j] = f[j]
  BY DEF Persistable, Restrict
<1>2. Persistable(f) \in [DOMAIN f \ EnvIds -> Config]
  BY DEF Persistable, Restrict, IsRegistry
<1>3. DOMAIN f \ EnvIds \in SUBSET (Ids \ EnvIds)
  BY DEF IsRegistry
<1>. QED BY <1>1, <1>2, <1>3 DEF Contents

\* What is loaded: the environment's nodes, and the file's that they do not shadow.
LEMMA LoadFacts ==
  ASSUME NEW f, IsRegistry(f), DOMAIN f \cap EnvIds = {}
  PROVE  /\ IsRegistry(Load(f))
         /\ DOMAIN Load(f) \subseteq EnvIds \cup DOMAIN f
         /\ \A j \in DOMAIN f : ~Shadowed(f[j]) => j \in DOMAIN Load(f) /\ Load(f)[j] = f[j]
<1>. DEFINE hosts == {Env[i].host : i \in EnvIds}
            kept == {i \in DOMAIN f : f[i].host \notin hosts}
<1>1. Load(f) = [i \in EnvIds \cup kept |-> IF i \in EnvIds THEN Env[i] ELSE f[i]]
  BY DEF Load
<1>2. \A j \in DOMAIN f : ~Shadowed(f[j]) => j \in kept
  BY DEF Shadowed
<1>3. kept \subseteq DOMAIN f /\ kept \cap EnvIds = {}
  OBVIOUS
<1>. HIDE DEF kept
<1>4. DOMAIN Load(f) = EnvIds \cup kept
  BY <1>1
<1>5. \A j \in EnvIds \cup kept : Load(f)[j] = IF j \in EnvIds THEN Env[j] ELSE f[j]
  BY <1>1
<1>. QED BY <1>2, <1>3, <1>4, <1>5, RegistryAssumption DEF IsRegistry

\* The PATCH handler's merge is a configuration.
LEMMA MergeType ==
  ASSUME NEW old \in Config, NEW p \in Patches PROVE Merge(old, p) \in Config
<1>1. p \in Patch
  BY RegistryAssumption
<1>2. /\ old.host \in Hosts /\ old.creds \in SUBSET Creds /\ old.enabled \in BOOLEAN
      /\ p.host \in Hosts \cup {Keep} /\ p.creds \in SUBSET {"key", "password"}
      /\ p.enabled \in BOOLEAN \cup {Keep}
  BY <1>1 DEF Config, Patch
<1>3. (IF p.host = Keep THEN old.host ELSE p.host) \in Hosts
  BY <1>2
<1>4. (old.creds \cup p.creds) \ {"passphrase"} \in SUBSET Creds
  BY <1>2 DEF Creds
<1>5. (IF p.enabled = Keep THEN old.enabled ELSE p.enabled) \in BOOLEAN
  <2>1. CASE p.enabled = Keep
    BY <2>1, <1>2
  <2>2. CASE p.enabled # Keep
    BY <2>2, <1>2
  <2>. QED BY <2>1, <2>2
<1>. QED BY <1>3, <1>4, <1>5 DEF Merge, Config

\* A list of configurations is one the monitor can start on.
LEMMA RegistryIsList == ASSUME NEW f, IsRegistry(f) PROVE IsList(f)
BY DEF IsRegistry, IsList, Config

\* The type invariant in two parts: the monitor's and the registry's.
LEMMA Types ==
  ASSUME MonitorTypeOK, IdsInv, IsRegistry(nodes), issued \subseteq Ids \ EnvIds,
         DOMAIN answered \subseteq issued, \A i \in DOMAIN answered : answered[i] \in Config \cup {Gone}
  PROVE  TypeOK
<1>1. IsRegistry(file) /\ DOMAIN file \cap EnvIds = {}
  BY ContentsFacts DEF IdsInv
<1>2. ASSUME NEW s \in Slots
      PROVE  /\ reqs[s].phase \in {"idle", "body", "saving", "saved"}
             /\ reqs[s].phase = "body" => reqs[s].existing \in Config
             /\ reqs[s].phase = "saving" => IsRegistry(reqs[s].content)
             /\ reqs[s].phase \in {"saving", "saved"} => reqs[s].out \in Outcome
  BY RequestFacts, ContentsFacts DEF IdsInv
<1>. QED BY <1>1, <1>2 DEF TypeOK

-----------------------------------------------------------------------------
(* Steps of the registry. *)

RegInv == IdsInv /\ PromiseInv /\ IsRegistry(nodes) /\ issued \subseteq Ids \ EnvIds
          /\ DOMAIN answered \subseteq issued
          /\ \A i \in DOMAIN answered : answered[i] \in Config \cup {Gone}

\* What BeginSave makes of the requests: s saves the new list, others on the same node
\* promise nothing any more, the rest are as they were.
LEMMA BeginFacts ==
  ASSUME RegInv, IsRegistry(nodes'), NEW s \in Slots, NEW i \in Ids, NEW out \in Outcome,
         BeginSave(s, i, out)
  PROVE  /\ reqs' \in [Slots -> Request]
         /\ reqs'[s].phase = "saving" /\ reqs'[s].id = i /\ reqs'[s].out = out
         /\ reqs'[s].content = Persistable(nodes')
         /\ \A t \in Slots \ {s} :
              \/ reqs'[t] = reqs[t] /\ ~(reqs[t].phase \in {"saving", "saved"} /\ reqs[t].id = i)
              \/ /\ reqs[t].phase \in {"saving", "saved"} /\ reqs[t].id = i
                 /\ reqs'[t].phase = reqs[t].phase /\ reqs'[t].id = i /\ reqs'[t].out = Overlapped
                 /\ reqs'[t].phase = "saving" => reqs'[t].content = reqs[t].content
<1>. DEFINE new == [phase |-> "saving", id |-> i, out |-> out, content |-> Persistable(nodes')]
<1>0. reqs' = [t \in Slots |->
                 IF t = s THEN new
                 ELSE IF reqs[t].phase \in {"saving", "saved"} /\ reqs[t].id = i
                      THEN [reqs[t] EXCEPT !.out = Overlapped] ELSE reqs[t]]
  BY DEF BeginSave
<1>1. Persistable(nodes') \in Contents
  BY PersistableFacts
<1>2. new \in Request /\ new.phase = "saving" /\ new.id = i /\ new.out = out
      /\ new.content = Persistable(nodes')
  BY <1>1 DEF Request
<1>. HIDE DEF new
<1>3. reqs'[s] = new
  BY <1>0
<1>4. ASSUME NEW t \in Slots \ {s}
      PROVE  /\ reqs'[t] \in Request
             /\ \/ reqs'[t] = reqs[t] /\ ~(reqs[t].phase \in {"saving", "saved"} /\ reqs[t].id = i)
                \/ /\ reqs[t].phase \in {"saving", "saved"} /\ reqs[t].id = i
                   /\ reqs'[t].phase = reqs[t].phase /\ reqs'[t].id = i /\ reqs'[t].out = Overlapped
                   /\ reqs'[t].phase = "saving" => reqs'[t].content = reqs[t].content
  <2>1. reqs[t] \in Request
    BY DEF RegInv, IdsInv
  <2>2. CASE reqs[t].phase \in {"saving", "saved"} /\ reqs[t].id = i
    <3>1. reqs'[t] = [reqs[t] EXCEPT !.out = Overlapped]
      BY <2>2, <1>0
    <3>2. /\ reqs'[t] \in Request /\ reqs'[t].phase = reqs[t].phase
          /\ reqs'[t].id = reqs[t].id /\ reqs'[t].out = Overlapped
          /\ reqs'[t].phase = "saving" => reqs'[t].content = reqs[t].content
      BY <2>1, <2>2, <3>1, OverlapFacts
    <3>. QED BY <2>2, <3>2
  <2>3. CASE ~(reqs[t].phase \in {"saving", "saved"} /\ reqs[t].id = i)
    BY <2>1, <2>3, <1>0
  <2>. QED BY <2>2, <2>3
<1>5. reqs' \in [Slots -> Request]
  BY <1>0, <1>2, <1>3, <1>4
<1>. QED BY <1>2, <1>3, <1>4, <1>5

\* A request that is applied to node i and begins its save.  Whatever it promises, it holds;
\* what others promise for other nodes is not touched.
LEMMA SaveInv ==
  ASSUME RegInv, NEW s \in Slots, NEW i \in Ids, NEW out \in Outcome,
         BeginSave(s, i, out), file' = file,
         IsRegistry(nodes'), issued \subseteq issued', issued' \subseteq Ids \ EnvIds,
         i \in EnvIds \cup issued', DOMAIN nodes' \subseteq DOMAIN nodes \cup {i},
         \A j \in DOMAIN nodes \ {i} : j \in DOMAIN nodes' /\ nodes'[j] = nodes[j],
         DOMAIN answered' \subseteq DOMAIN answered \ {i},
         \A j \in DOMAIN answered' : answered'[j] = answered[j],
         out # Overlapped =>
           /\ i \in issued' /\ \A t \in Slots \ {s} : ~Saving(t)
           /\ IF out = Gone THEN i \notin DOMAIN nodes' /\ \A t \in Slots \ {s} : ~AwaitsBody(t, i)
              ELSE i \in DOMAIN nodes' /\ nodes'[i] = out
  PROVE  RegInv'
<1>1. /\ reqs' \in [Slots -> Request]
      /\ reqs'[s].phase = "saving" /\ reqs'[s].id = i /\ reqs'[s].out = out
      /\ reqs'[s].content = Persistable(nodes')
  BY BeginFacts
<1>2. \A t \in Slots \ {s} :
        \/ reqs'[t] = reqs[t] /\ ~(reqs[t].phase \in {"saving", "saved"} /\ reqs[t].id = i)
        \/ /\ reqs[t].phase \in {"saving", "saved"} /\ reqs[t].id = i
           /\ reqs'[t].phase = reqs[t].phase /\ reqs'[t].id = i /\ reqs'[t].out = Overlapped
           /\ reqs'[t].phase = "saving" => reqs'[t].content = reqs[t].content
  BY BeginFacts
<1>3. /\ DOMAIN reqs'[s].content = DOMAIN nodes' \ EnvIds
      /\ \A j \in DOMAIN nodes' \ EnvIds : reqs'[s].content[j] = nodes'[j]
  BY <1>1 DEF Persistable, Restrict
<1>4. DOMAIN nodes' \subseteq EnvIds \cup issued'
  BY DEF RegInv, IdsInv
<1>5. IdsInv'
  <2>1. ASSUME NEW t \in Slots
        PROVE  /\ reqs'[t].phase = "body" => reqs'[t].id \in EnvIds \cup issued'
               /\ reqs'[t].phase = "saving" => DOMAIN reqs'[t].content \subseteq issued'
               /\ reqs'[t].phase \in {"saving", "saved"} =>
                    reqs'[t].out = Overlapped \/ reqs'[t].id \in issued'
    <3>1. CASE t = s
      BY <3>1, <1>1, <1>3, <1>4
    <3>2. CASE t # s
      BY <3>2, <1>2 DEF RegInv, IdsInv
    <3>. QED BY <3>1, <3>2
  <2>. QED BY <2>1, <1>1, <1>4 DEF RegInv, IdsInv
<1>6. ASSUME NEW j, NEW v, j \in issued, j # i, Held(j, v) PROVE Held(j, v)'
  <2>0. j \notin EnvIds
    BY <1>6 DEF RegInv
  <2>1. CASE v = Gone
    <3>1. j \notin DOMAIN nodes'
      BY <2>1, <1>6 DEF Held
    <3>2. ASSUME NEW t \in Slots
          PROVE  ~AwaitsBody(t, j)' /\ (Saving(t)' => j \notin DOMAIN reqs'[t].content)
      BY <3>1, <2>1, <1>1, <1>2, <1>3, <1>6 DEF Held, AwaitsBody, Saving
    <3>. QED BY <2>1, <3>1, <3>2 DEF Held
  <2>2. CASE v # Gone
    <3>. SUFFICES ASSUME ~Shadowed(v)
                  PROVE  /\ j \in DOMAIN nodes' /\ nodes'[j] = v
                         /\ \A t \in Slots : Saving(t)' =>
                              j \in DOMAIN reqs'[t].content /\ reqs'[t].content[j] = v
      BY <2>2 DEF Held, Shadowed
    <3>1. /\ j \in DOMAIN nodes /\ nodes[j] = v
          /\ \A t \in Slots : Saving(t) => j \in DOMAIN reqs[t].content /\ reqs[t].content[j] = v
      BY <2>2, <1>6 DEF Held
    <3>2. j \in DOMAIN nodes' /\ nodes'[j] = v
      BY <3>1, <1>6
    <3>3. ASSUME NEW t \in Slots, Saving(t)'
          PROVE  j \in DOMAIN reqs'[t].content /\ reqs'[t].content[j] = v
      BY <3>1, <3>2, <3>3, <2>0, <1>1, <1>2, <1>3 DEF Saving
    <3>. QED BY <3>2, <3>3
  <2>. QED BY <2>1, <2>2
<1>7. out # Overlapped => Held(i, out)'
  <2>. SUFFICES ASSUME out # Overlapped PROVE Held(i, out)'
    OBVIOUS
  <2>0. /\ i \in issued' /\ i \notin EnvIds
        /\ \A t \in Slots \ {s} : ~Saving(t)
    OBVIOUS
  <2>1. \A t \in Slots \ {s} : ~Saving(t)'
    BY <2>0, <1>2 DEF Saving
  <2>2. CASE out = Gone
    <3>1. \A t \in Slots : ~AwaitsBody(t, i)'
      BY <2>2, <1>1, <1>2 DEF AwaitsBody
    <3>2. i \notin DOMAIN reqs'[s].content
      BY <2>2, <1>3
    <3>. QED BY <3>1, <3>2, <2>1, <2>2 DEF Held
  <2>3. CASE out # Gone
    <3>1. i \in DOMAIN nodes' /\ nodes'[i] = out
      BY <2>3
    <3>2. i \in DOMAIN reqs'[s].content /\ reqs'[s].content[i] = out
      BY <3>1, <2>0, <1>3
    <3>. QED BY <3>1, <3>2, <2>1, <2>3 DEF Held
  <2>. QED BY <2>2, <2>3
<1>8. PromiseInv'
  <2>1. ASSUME NEW t \in Slots, reqs'[t].phase \in {"saving", "saved"}, reqs'[t].out # Overlapped
        PROVE  /\ Held(reqs[t].id, reqs[t].out)'
               /\ reqs'[t].phase = "saved" => InFile(reqs[t].id, reqs[t].out)'
    <3>1. CASE t = s
      BY <3>1, <2>1, <1>1, <1>7
    <3>2. CASE t # s
      <4>1. reqs'[t] = reqs[t] /\ reqs[t].id # i /\ reqs[t].phase \in {"saving", "saved"}
        BY <3>2, <2>1, <1>2
      <4>2. reqs[t].id \in issued /\ Held(reqs[t].id, reqs[t].out)
            /\ (reqs[t].phase = "saved" => InFile(reqs[t].id, reqs[t].out))
        BY <4>1, <2>1 DEF RegInv, IdsInv, PromiseInv
      <4>3. Held(reqs[t].id, reqs[t].out)'
        BY <4>1, <4>2, <1>6
      <4>. QED BY <4>1, <4>2, <4>3 DEF InFile, Shadowed
    <3>. QED BY <3>1, <3>2
  <2>2. ASSUME NEW j \in DOMAIN answered'
        PROVE  Held(j, answered[j])' /\ InFile(j, answered[j])'
    <3>1. j \in issued /\ j # i /\ answered'[j] = answered[j]
          /\ Held(j, answered[j]) /\ InFile(j, answered[j])
      BY DEF RegInv, PromiseInv
    <3>2. Held(j, answered[j])'
      BY <3>1, <1>6
    <3>. QED BY <3>1, <3>2 DEF InFile, Shadowed
  <2>. QED BY <2>1, <2>2 DEF PromiseInv
<1>9. /\ DOMAIN answered' \subseteq issued'
      /\ \A j \in DOMAIN answered' : answered'[j] \in Config \cup {Gone}
  BY DEF RegInv
<1>. QED BY <1>5, <1>8, <1>9 DEF RegInv

\* An outcome that nothing overlapped is a configuration or Gone.
LEMMA OutcomeIsAnswer ==
  ASSUME NEW out \in Outcome, out # Overlapped PROVE out \in Config \cup {Gone}
BY DEF Outcome

\* A POST: its id is new, so that no other request is about the node.
LEMMA PostInv ==
  ASSUME Inv, RegInv, NEW s \in Slots, NEW i \in Ids, NEW c \in Inputs, Post(s, i, c)
  PROVE  MonitorInv' /\ RegInv'
<1>. DEFINE out == IF Alone(s, i) THEN c ELSE Overlapped
<1>0. /\ i \in Ids \ (EnvIds \cup issued) /\ issued' = issued \cup {i}
      /\ AddNode(i, c) /\ BeginSave(s, i, out) /\ file' = file /\ answered' = answered
      /\ nodes' = Put(nodes, i, c)
  BY DEF Post, AddNode
<1>1. c \in Config /\ c.enabled \in BOOLEAN /\ c # Gone
  BY RegistryAssumption DEF Config
<1>2. MonitorInv'
  BY <1>0, <1>1, AddInv DEF Inv, TypeOK, MonitorInv
<1>3. /\ DOMAIN nodes' = DOMAIN nodes \cup {i} /\ nodes'[i] = c
      /\ \A j \in DOMAIN nodes \ {i} : nodes'[j] = nodes[j]
  BY <1>0 DEF Put
<1>4. IsRegistry(nodes')
  BY <1>1, <1>3 DEF RegInv, IsRegistry
<1>5. out \in Outcome /\ (out # Overlapped => Alone(s, i) /\ out = c)
  BY <1>1 DEF Outcome
<1>6. i \notin DOMAIN answered
  BY <1>0 DEF RegInv
<1>7. issued' \subseteq Ids \ EnvIds
  BY <1>0 DEF RegInv
<1>. HIDE DEF out
<1>8. RegInv'
  BY <1>0, <1>1, <1>3, <1>4, <1>5, <1>6, <1>7, SaveInv DEF Alone
<1>. QED BY <1>2, <1>8

\* A PATCH that is applied: an answer of deletion cannot be there, since the request waited.
LEMMA PatchInv ==
  ASSUME Inv, RegInv, NEW s \in Slots, NEW p \in Patches, PatchApplies(s, p)
  PROVE  MonitorInv' /\ RegInv'
<1>. DEFINE i == reqs[s].id
            c == Merge(reqs[s].existing, p)
            out == IF Alone(s, i) THEN c ELSE Overlapped
<1>0. /\ reqs[s].phase = "body" /\ issued' = issued /\ file' = file
      /\ AddNode(i, c) /\ BeginSave(s, i, out) /\ nodes' = Put(nodes, i, c)
      /\ answered' = IF i \in DOMAIN answered /\ answered[i] # Gone
                     THEN Drop(answered, i) ELSE answered
  BY DEF PatchApplies, AddNode
<1>a. reqs[s] \in Request
  BY DEF RegInv, IdsInv
<1>b. reqs[s].existing \in Config /\ i \in Ids /\ i \in EnvIds \cup issued
  BY <1>0, <1>a, RequestFacts DEF RegInv, IdsInv
<1>1. c \in Config /\ c.enabled \in BOOLEAN /\ c # Gone /\ c # Overlapped
  <2>1. c \in Config
    BY <1>b, MergeType
  <2>. HIDE DEF c
  <2>. QED BY <2>1, RegistryAssumption DEF Config
<1>c. AwaitsBody(s, i)
  BY <1>0 DEF AwaitsBody
<1>. HIDE DEF i, c
<1>2. MonitorInv'
  BY <1>0, <1>1, <1>b, AddInv DEF Inv, TypeOK, MonitorInv
<1>3. /\ DOMAIN nodes' = DOMAIN nodes \cup {i} /\ nodes'[i] = c
      /\ \A j \in DOMAIN nodes \ {i} : nodes'[j] = nodes[j]
  BY <1>0 DEF Put
<1>4. IsRegistry(nodes')
  BY <1>1, <1>3, <1>b DEF RegInv, IsRegistry
<1>5. out \in Outcome /\ (out # Overlapped => Alone(s, i) /\ out = c)
  BY <1>1 DEF Outcome
\* A node answered as deleted has no request that waits for a body.
<1>6. /\ DOMAIN answered' \subseteq DOMAIN answered \ {i}
      /\ \A j \in DOMAIN answered' : answered'[j] = answered[j]
  <2>1. CASE i \in DOMAIN answered /\ answered[i] # Gone
    BY <2>1, <1>0 DEF Drop, Restrict
  <2>2. CASE i \in DOMAIN answered /\ answered[i] = Gone
    BY <2>2, <1>c DEF RegInv, PromiseInv, Held
  <2>3. CASE i \notin DOMAIN answered
    BY <2>3, <1>0
  <2>. QED BY <2>1, <2>2, <2>3
<1>7. issued' \subseteq Ids \ EnvIds /\ i \in EnvIds \cup issued'
  BY <1>0, <1>b DEF RegInv
<1>8. out # Overlapped => i \in issued' /\ \A t \in Slots \ {s} : ~Saving(t)
  BY <1>5, <1>7 DEF Alone
<1>. HIDE DEF out
<1>9. RegInv'
  BY <1>0, <1>b, <1>1, <1>3, <1>4, <1>5, <1>6, <1>7, <1>8, SaveInv
<1>. QED BY <1>2, <1>9

\* A DELETE: what it promises needs that no PATCH of the node waits for its body.
LEMMA DeleteInv ==
  ASSUME Inv, RegInv, NEW s \in Slots, NEW i \in Ids, Delete(s, i)
  PROVE  MonitorInv' /\ RegInv'
<1>. DEFINE calm == Alone(s, i) /\ ~\E t \in Slots : AwaitsBody(t, i)
            out == IF calm THEN Gone ELSE Overlapped
<1>0. /\ i \in DOMAIN nodes /\ RemoveNode(i) /\ BeginSave(s, i, out)
      /\ answered' = Drop(answered, i) /\ file' = file /\ issued' = issued
      /\ nodes' = Drop(nodes, i)
  BY DEF Delete, RemoveNode
<1>1. MonitorInv'
  BY <1>0, RemoveInv DEF Inv, TypeOK, MonitorInv
<1>2. /\ DOMAIN nodes' = DOMAIN nodes \ {i}
      /\ \A j \in DOMAIN nodes \ {i} : nodes'[j] = nodes[j]
  BY <1>0 DEF Drop, Restrict
<1>3. IsRegistry(nodes')
  BY <1>2 DEF RegInv, IsRegistry
<1>4. out \in Outcome /\ (out # Overlapped => calm /\ out = Gone)
  BY RegistryAssumption DEF Outcome
<1>5. /\ DOMAIN answered' \subseteq DOMAIN answered \ {i}
      /\ \A j \in DOMAIN answered' : answered'[j] = answered[j]
  BY <1>0 DEF Drop, Restrict
<1>6. i \in EnvIds \cup issued /\ issued \subseteq Ids \ EnvIds
  BY <1>0 DEF RegInv, IdsInv
<1>7. out # Overlapped => /\ i \in issued' /\ \A t \in Slots \ {s} : ~Saving(t)
                          /\ \A t \in Slots \ {s} : ~AwaitsBody(t, i)
  BY <1>0, <1>4, <1>6 DEF Alone
<1>. HIDE DEF out, calm
<1>8. RegInv'
  BY <1>0, <1>2, <1>3, <1>4, <1>5, <1>6, <1>7, SaveInv
<1>. QED BY <1>1, <1>8

\* A request that changes phase without a change to the list, and promises nothing new.
LEMMA PhaseInv ==
  ASSUME RegInv, NEW s \in Slots, NEW r \in Request,
         reqs' = [reqs EXCEPT ![s] = r],
         UNCHANGED <<nodes, file, issued, answered>>,
         \/ r = Idle
         \/ r.phase = "body" /\ r.id \in DOMAIN nodes
  PROVE  RegInv'
<1>1. /\ reqs' \in [Slots -> Request] /\ reqs'[s] = r
      /\ \A t \in Slots \ {s} : reqs'[t] = reqs[t]
  BY DEF RegInv, IdsInv
<1>2. r.phase \in {"idle", "body"} /\ (r.phase = "body" => r.id \in DOMAIN nodes)
  BY DEF Idle
<1>3. IdsInv'
  BY <1>1, <1>2 DEF RegInv, IdsInv
<1>4. ASSUME NEW j, NEW v, Held(j, v) PROVE Held(j, v)'
  <2>1. CASE v = Gone
    <3>1. ASSUME NEW t \in Slots
          PROVE  ~AwaitsBody(t, j)' /\ (Saving(t)' => j \notin DOMAIN reqs'[t].content)
      BY <1>1, <1>2, <1>4, <2>1 DEF Held, AwaitsBody, Saving
    <3>. QED BY <1>4, <2>1, <3>1 DEF Held
  <2>2. CASE v # Gone
    BY <1>1, <1>2, <1>4, <2>2 DEF Held, Saving, Shadowed
  <2>. QED BY <2>1, <2>2
<1>5. PromiseInv'
  <2>1. ASSUME NEW t \in Slots, reqs'[t].phase \in {"saving", "saved"}, reqs'[t].out # Overlapped
        PROVE  /\ Held(reqs[t].id, reqs[t].out)'
               /\ reqs'[t].phase = "saved" => InFile(reqs[t].id, reqs[t].out)'
    <3>1. reqs'[t] = reqs[t]
      BY <1>1, <1>2, <2>1
    <3>2. Held(reqs[t].id, reqs[t].out) /\ (reqs[t].phase = "saved" => InFile(reqs[t].id, reqs[t].out))
      BY <2>1, <3>1 DEF RegInv, PromiseInv
    <3>3. Held(reqs[t].id, reqs[t].out)'
      BY <3>1, <3>2, <1>4
    <3>. QED BY <3>1, <3>2, <3>3 DEF InFile, Shadowed
  <2>2. ASSUME NEW j \in DOMAIN answered'
        PROVE  Held(j, answered[j])' /\ InFile(j, answered[j])'
    <3>1. Held(j, answered[j]) /\ InFile(j, answered[j])
      BY DEF RegInv, PromiseInv
    <3>2. Held(j, answered[j])'
      BY <3>1, <1>4
    <3>. QED BY <3>1, <3>2 DEF InFile, Shadowed
  <2>. QED BY <2>1, <2>2 DEF PromiseInv
<1>. QED BY <1>3, <1>5 DEF RegInv

\* The rename: what every save under way writes is what this one wrote.
LEMMA RenameInv ==
  ASSUME RegInv, NEW s \in Slots, Rename(s) PROVE RegInv'
<1>. DEFINE r == [phase |-> "saved", id |-> reqs[s].id, out |-> reqs[s].out]
<1>0. /\ reqs[s].phase = "saving" /\ file' = reqs[s].content /\ reqs' = [reqs EXCEPT ![s] = r]
      /\ UNCHANGED <<nodes, issued, answered>>
  BY DEF Rename, Saving, monitorVars, fleet, RegInv, IdsInv
<1>1. /\ reqs[s] \in Request /\ reqs[s].content \in Contents
      /\ reqs[s].id \in Ids /\ reqs[s].out \in Outcome
  BY <1>0, RequestFacts DEF RegInv, IdsInv
<1>2. r \in Request /\ r.phase = "saved" /\ r.id = reqs[s].id /\ r.out = reqs[s].out
  BY <1>1 DEF Request
<1>. HIDE DEF r
<1>3. /\ reqs' \in [Slots -> Request] /\ reqs'[s] = r
      /\ \A t \in Slots \ {s} : reqs'[t] = reqs[t]
  BY <1>0, <1>2 DEF RegInv, IdsInv
<1>4. IdsInv'
  BY <1>0, <1>1, <1>2, <1>3 DEF RegInv, IdsInv
<1>5. ASSUME NEW j, NEW v, Held(j, v) PROVE Held(j, v)' /\ InFile(j, v)'
  <2>1. CASE v = Gone
    <3>1. ASSUME NEW t \in Slots
          PROVE  ~AwaitsBody(t, j)' /\ (Saving(t)' => j \notin DOMAIN reqs'[t].content)
      BY <1>2, <1>3, <1>5, <2>1 DEF Held, AwaitsBody, Saving
    <3>2. j \notin DOMAIN file'
      BY <1>0, <1>5, <2>1 DEF Held, Saving
    <3>. QED BY <1>0, <1>5, <2>1, <3>1, <3>2 DEF Held, InFile
  <2>2. CASE v # Gone
    BY <1>0, <1>2, <1>3, <1>5, <2>2 DEF Held, InFile, Saving, Shadowed
  <2>. QED BY <2>1, <2>2
<1>6. PromiseInv'
  <2>1. ASSUME NEW t \in Slots, reqs'[t].phase \in {"saving", "saved"}, reqs'[t].out # Overlapped
        PROVE  /\ Held(reqs[t].id, reqs[t].out)'
               /\ reqs'[t].phase = "saved" => InFile(reqs[t].id, reqs[t].out)'
    <3>1. /\ reqs'[t].id = reqs[t].id /\ reqs'[t].out = reqs[t].out
          /\ reqs[t].phase \in {"saving", "saved"}
      BY <1>0, <1>2, <1>3, <2>1
    <3>2. Held(reqs[t].id, reqs[t].out)
      BY <2>1, <3>1 DEF RegInv, PromiseInv
    <3>. QED BY <3>1, <3>2, <1>5
  <2>2. ASSUME NEW j \in DOMAIN answered'
        PROVE  Held(j, answered[j])' /\ InFile(j, answered[j])'
    <3>1. Held(j, answered[j]) /\ answered' = answered
      BY <1>0 DEF RegInv, PromiseInv
    <3>. QED BY <3>1, <1>5
  <2>. QED BY <2>1, <2>2 DEF PromiseInv
<1>. QED BY <1>0, <1>4, <1>6 DEF RegInv

\* The answer: what was held for the request is held for the node.
LEMMA AnswerInv ==
  ASSUME RegInv, NEW s \in Slots, Answer(s) PROVE RegInv'
<1>. DEFINE i == reqs[s].id
            v == reqs[s].out
<1>0. /\ reqs[s].phase = "saved" /\ reqs' = [reqs EXCEPT ![s] = Idle]
      /\ answered' = IF v = Overlapped THEN answered ELSE Put(answered, i, v)
      /\ UNCHANGED <<nodes, file, issued>>
  BY DEF Answer, monitorVars, fleet
<1>1. i \in Ids /\ v \in Outcome /\ (v # Overlapped => i \in issued /\ Held(i, v) /\ InFile(i, v))
  BY <1>0, RequestFacts DEF RegInv, IdsInv, PromiseInv
<1>2. /\ reqs' \in [Slots -> Request] /\ reqs'[s] = Idle /\ Idle.phase = "idle"
      /\ \A t \in Slots \ {s} : reqs'[t] = reqs[t]
  BY <1>0 DEF RegInv, IdsInv, Request, Idle
<1>. HIDE DEF i, v
<1>3. IdsInv'
  BY <1>0, <1>2 DEF RegInv, IdsInv
<1>4. ASSUME NEW j, NEW w, Held(j, w) PROVE Held(j, w)'
  <2>1. CASE w = Gone
    <3>1. ASSUME NEW t \in Slots
          PROVE  ~AwaitsBody(t, j)' /\ (Saving(t)' => j \notin DOMAIN reqs'[t].content)
      BY <1>2, <1>4, <2>1 DEF Held, AwaitsBody, Saving
    <3>. QED BY <1>0, <1>4, <2>1, <3>1 DEF Held
  <2>2. CASE w # Gone
    BY <1>0, <1>2, <1>4, <2>2 DEF Held, Saving, Shadowed
  <2>. QED BY <2>1, <2>2
<1>5. \A j, w : InFile(j, w) => InFile(j, w)'
  BY <1>0 DEF InFile, Shadowed
<1>6. \A j \in DOMAIN answered' :
        \/ j = i /\ answered'[j] = v /\ v # Overlapped
        \/ j \in DOMAIN answered /\ answered'[j] = answered[j]
  BY <1>0 DEF Put
<1>7. PromiseInv'
  <2>1. ASSUME NEW t \in Slots, reqs'[t].phase \in {"saving", "saved"}, reqs'[t].out # Overlapped
        PROVE  /\ Held(reqs[t].id, reqs[t].out)'
               /\ reqs'[t].phase = "saved" => InFile(reqs[t].id, reqs[t].out)'
    <3>1. reqs'[t] = reqs[t]
      BY <1>2, <2>1
    <3>2. Held(reqs[t].id, reqs[t].out) /\ (reqs[t].phase = "saved" => InFile(reqs[t].id, reqs[t].out))
      BY <2>1, <3>1 DEF RegInv, PromiseInv
    <3>. QED BY <3>1, <3>2, <1>4, <1>5
  <2>2. ASSUME NEW j \in DOMAIN answered'
        PROVE  Held(j, answered[j])' /\ InFile(j, answered[j])'
    <3>1. Held(j, answered'[j]) /\ InFile(j, answered'[j])
      BY <1>1, <1>6 DEF RegInv, PromiseInv
    <3>. QED BY <3>1, <1>4, <1>5
  <2>. QED BY <2>1, <2>2 DEF PromiseInv
<1>8. /\ DOMAIN answered' \subseteq issued'
      /\ \A j \in DOMAIN answered' : answered'[j] \in Config \cup {Gone}
  <2>1. v # Overlapped => i \in issued /\ v \in Config \cup {Gone}
    BY <1>1, OutcomeIsAnswer
  <2>2. DOMAIN answered' \subseteq issued
    BY <2>1, <1>6 DEF RegInv
  <2>. QED BY <2>1, <2>2, <1>0, <1>6 DEF RegInv
<1>. QED BY <1>0, <1>3, <1>7, <1>8 DEF RegInv

\* A restart: requests are lost, and the list is what the file and the environment say.
LEMMA RestartRegInv ==
  ASSUME Inv, RegInv, Restart PROVE MonitorInv' /\ RegInv'
<1>0. /\ MonitorRestart(Load(file)) /\ nodes' = Load(file)
      /\ reqs' = [s \in Slots |-> Idle] /\ UNCHANGED <<file, issued, answered>>
  BY DEF Restart, MonitorRestart
<1>1. IsRegistry(file) /\ DOMAIN file \cap EnvIds = {}
  BY ContentsFacts DEF RegInv, IdsInv
<1>2. /\ IsRegistry(nodes') /\ DOMAIN nodes' \subseteq EnvIds \cup DOMAIN file
      /\ \A j \in DOMAIN file : ~Shadowed(file[j]) => j \in DOMAIN nodes' /\ nodes'[j] = file[j]
  BY <1>0, <1>1, LoadFacts
<1>3. MonitorInv'
  <2>1. IsList(Load(file))
    BY <1>1, LoadFacts, RegistryIsList
  <2>. QED BY <1>0, <2>1, RestartInv
<1>4. /\ Idle \in Request /\ Idle.phase = "idle"
      /\ \A s \in Slots : reqs'[s] = Idle
  BY <1>0 DEF Idle, Request
<1>5. IdsInv'
  BY <1>0, <1>2, <1>4 DEF RegInv, IdsInv
<1>6. ASSUME NEW j \in DOMAIN answered PROVE Held(j, answered[j])' /\ InFile(j, answered[j])'
  <2>1. InFile(j, answered[j]) /\ j \in issued /\ j \notin EnvIds
    BY DEF RegInv, PromiseInv
  <2>2. InFile(j, answered[j])'
    BY <2>1, <1>0 DEF InFile, Shadowed
  <2>3. CASE answered[j] = Gone
    BY <2>1, <2>3, <1>0, <1>2, <1>4 DEF InFile, Held, AwaitsBody, Saving
  <2>4. CASE answered[j] # Gone
    BY <2>1, <2>4, <1>0, <1>2, <1>4 DEF InFile, Held, Saving, Shadowed
  <2>. QED BY <2>2, <2>3, <2>4
<1>7. PromiseInv'
  BY <1>0, <1>4, <1>6 DEF PromiseInv
<1>. QED BY <1>0, <1>2, <1>3, <1>5, <1>7 DEF RegInv

-----------------------------------------------------------------------------
(* The invariant, and what follows from it. *)

\* The registry's part of the invariant, out of the whole.
LEMMA RegOfInv == ASSUME Inv PROVE RegInv /\ MonitorInv
BY DEF Inv, TypeOK, RegInv, MonitorInv

\* The two parts make the whole.
LEMMA InvOfParts == ASSUME MonitorInv, RegInv PROVE Inv
<1>1. TypeOK
  BY Types DEF MonitorInv, RegInv
<1>. QED BY <1>1 DEF MonitorInv, RegInv, Inv

\* A step that leaves the list and the registry alone.
LEMMA RegStutter ==
  ASSUME RegInv, UNCHANGED <<nodes, registry>> PROVE RegInv'
<1>1. /\ nodes' = nodes /\ file' = file /\ reqs' = reqs /\ issued' = issued
      /\ answered' = answered
  BY DEF registry
<1>2. \A i, v : Held(i, v) => Held(i, v)'
  BY <1>1 DEF Held, AwaitsBody, Saving, Shadowed
<1>3. \A i, v : InFile(i, v) => InFile(i, v)'
  BY <1>1 DEF InFile, Shadowed
<1>4. IdsInv'
  BY <1>1 DEF RegInv, IdsInv
<1>5. PromiseInv'
  BY <1>1, <1>2, <1>3 DEF RegInv, PromiseInv
<1>. QED BY <1>1, <1>4, <1>5 DEF RegInv

\* At the start there is no file, no request and no answer.
LEMMA InitInv == Init => Inv
<1>. SUFFICES ASSUME Init PROVE Inv
  OBVIOUS
<1>1. /\ file = <<>> /\ MonitorStart(Load(file)) /\ nodes = Load(file)
      /\ reqs = [s \in Slots |-> Idle] /\ issued = {} /\ answered = <<>>
  BY DEF Init, MonitorStart
<1>2. file \in Contents /\ DOMAIN file = {} /\ DOMAIN answered = {}
  <2>1. file \in [{} -> Config]
    BY <1>1
  <2>. QED BY <1>1, <2>1 DEF Contents
<1>3. IsRegistry(nodes) /\ DOMAIN nodes \subseteq EnvIds
  BY <1>1, <1>2, LoadFacts DEF IsRegistry
<1>4. MonitorInv
  <2>1. IsList(Load(file))
    BY <1>1, <1>3, RegistryIsList
  <2>. QED BY <1>1, <2>1, StartInv
<1>5. Idle \in Request /\ Idle.phase = "idle" /\ \A s \in Slots : reqs[s] = Idle
  BY <1>1 DEF Idle, Request
<1>6. IdsInv
  BY <1>1, <1>2, <1>3, <1>5 DEF IdsInv
<1>7. PromiseInv
  BY <1>2, <1>5 DEF PromiseInv
<1>8. RegInv
  BY <1>1, <1>2, <1>3, <1>6, <1>7 DEF RegInv
<1>. QED BY <1>4, <1>8, InvOfParts

\* Every step keeps the invariant.
LEMMA NextInv == Inv /\ [Next]_vars => Inv'
<1>. SUFFICES ASSUME Inv, [Next]_vars PROVE MonitorInv' /\ RegInv'
  <2>1. MonitorInv' /\ RegInv' => Inv'
    <3>1. MonitorInv' /\ RegInv' => TypeOK'
      <4>. SUFFICES ASSUME MonitorInv', RegInv' PROVE TypeOK'
        OBVIOUS
      <4>1. file' \in Contents /\ reqs' \in [Slots -> Request]
        BY DEF RegInv, IdsInv
      <4>2. IsRegistry(file') /\ DOMAIN file' \cap EnvIds = {}
        BY <4>1, ContentsFacts
      <4>3. ASSUME NEW s \in Slots
            PROVE  /\ reqs'[s].phase \in {"idle", "body", "saving", "saved"}
                   /\ reqs'[s].phase = "body" => reqs'[s].existing \in Config
                   /\ reqs'[s].phase = "saving" => IsRegistry(reqs'[s].content)
                   /\ reqs'[s].phase \in {"saving", "saved"} => reqs'[s].out \in Outcome
        BY <4>1, RequestFacts, ContentsFacts
      <4>. QED BY <4>2, <4>3 DEF TypeOK, MonitorInv, RegInv
    <3>. QED BY <3>1 DEF Inv, MonitorInv, RegInv
  <2>. QED BY <2>1
<1>0. RegInv /\ MonitorInv
  BY RegOfInv
<1>1. CASE MonitorStep /\ UNCHANGED registry
  <2>1. nodes' = nodes
    BY <1>1 DEF MonitorStep, CollectorEmits, CollectorRests, Broadcast, fleet
  <2>. QED BY <1>0, <1>1, <2>1, MonitorStepInv, RegStutter
<1>2. CASE Restart
  BY <1>0, <1>2, RestartRegInv
<1>3. ASSUME NEW i \in Ids, DeleteUnknown(i) PROVE MonitorInv' /\ RegInv'
  <2>1. /\ latest' = Drop(latest, i) /\ timer' = TRUE /\ UNCHANGED <<fleet, last>>
        /\ UNCHANGED registry /\ nodes' = nodes
    BY <1>3 DEF DeleteUnknown, fleet
  <2>2. DOMAIN latest' \subseteq Ids /\ \A j \in DOMAIN latest' : latest'[j] \in Shown
    BY <2>1, <1>0 DEF MonitorInv, MonitorTypeOK, Drop, Restrict
  <2>. QED BY <1>0, <2>1, <2>2, FeedInv, RegStutter
<1>4. ASSUME NEW s \in Slots, NEW i \in Ids, NEW c \in Inputs, Post(s, i, c)
      PROVE  MonitorInv' /\ RegInv'
  BY <1>0, <1>4, PostInv
<1>5. ASSUME NEW s \in Slots, NEW i \in Ids, PatchBegins(s, i)
      PROVE  MonitorInv' /\ RegInv'
  <2>. DEFINE r == [phase |-> "body", id |-> i, existing |-> nodes[i]]
  <2>1. r \in Request /\ r.phase = "body" /\ r.id \in DOMAIN nodes
    BY <1>0, <1>5 DEF PatchBegins, Request, RegInv, IsRegistry
  <2>2. /\ reqs' = [reqs EXCEPT ![s] = r] /\ UNCHANGED <<nodes, file, issued, answered>>
        /\ UNCHANGED monitorVars
    BY <1>5 DEF PatchBegins, monitorVars, fleet
  <2>. HIDE DEF r
  <2>. QED BY <1>0, <2>1, <2>2, PhaseInv, MonitorStutter
<1>6. ASSUME NEW s \in Slots, PatchRefused(s) \/ SaveFails(s)
      PROVE  MonitorInv' /\ RegInv'
  <2>1. /\ reqs' = [reqs EXCEPT ![s] = Idle] /\ UNCHANGED <<nodes, file, issued, answered>>
        /\ UNCHANGED monitorVars
    BY <1>6 DEF PatchRefused, SaveFails, monitorVars, fleet
  <2>2. Idle \in Request
    BY DEF Request
  <2>. QED BY <1>0, <2>1, <2>2, PhaseInv, MonitorStutter
<1>7. ASSUME NEW s \in Slots, NEW p \in Patches, PatchApplies(s, p)
      PROVE  MonitorInv' /\ RegInv'
  BY <1>0, <1>7, PatchInv
<1>8. ASSUME NEW s \in Slots, NEW i \in Ids, Delete(s, i)
      PROVE  MonitorInv' /\ RegInv'
  BY <1>0, <1>8, DeleteInv
<1>9. ASSUME NEW s \in Slots, Rename(s) PROVE MonitorInv' /\ RegInv'
  BY <1>0, <1>9, RenameInv, MonitorStutter DEF Rename
<1>10. ASSUME NEW s \in Slots, Answer(s) PROVE MonitorInv' /\ RegInv'
  BY <1>0, <1>10, AnswerInv, MonitorStutter DEF Answer
<1>11. CASE UNCHANGED vars
  <2>1. UNCHANGED monitorVars /\ UNCHANGED <<nodes, registry>>
    BY <1>11 DEF vars, monitorVars, fleet
  <2>. QED BY <1>0, <2>1, MonitorStutter, RegStutter
<1>. QED
  BY <1>1, <1>2, <1>3, <1>4, <1>5, <1>6, <1>7, <1>8, <1>9, <1>10, <1>11 DEF Next

\* The inductive invariant holds in every state.
LEMMA Invariance == Spec => []Inv
<1>. QED BY InitInv, NextInv, PTL DEF Spec

\* The list, the file and the requests keep their types, and the file never holds a node
\* of the environment, whatever requests overlap and wherever the process dies
\* (index.ts:208).
THEOREM TypeCorrect == Spec => []TypeOK
<1>1. Inv => TypeOK
  BY DEF Inv
<1>. QED BY <1>1, Invariance, PTL

\* There is one running collector for each enabled node and no other: no edit leaves a
\* connection behind or polls a node twice (cluster.ts, addNode and removeNode).
THEOREM CollectorsMatch == Spec => []OneCollectorEach
<1>1. Inv => OneCollectorEach
  BY DEF Inv
<1>. QED BY <1>1, Invariance, PTL

\* The coalesced broadcast loses nothing (cluster.ts:131): when the last one is out of
\* date, another is due.
THEOREM BroadcastsMissNothing == Spec => []NothingLost
<1>1. Inv => NothingLost
  BY DEF Inv
<1>. QED BY <1>1, Invariance, PTL

\* What a request that nothing overlapped was answered with stays true, in memory and in
\* the file, until the next request on the node: over any number of other requests in
\* any order, failed saves and restarts (the POST, PATCH and DELETE handlers and persist,
\* index.ts).
THEOREM AnswersHold == Spec => []AnswerHolds
<1>1. Inv => AnswerHolds
  <2>. SUFFICES ASSUME Inv, NEW i \in DOMAIN answered
                PROVE  IF answered[i] = Gone THEN i \notin DOMAIN nodes /\ i \notin DOMAIN file
                       ELSE ~Shadowed(answered[i]) =>
                              /\ i \in DOMAIN nodes /\ nodes[i] = answered[i]
                              /\ i \in DOMAIN file /\ file[i] = answered[i]
    BY DEF AnswerHolds
  <2>1. Held(i, answered[i]) /\ InFile(i, answered[i])
    BY DEF Inv, PromiseInv
  <2>. QED BY <2>1 DEF Held, InFile
<1>. QED BY <1>1, Invariance, PTL
===============================================================================
