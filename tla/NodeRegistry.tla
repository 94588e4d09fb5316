----------------------------- MODULE NodeRegistry -----------------------------
(***************************************************************************)
(* The node registry: the POST, PATCH and DELETE handlers of               *)
(* packages/server/src/index.ts over the cluster monitor, and the file     *)
(* that core/src/config.ts keeps.  A handler is cut at its awaits: the     *)
(* body of a PATCH, and the save.  Any other handler may run in between,   *)
(* and the process may die anywhere.                                       *)
(***************************************************************************)
EXTENDS ClusterMonitor

CONSTANTS
  Slots,     \* requests the server may be working on at the same time
  Env,       \* the nodes declared by SPARKTOP_NODES: ids to configurations
  Inputs,    \* bodies of POST
  Patches,   \* bodies of PATCH
  Hosts,     \* user@host:port
  Keep,      \* a field that a patch leaves alone
  Gone,      \* outcome of a DELETE
  Overlapped \* outcome of a request that others may undo

VARIABLES
  file,      \* the nodes in config/nodes.json (none if it does not exist)
  reqs,      \* per slot: the request and where it waits
  issued,    \* ids that POST has handed out
  answered   \* outcome of the last request on a node, if nothing overlapped it

registry == <<file, reqs, issued, answered>>
vars == <<monitorVars, registry>>

Creds  == {"key", "password", "passphrase"}
Config == [host : Hosts, creds : SUBSET Creds, enabled : BOOLEAN]
Patch  == [host : Hosts \cup {Keep}, creds : SUBSET {"key", "password"},
           enabled : BOOLEAN \cup {Keep}]
EnvIds == DOMAIN Env
Outcome == Config \cup {Gone, Overlapped}

ASSUME RegistryAssumption ==
  /\ EnvIds \subseteq Ids /\ \A i \in EnvIds : Env[i] \in Config
  /\ Inputs \subseteq Config /\ Patches \subseteq Patch
  /\ Keep \notin Hosts \cup BOOLEAN
  /\ Gone # Overlapped /\ Gone \notin Config /\ Overlapped \notin Config

IsRegistry(f) == DOMAIN f \subseteq Ids /\ \A i \in DOMAIN f : f[i] \in Config

\* Type invariant of the registry, its file and its requests; the file never holds
\* a node of the environment (index.ts:208).
TypeOK ==
  /\ MonitorTypeOK
  /\ IsRegistry(nodes) /\ IsRegistry(file)
  /\ DOMAIN file \cap EnvIds = {}
  /\ \A s \in Slots : /\ reqs[s].phase \in {"idle", "body", "saving", "saved"}
                      /\ reqs[s].phase = "body" => reqs[s].existing \in Config
                      /\ reqs[s].phase = "saving" => IsRegistry(reqs[s].content)
                      /\ reqs[s].phase \in {"saving", "saved"} => reqs[s].out \in Outcome
  /\ issued \subseteq Ids \ EnvIds
  /\ DOMAIN answered \subseteq issued
  /\ \A i \in DOMAIN answered : answered[i] \in Config \cup {Gone}

Idle == [phase |-> "idle"]
Saving(s) == reqs[s].phase = "saving"
AwaitsBody(s, i) == reqs[s].phase = "body" /\ reqs[s].id = i

\* Mutant: the environment's nodes are written as well.
Persistable_All(f) == f

\* What persist() writes of the list f.
Persistable(f) == Restrict(f, DOMAIN f \ EnvIds)

\* loadConfig, then the environment's nodes, which win where the host is the same.
Load(f) ==
  LET hosts == {Env[i].host : i \in EnvIds}
      kept == {i \in DOMAIN f : f[i].host \notin hosts}
  IN [i \in EnvIds \cup kept |-> IF i \in EnvIds THEN Env[i] ELSE f[i]]

\* The PATCH handler's merge.  The passphrase is not among the fields it carries over.
\* (A patch sets a credential or leaves it; none is blanked by an empty string.)
Merge(old, p) ==
  [host |-> IF p.host = Keep THEN old.host ELSE p.host,
   creds |-> (old.creds \cup p.creds) \ {"passphrase"},
   enabled |-> IF p.enabled = Keep THEN old.enabled ELSE p.enabled]

\* buildNodeConfig accepts the merge only with a key or a new password.
Acceptable(old, p) == "key" \in old.creds \cup p.creds \/ "password" \in p.creds

-----------------------------------------------------------------------------
Init ==
  /\ file = <<>>
  /\ MonitorStart(Load(file))
  /\ reqs = [s \in Slots |-> Idle]
  /\ issued = {} /\ answered = <<>>

\* No save that is still to be renamed was captured before this change.
Alone(s, i) == i \notin EnvIds /\ \A t \in Slots \ {s} : ~Saving(t)

\* Mutant: persist() captures the list before the change.
BeginSave_Early(s, i, out) ==
  reqs' = [t \in Slots |->
             IF t = s THEN [phase |-> "saving", id |-> i, out |-> out,
                            content |-> Persistable(nodes)]
             ELSE IF reqs[t].phase \in {"saving", "saved"} /\ reqs[t].id = i
                  THEN [reqs[t] EXCEPT !.out = Overlapped] ELSE reqs[t]]

\* persist() up to its first await: the list is captured, the file comes later.
BeginSave(s, i, out) ==
  reqs' = [t \in Slots |->
             IF t = s THEN [phase |-> "saving", id |-> i, out |-> out,
                            content |-> Persistable(nodes')]
             ELSE IF reqs[t].phase \in {"saving", "saved"} /\ reqs[t].id = i
                  THEN [reqs[t] EXCEPT !.out = Overlapped] ELSE reqs[t]]

Post(s, i, c) ==
  /\ reqs[s] = Idle
  /\ i \in Ids \ (EnvIds \cup issued)
  /\ c.creds \cap {"key", "password"} # {}
  /\ issued' = issued \cup {i}
  /\ AddNode(i, c)
  /\ BeginSave(s, i, IF Alone(s, i) THEN c ELSE Overlapped)
  /\ UNCHANGED <<file, answered>>

\* PATCH up to `await req.json()`, on a node that exists.
PatchBegins(s, i) ==
  /\ reqs[s] = Idle
  /\ i \in DOMAIN nodes
  /\ reqs' = [reqs EXCEPT ![s] = [phase |-> "body", id |-> i, existing |-> nodes[i]]]
  /\ UNCHANGED <<monitorVars, file, issued, answered>>

\* The body is malformed, or the merge is refused.
PatchRefused(s) ==
  /\ reqs[s].phase = "body"
  /\ reqs' = [reqs EXCEPT ![s] = Idle]
  /\ UNCHANGED <<monitorVars, file, issued, answered>>

\* The body has arrived: what was read before is merged and added.
PatchApplies(s, p) ==
  /\ reqs[s].phase = "body"
  /\ Acceptable(reqs[s].existing, p)
  /\ LET i == reqs[s].id
         c == Merge(reqs[s].existing, p)
     IN /\ AddNode(i, c)
        /\ BeginSave(s, i, IF Alone(s, i) THEN c ELSE Overlapped)
        /\ answered' = IF i \in DOMAIN answered /\ answered[i] # Gone
                       THEN Drop(answered, i) ELSE answered
  /\ UNCHANGED <<file, issued>>

Delete(s, i) ==
  /\ reqs[s] = Idle
  /\ i \in DOMAIN nodes
  /\ RemoveNode(i)
  /\ BeginSave(s, i, IF Alone(s, i) /\ ~\E t \in Slots : AwaitsBody(t, i)
                     THEN Gone ELSE Overlapped)
  /\ answered' = Drop(answered, i)
  /\ UNCHANGED <<file, issued>>

\* DELETE of an unknown id: answered 404, but removeNode has dropped the snapshot that
\* a stopped collector may have left, and asked for a broadcast.
DeleteUnknown(i) ==
  /\ i \notin DOMAIN nodes
  /\ latest' = Drop(latest, i)
  /\ timer' = TRUE
  /\ UNCHANGED <<fleet, last, registry>>

\* The rename of saveConfig.
Rename(s) ==
  /\ Saving(s)
  /\ file' = reqs[s].content
  /\ reqs' = [reqs EXCEPT ![s] = [phase |-> "saved", id |-> @.id, out |-> @.out]]
  /\ UNCHANGED <<monitorVars, issued, answered>>

\* mkdir, writeFile or rename fails: the answer is an error and no list is sent.
SaveFails(s) ==
  /\ Saving(s)
  /\ reqs' = [reqs EXCEPT ![s] = Idle]
  /\ UNCHANGED <<monitorVars, file, issued, answered>>

\* After the save: broadcastConfig (which prunes the chart history, see
\* HistoryStore!Prune) and the answer.
Answer(s) ==
  /\ reqs[s].phase = "saved"
  /\ reqs' = [reqs EXCEPT ![s] = Idle]
  /\ answered' = IF reqs[s].out = Overlapped THEN answered
                  ELSE Put(answered, reqs[s].id, reqs[s].out)
  /\ UNCHANGED <<monitorVars, file, issued>>

\* The process dies and starts again; clients reconnect and are sent the list.
Restart ==
  /\ MonitorRestart(Load(file))
  /\ reqs' = [s \in Slots |-> Idle]
  /\ UNCHANGED <<file, issued, answered>>

Next ==
  \/ MonitorStep /\ UNCHANGED registry
  \/ Restart
  \/ \E i \in Ids : DeleteUnknown(i)
  \/ \E s \in Slots :
       \/ \E i \in Ids : \/ \E c \in Inputs : Post(s, i, c)
                         \/ PatchBegins(s, i)
                         \/ Delete(s, i)
       \/ PatchRefused(s)
       \/ \E p \in Patches : PatchApplies(s, p)
       \/ Rename(s) \/ SaveFails(s) \/ Answer(s)

Spec == Init /\ [][Next]_vars

-----------------------------------------------------------------------------
\* A node's host collides with the environment's.
Shadowed(c) == \E i \in EnvIds : Env[i].host = c.host

\* An answer is kept.  When a request on a node was answered with success, no older
\* save was under way when it was applied, and no PATCH that had read the node was
\* waiting for its body at a DELETE, then memory and file agree with the answer until
\* the next request on the node, over other requests, failed saves and restarts.
\* (A node that the environment shadows is dropped from the list, index.ts:72.)
AnswerHolds ==
  \A i \in DOMAIN answered :
    IF answered[i] = Gone THEN i \notin DOMAIN nodes /\ i \notin DOMAIN file
    ELSE ~Shadowed(answered[i]) =>
           /\ i \in DOMAIN nodes /\ nodes[i] = answered[i]
           /\ i \in DOMAIN file /\ file[i] = answered[i]
==============================================================================
