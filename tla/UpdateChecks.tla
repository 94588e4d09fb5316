----------------------------- MODULE UpdateChecks -----------------------------
(***************************************************************************)
(* Checks for updates of sparktop and of the images that run               *)
(* (packages/core/src/updates.ts, packages/server/src/index.ts:490-493,     *)
(* 594-634).  A check asks GitHub, then every node for each of its images,  *)
(* and is cached for an hour.  Requests overlap at every await.            *)
(***************************************************************************)
EXTENDS Integers, Sequences

CONSTANTS
  Req,      \* requests the server handles at a time
  Fleet,    \* what snapshots there may be: sequences of [id, online, images], the images of those
            \* containers that run, in the order of the list
  Unasked,  \* images named by their digest, or in a way that is not taken
  Currents, \* what commit this build may be of: a number, ahead of the tip if it is of a branch that
            \* is yet to be merged, or one that GitHub has not, or Null
  Null,
  Hour,     \* for how long a check is cached
  MaxTime, MaxTip, MaxChecks \* bounds on the clock, on commits and on checks

UpdateAssumption ==
  /\ Hour \in Nat \ {0} /\ {MaxTime, MaxTip, MaxChecks} \subseteq Nat
  /\ Null \notin Nat
  /\ \A f \in Fleet :
       /\ DOMAIN f \subseteq Nat /\ \A i, k \in DOMAIN f : f[i].id = f[k].id => i = k
       /\ \A i \in DOMAIN f : DOMAIN f[i].images \subseteq Nat

VARIABLES
  clock,
  tip,      \* GitHub: the newest commit
  local,    \* the digest of an image on the nodes, Null when it was built there
  current,  \* the commit of this build, if it is known
  latest,   \* the newest snapshot
  cache,    \* updateCache: [at, data]
  reqs,     \* checks in progress
  answer,   \* what was just answered, or Null: [data, at, force, since], since when the request came
  told,     \* the newest commit that any answer named
  overlap,  \* two checks have run at once
  checks    \* how many were begun

world == <<tip, local, current, latest>>
vars == <<clock, world, cache, reqs, answer, told, overlap, checks>>

Idle == [at |-> "idle"]
Running(r) == reqs[r].at # "idle"

\* The images that are asked about.
Tagged == (UNION {UNION {{f[i].images[k] : k \in DOMAIN f[i].images} : i \in DOMAIN f} : f \in Fleet}) \ Unasked

\* The digest that the registry serves.
Served == 1

Init ==
  /\ clock = 0 /\ tip = 0
  /\ local \in [Tagged -> {Served, Null}]
  /\ current \in Currents /\ latest \in Fleet
  /\ cache = Null /\ answer = Null /\ told = Null /\ overlap = FALSE /\ checks = 0
  /\ reqs = [r \in Req |-> Idle]

-----------------------------------------------------------------------------
\* GitHub has something newer, containers and nodes come and go.
Commit == tip < MaxTip /\ tip' = tip + 1 /\ UNCHANGED <<local, current, latest>>
Snapshot == latest' \in Fleet /\ UNCHANGED <<tip, local, current>>

World ==
  /\ Commit \/ Snapshot
  /\ answer' = Null /\ UNCHANGED <<clock, cache, reqs, told, overlap, checks>>

Tick == clock < MaxTime /\ clock' = clock + 1 /\ answer' = Null /\ UNCHANGED <<world, cache, reqs, told, overlap, checks>>

-----------------------------------------------------------------------------
\* checkSparktopUpdate(): what is known once GitHub has answered, or has not.
NoSparktop == [current |-> current, tip |-> Null, update |-> FALSE, behind |-> Null, error |-> TRUE]
Sparktop(t, behind) ==
  [current |-> current, tip |-> t, update |-> current # Null /\ current # t, behind |-> behind, error |-> FALSE]

\* Where a snapshot has the distinct images of the nodes that answer: which node, which image.
ToAsk(f) ==
  {p \in UNION {{i} \X DOMAIN f[i].images : i \in DOMAIN f} :
     f[p[1]].online /\ \A k \in DOMAIN f[p[1]].images : f[p[1]].images[k] = f[p[1]].images[p[2]] => p[2] <= k}

\* The loops go through them in order.
Foremost(left) == CHOOSE p \in left : \A o \in left : p[1] < o[1] \/ (p[1] = o[1] /\ p[2] <= o[2])
ImageAt(f, p) == [node |-> f[p[1]].id, image |-> f[p[1]].images[p[2]]]

\* What `docker manifest inspect` prints first of the digests in a manifest: one that it
\* refers to, and never its own, which is what RepoDigests has.
FirstInManifest(digest) == <<"in", digest>>
RepoDigest(digest) == <<"of", digest>>

\* checkImageUpdate(), refused without a connection; what docker says is known or not.
ImageUpdate(q, l, r, error) ==
  [node |-> q.node, image |-> q.image, local |-> l # Null, remote |-> r # Null, error |-> error,
   update |-> l # Null /\ r # Null /\ l # r]

\* A request that came at `since` is answered.
Answer(data, force, since) ==
  /\ answer' = [data |-> data, at |-> clock, force |-> force, since |-> since]
  /\ told' = IF data.sparktop.tip = Null \/ (told # Null /\ told > data.sparktop.tip) THEN told ELSE data.sparktop.tip

\* GET /api/updates: an answer from the cache, or a check.
Ask(r, force) ==
  /\ ~Running(r)
  /\ IF ~force /\ cache # Null /\ clock - cache.at < Hour
     THEN Answer(cache.data, force, clock) /\ UNCHANGED <<reqs, overlap, checks>>
     ELSE /\ checks < MaxChecks /\ checks' = checks + 1
          /\ reqs' = [reqs EXCEPT ![r] = [at |-> "github", force |-> force, since |-> clock]]
          /\ overlap' = (overlap \/ \E s \in Req : Running(s))
          /\ answer' = Null /\ UNCHANGED told
  /\ UNCHANGED <<clock, world, cache>>

\* Mutant: a check that was asked for leaves the cache alone.
Finish_Aside(r, data) ==
  /\ cache' = IF reqs[r].force /\ cache # Null THEN cache ELSE [at |-> clock, data |-> data]
  /\ Answer(data, reqs[r].force, reqs[r].since)
  /\ reqs' = [reqs EXCEPT ![r] = Idle]

\* The check is answered and cached, over what another one has cached meanwhile.
Finish(r, data) ==
  /\ cache' = [at |-> clock, data |-> data]
  /\ Answer(data, reqs[r].force, reqs[r].since)
  /\ reqs' = [reqs EXCEPT ![r] = Idle]

\* On to what is left to ask about, of the snapshot read when GitHub was done, or to the end.
Continue(r, sparktop, nodes, left, images) ==
  IF left = {}
  THEN Finish(r, [sparktop |-> sparktop, images |-> images, since |-> reqs[r].since, until |-> clock])
  ELSE /\ reqs' = [reqs EXCEPT ![r] = [at |-> "local", force |-> @.force, since |-> @.since, sparktop |-> sparktop,
                                       nodes |-> nodes, left |-> left, images |-> images, has |-> Null]]
       /\ answer' = Null /\ UNCHANGED <<cache, told>>

\* GitHub answers, with an error or the tip; a build of a known commit asks how far it is
\* behind, which may stay unknown.
GitHub(r) ==
  /\ reqs[r].at = "github"
  /\ \/ Continue(r, NoSparktop, latest, ToAsk(latest), <<>>)
     \/ IF current # Null
        THEN /\ reqs' = [reqs EXCEPT ![r] = [at |-> "compare", force |-> @.force, since |-> @.since, tip |-> tip]]
             /\ answer' = Null /\ UNCHANGED <<cache, told>>
        ELSE Continue(r, Sparktop(tip, Null), latest, ToAsk(latest), <<>>)
  /\ UNCHANGED <<clock, world, overlap, checks>>

\* ahead_by: the commits of the tip that this build has not.
AheadBy(to, from) == IF to > from THEN to - from ELSE 0

Compare(r) ==
  /\ reqs[r].at = "compare"
  /\ \E behind \in (IF current \in Nat THEN {AheadBy(reqs[r].tip, current)} ELSE {}) \cup {Null} :
       Continue(r, Sparktop(reqs[r].tip, behind), latest, ToAsk(latest), <<>>)
  /\ UNCHANGED <<clock, world, overlap, checks>>

\* The image that is asked about, and on with its answer listed.
Turn(r) == ImageAt(reqs[r].nodes, Foremost(reqs[r].left))
Listed(r, entry) ==
  Continue(r, reqs[r].sparktop, reqs[r].nodes, reqs[r].left \ {Foremost(reqs[r].left)}, Append(reqs[r].images, entry))

\* The node has the image, or is not connected; one that was removed is passed over when its
\* turn comes.
AskNode(r) ==
  /\ reqs[r].at = "local"
  /\ LET q == Turn(r)
     IN \/ q.image \in Unasked /\ \E l \in {RepoDigest(Served), Null} : Listed(r, ImageUpdate(q, l, Null, TRUE))
        \/ Listed(r, ImageUpdate(q, Null, Null, TRUE))
        \/ (\A k \in DOMAIN reqs[r].images : reqs[r].images[k].node # q.node)
           /\ Continue(r, reqs[r].sparktop, reqs[r].nodes,
                       {p \in reqs[r].left : p[1] # Foremost(reqs[r].left)[1]}, reqs[r].images)
        \/ /\ q.image \notin Unasked
           /\ \E has \in {local[q.image], Null} :
                reqs' = [reqs EXCEPT ![r].at = "remote", ![r].has = IF has = Null THEN Null ELSE RepoDigest(has)]
           /\ answer' = Null /\ UNCHANGED <<cache, told>>
  /\ UNCHANGED <<clock, world, overlap, checks>>

\* The registry answers, or does not.
AskRegistry(r) ==
  /\ reqs[r].at = "remote"
  /\ \/ Listed(r, ImageUpdate(Turn(r), reqs[r].has, FirstInManifest(Served), FALSE))
     \/ Listed(r, ImageUpdate(Turn(r), reqs[r].has, Null, TRUE))
     \/ Listed(r, ImageUpdate(Turn(r), Null, Null, TRUE))
  /\ UNCHANGED <<clock, world, overlap, checks>>

Next ==
  \/ World \/ Tick
  \/ \E r \in Req :
       \/ \E force \in BOOLEAN : Ask(r, force)
       \/ GitHub(r) \/ Compare(r) \/ AskNode(r) \/ AskRegistry(r)

-----------------------------------------------------------------------------
\* What a client is told of updates.  It comes of a check that ended less than an hour ago,
\* and after the request if a new one was asked for; while checks do not overlap, nobody is
\* told an older commit than another was told before (index.ts:605).  An update is only claimed
\* where both sides are known and differ, and how far behind agrees with it, but for a build
\* that is ahead of the tip, to which an update is claimed that it is not behind; an image is
\* listed once for a node (updates.ts:18, 170; index.ts:609).
UpdateHonest ==
  answer # Null =>
    LET d == answer.data  s == d.sparktop
    IN /\ answer.force => d.since = answer.since /\ d.until = answer.at
       /\ ~answer.force => answer.at - d.until < Hour
       /\ ~overlap /\ s.tip # Null => s.tip = told
       /\ s.update => s.current # Null /\ s.tip # Null
       /\ s.behind # Null => (s.behind > 0) = (s.update /\ s.tip > s.current)
       /\ \A i \in DOMAIN d.images :
            /\ d.images[i].update => d.images[i].local /\ d.images[i].remote
            /\ d.images[i].error => ~d.images[i].update
            /\ \A k \in DOMAIN d.images : i # k => <<d.images[i].node, d.images[i].image>> # <<d.images[k].node, d.images[k].image>>

\* updates.ts:33 "Digest the registry currently serves for that tag": an image whose digest on the
\* node is the one that is served has no update.
CurrentIsCurrent ==
  answer # Null => \A i \in DOMAIN answer.data.images :
    LET e == answer.data.images[i] IN e.update => local[e.image] # Served
===============================================================================
