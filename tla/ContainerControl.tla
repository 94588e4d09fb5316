--------------------------- MODULE ContainerControl ---------------------------
(***************************************************************************)
(* Container lifecycle and image swaps on one node                         *)
(* (packages/core/src/control.ts, packages/server/src/index.ts:395-462).   *)
(* A request runs commands over the node's connection, one after the       *)
(* other; a command it stopped waiting for, because the timer fired or the *)
(* connection closed, may go on running on the node.  Docker is external:  *)
(* any of its commands may fail, and compose recreates a container by      *)
(* removing it first.                                                      *)
(***************************************************************************)
EXTENDS Integers, FiniteSets

CONSTANTS
  Container, \* the containers of the node
  Composed,  \* those that docker compose owns, each with a service of its own
  Image,
  Req,       \* requests the server handles at a time
  Nobody,    \* no request waits for the command
  None,      \* no container, no image
  MaxOps     \* bound on requests

ControlAssumption ==
  /\ Composed \subseteq Container /\ MaxOps \in Nat
  /\ Nobody \notin Req /\ None \notin Image \cup Container

VARIABLES
  enabled,    \* controlEnabled()
  containers, \* Docker: the image of each container, and whether it runs
  pulled,     \* Docker: the images on the node
  override,   \* the image in /tmp/sparktop-override-<project>-<service>.yml
  remote,     \* commands running on the node: [by, kind, container, image, stage]; stage is "begun",
              \* or "down" between the two halves of a recreate
  reqs,       \* requests in progress, and the answers to swaps that were applied:
              \* [op, kind, container, image], kind that of the command waited for
  disturbed,  \* requests whose container another command touched since they began
  ops

node == <<containers, pulled, override>>
vars == <<enabled, node, remote, reqs, disturbed, ops>>

Actions == {"start", "stop", "restart"}
Kinds == Actions \cup {"inspect", "pull", "write", "up"}

\* Commands that change a container, or what the next recreate will use.
Touching == Kinds \ {"inspect", "pull"}

Idle == [op |-> "idle", kind |-> "inspect", container |-> None, image |-> None]

Waiting(r) == reqs[r].op \notin {"idle", "applied"}

Init ==
  /\ enabled \in BOOLEAN
  /\ containers \in [Container -> [image : Image, up : {TRUE}]]
  /\ pulled = {containers[c].image : c \in Container}
  /\ override = [c \in Composed |-> None]
  /\ remote = {} /\ reqs = [r \in Req |-> Idle] /\ disturbed = {} /\ ops = 0

-----------------------------------------------------------------------------
(* The server. *)

\* run(): request r sends the command of its current step; `left` are the commands
\* that go on running.
Send(left, r, q) ==
  /\ remote' = left \cup {[by |-> r, kind |-> q.kind, container |-> q.container,
                           image |-> q.image, stage |-> "begun"]}
  /\ reqs' = [reqs EXCEPT ![r] = q]
  /\ disturbed' = IF q.kind \in Touching
                  THEN disturbed \cup {s \in Req \ {r} : reqs[s].container = q.container}
                  ELSE disturbed

\* The request is answered.  Only that an image was swapped is remembered.
Answer(left, r, done) ==
  /\ remote' = left
  /\ reqs' = [reqs EXCEPT ![r] = IF done THEN [@ EXCEPT !.op = "applied"] ELSE Idle]
  /\ UNCHANGED disturbed

\* Mutant: a plan may be applied although controls are off.
Proceed_NotChecked(left, r, ok) ==
  LET q == reqs[r]
      step(kind) == Send(left, r, [q EXCEPT !.kind = kind])
  IN CASE q.op = "apply" /\ q.kind = "inspect" /\ ok /\ q.container \in Composed -> step("pull")
       [] q.op = "apply" /\ q.kind = "pull" /\ ok -> step("write")
       [] q.op = "apply" /\ q.kind = "write" /\ ok -> step("up")
       [] OTHER -> Answer(left, r, q.op = "apply" /\ q.kind = "up" /\ ok)

\* Mutant: the steps of a plan run whether or not the pull succeeded.
Proceed_PressesOn(left, r, ok) ==
  LET q == reqs[r]
      step(kind) == Send(left, r, [q EXCEPT !.kind = kind])
  IN CASE q.op = "apply" /\ q.kind = "inspect" /\ ok /\ enabled /\ q.container \in Composed ->
            step("pull")
       [] q.op = "apply" /\ q.kind = "pull" -> step("write")
       [] q.op = "apply" /\ q.kind = "write" /\ ok -> step("up")
       [] OTHER -> Answer(left, r, q.op = "apply" /\ q.kind = "up" /\ ok)

\* What a request does when its command has exited, ok when with 0.  A plan is applied
\* only where compose owns the container, which an inspect that failed does not say; a
\* step that failed is the last.
Proceed(left, r, ok) ==
  LET q == reqs[r]
      step(kind) == Send(left, r, [q EXCEPT !.kind = kind])
  IN CASE q.op = "apply" /\ q.kind = "inspect" /\ ok /\ enabled /\ q.container \in Composed ->
            step("pull")
       [] q.op = "apply" /\ q.kind = "pull" /\ ok -> step("write")
       [] q.op = "apply" /\ q.kind = "write" /\ ok -> step("up")
       [] OTHER -> Answer(left, r, q.op = "apply" /\ q.kind = "up" /\ ok)

\* A request whose first command is sent.  Without a connection it is refused, which
\* changes nothing.
Begin(r, op, kind, c, i) ==
  /\ ~Waiting(r)
  /\ ops < MaxOps /\ ops' = ops + 1
  /\ remote' = remote \cup {[by |-> r, kind |-> kind, container |-> c, image |-> i,
                             stage |-> "begun"]}
  /\ reqs' = [reqs EXCEPT ![r] = [op |-> op, kind |-> kind, container |-> c, image |-> i]]
  /\ LET others == {s \in Req \ {r} : reqs[s].container = c}
         met == \E m \in remote : m.kind \in Touching /\ m.container = c
     IN disturbed' = ((disturbed \ {r}) \cup (IF met THEN {r} ELSE {}))
                     \cup (IF kind \in Touching THEN others ELSE {})
  /\ UNCHANGED <<enabled, node>>

\* POST container, without dryRun, which runs nothing.
PostContainer(r, c, action) == enabled /\ Begin(r, "action", action, c, None)

\* POST swap with pullOnly.
PostPull(r, i) == enabled /\ Begin(r, "pull", "pull", None, i)

\* POST swap: a plan is made first, of what docker inspect says.
PostSwap(r, c, i, apply) ==
  Begin(r, IF apply THEN "apply" ELSE "plan", "inspect", c, i)

\* Mutant: a stream that closes without an exit status counts as success.
CutOff_TakenForOk(m) ==
  /\ m.by # Nobody
  /\ Proceed((remote \ {m}) \cup {[m EXCEPT !.by = Nobody]}, m.by, TRUE)
  /\ UNCHANGED <<enabled, node, ops>>

\* The timer of run() fires, or the stream closes with the connection: the request ends
\* and its command goes on, or dies with the connection.
CutOff(m) ==
  /\ m.by # Nobody
  /\ Proceed((remote \ {m}) \cup {[m EXCEPT !.by = Nobody]}, m.by, FALSE)
  /\ UNCHANGED <<enabled, node, ops>>

-----------------------------------------------------------------------------
(* The node. *)

\* Command m exits.
Exit(m, ok) ==
  /\ IF m.by = Nobody THEN remote' = remote \ {m} /\ UNCHANGED <<reqs, disturbed>>
     ELSE Proceed(remote \ {m}, m.by, ok)
  /\ UNCHANGED <<enabled, ops>>

\* The command has its effect and exits with 0.
Succeeds(m) ==
  /\ CASE m.kind = "pull" -> pulled' = pulled \cup {m.image} /\ UNCHANGED <<containers, override>>
       [] m.kind = "write" -> /\ override' = [override EXCEPT ![m.container] = m.image]
                              /\ UNCHANGED <<containers, pulled>>
       [] m.kind = "inspect" -> UNCHANGED node
       [] m.kind = "stop" -> /\ containers' = [containers EXCEPT ![m.container].up = FALSE]
                             /\ UNCHANGED <<pulled, override>>
       [] m.kind = "start" \/ (m.kind = "restart" /\ m.stage = "down") ->
            /\ containers' = [containers EXCEPT ![m.container].up = TRUE]
            /\ UNCHANGED <<pulled, override>>
       [] m.kind = "up" /\ m.stage = "down" ->
            /\ containers' = [containers EXCEPT ![m.container] = [image |-> m.image, up |-> TRUE]]
            /\ UNCHANGED <<pulled, override>>
       [] OTHER -> FALSE
  /\ Exit(m, TRUE)

\* docker restart stops the container; compose up reads the override, pulls an image
\* that is missing, and removes the container.
TakesDown(m) ==
  /\ m.stage = "begun"
  /\ \/ m.kind = "restart" /\ remote' = (remote \ {m}) \cup {[m EXCEPT !.stage = "down"]}
                           /\ UNCHANGED pulled
     \/ m.kind = "up" /\ override[m.container] # None
          /\ remote' = (remote \ {m}) \cup
                       {[m EXCEPT !.stage = "down", !.image = override[m.container]]}
          /\ pulled' = pulled \cup {override[m.container]}
  /\ containers' = [containers EXCEPT ![m.container].up = FALSE]
  /\ UNCHANGED <<enabled, override, reqs, disturbed, ops>>

\* The command fails where it is.  A write that fails has truncated the file.
Fails(m) ==
  /\ override' = IF m.kind = "write" THEN [override EXCEPT ![m.container] = None] ELSE override
  /\ UNCHANGED <<containers, pulled>>
  /\ Exit(m, FALSE)

Next ==
  \/ \E r \in Req, c \in Container :
       \/ \E action \in Actions : PostContainer(r, c, action)
       \/ \E i \in Image, apply \in BOOLEAN : PostSwap(r, c, i, apply)
  \/ \E r \in Req, i \in Image : PostPull(r, i)
  \/ \E m \in remote : CutOff(m) \/ Succeeds(m) \/ TakesDown(m) \/ Fails(m)

-----------------------------------------------------------------------------
\* control.ts:361 "a failed pull must not be followed by tearing down the running
\* container": whatever was cut off, retried or swapped at the same time, a container is
\* recreated, and the recreate prepared, only for an image that is on the node.
PulledBeforeTeardown ==
  \A m \in remote : m.kind \in {"write", "up"} => m.image \in pulled

\* A swap that was answered as applied is: from then on, and until another command
\* touches the container, the container runs the image of that request.  Not if another
\* command touched it meanwhile: both share one override file (control.ts:281).
AppliedIsRunning ==
  \A r \in Req \ disturbed :
    reqs[r].op = "applied" =>
      containers[reqs[r].container] = [image |-> reqs[r].image, up |-> TRUE]

\* The image of a container that was run by hand never changes (control.ts:340), and with
\* controls off nothing on the node does, what was left running included.
OnlyWhereAllowedStep ==
  /\ \A c \in Container \ Composed : containers'[c].image = containers[c].image
  /\ ~enabled => UNCHANGED node
OnlyWhereAllowed == [][OnlyWhereAllowedStep]_vars
===============================================================================
