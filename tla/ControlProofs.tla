---------------------------- MODULE ControlProofs ----------------------------
(***************************************************************************)
(* Proofs about the parts of Server that act for an operator: container    *)
(* control, the control panel of the page, its form for a node, and the    *)
(* test of a connection; for any containers, images, requests, hosts,      *)
(* secrets and output.                                                     *)
(***************************************************************************)
EXTENDS Server, FiniteSetTheorems, SequenceTheorems, WellFoundedInduction, TLAPS

\* What is not true of every number is not true of a least one.
LEMMA LeastNumber ==
  ASSUME NEW Numbers, Numbers \subseteq Nat, Numbers # {}
  PROVE  \E n \in Numbers : \A m \in Numbers : n <= m
<1>1. PICK n \in Numbers : \A m \in Numbers : <<m, n>> \notin OpToRel(<, Nat)
  <2>1. \E n \in Numbers : \A m \in Numbers : ~ (<<m, n>> \in OpToRel(<, Nat))
    BY NatLessThanWellFounded, WFMin
  <2>. QED BY <2>1
<1>2. \A m \in Numbers : ~ (m < n)
  BY <1>1 DEF OpToRel
<1>. QED BY <1>2

-----------------------------------------------------------------------------
(* ContainerControl. *)

Command == [by : Req \cup {Nobody}, kind : C!Kinds, container : Container \cup {None},
            image : Image \cup {None}, stage : {"begun", "down"}]
Request == [op : {"idle", "action", "pull", "plan", "apply", "applied"}, kind : C!Kinds,
            container : Container \cup {None}, image : Image \cup {None}]

ControlType ==
  /\ enabled \in BOOLEAN
  /\ containers \in [Container -> [image : Image, up : BOOLEAN]]
  /\ pulled \subseteq Image
  /\ override \in [Composed -> Image \cup {None}]
  /\ remote \subseteq Command
  /\ reqs \in [Req -> Request]

\* What a command is about: compose's own where it prepares or makes a recreate, nothing but
\* an inspect where controls are off.
CommandInv ==
  \A m \in remote :
    /\ m.kind \in {"write", "up"} => m.container \in Composed /\ m.image \in pulled
    /\ m.kind \in C!Touching => m.container \in Container
    /\ m.kind = "pull" => m.image \in Image
    /\ ~enabled => m.kind = "inspect"
    /\ m.stage = "down" => m.kind \in {"restart", "up"}

\* A request waits for one command at most, and that is of its current step.
WaitInv ==
  /\ \A m \in remote : m.by # Nobody =>
       /\ C!Waiting(m.by) /\ reqs[m.by].kind = m.kind /\ reqs[m.by].container = m.container
       /\ m.stage = "begun" => reqs[m.by].image = m.image
  /\ \A m, n \in remote : m.by # Nobody /\ m.by = n.by => m = n

\* What the steps of a request tell.
RequestInv ==
  \A r \in Req :
    /\ reqs[r].op = "apply" =>
         /\ reqs[r].container \in Container /\ reqs[r].image \in Image
         /\ reqs[r].kind \in {"inspect", "pull", "write", "up"}
         /\ reqs[r].kind # "inspect" => reqs[r].container \in Composed
    /\ reqs[r].op = "applied" => reqs[r].container \in Composed

\* A request that is not disturbed is alone with its container, so the override is as it wrote
\* it and what is recreated is of its image.
AloneInv ==
  \A r \in Req \ disturbed :
    /\ \A m \in remote : m.kind \in C!Touching /\ m.container = reqs[r].container => m.by = r
    /\ reqs[r].op = "apply" /\ reqs[r].kind = "up" =>
         /\ override[reqs[r].container] = reqs[r].image
         /\ \A m \in remote : m.by = r => m.image = reqs[r].image

ControlInv == ControlType /\ CommandInv /\ WaitInv /\ RequestInv /\ AloneInv /\ C!AppliedIsRunning

LEMMA ControlConstants ==
  /\ Composed \subseteq Container /\ Nobody \notin Req /\ None \notin Image /\ None \notin Container
BY ServerAssumption DEF C!ControlAssumption

LEMMA ControlInit == ASSUME C!Init PROVE ControlInv
<1>1. ControlType
  <2>1. reqs \in [Req -> Request]
    BY DEF C!Init, C!Idle, Request, C!Kinds
  <2>2. containers \in [Container -> [image : Image, up : BOOLEAN]] /\ enabled \in BOOLEAN /\ remote \subseteq Command
    BY DEF C!Init
  <2>3. pulled \subseteq Image
    BY <2>2 DEF C!Init
  <2>4. override \in [Composed -> Image \cup {None}]
    BY DEF C!Init
  <2>. QED BY <2>1, <2>2, <2>3, <2>4 DEF ControlType
<1>2. \A r \in Req : reqs[r].op = "idle"
  BY DEF C!Init, C!Idle
<1>3. remote = {}
  BY DEF C!Init
<1>. QED BY <1>1, <1>2, <1>3 DEF ControlInv, CommandInv, WaitInv, RequestInv, AloneInv, C!AppliedIsRunning

\* What is left running once nobody waits for command m.
Leaves(m, left, ok) ==
  \A n \in left : \/ n \in remote \ {m}
                  \/ ~ok /\ n = [m EXCEPT !.by = Nobody]

\* What a command that ends does to the node.
Affects(m, ok) ==
  /\ enabled' = enabled
  /\ pulled \subseteq pulled' /\ pulled' \subseteq Image
  /\ containers' \in [Container -> [image : Image, up : BOOLEAN]]
  /\ override' \in [Composed -> Image \cup {None}]
  /\ ok /\ m.kind = "pull" => m.image \in pulled'
  /\ ok /\ m.kind = "write" => override'[m.container] = m.image
  /\ ok /\ m.kind = "up" => /\ m.stage = "down"
                            /\ containers'[m.container] = [image |-> m.image, up |-> TRUE]
  /\ \A c \in Composed : (m.kind = "write" /\ c = m.container) \/ override'[c] = override[c]
  /\ \A c \in Container : (m.kind \in C!Touching /\ c = m.container) \/ containers'[c] = containers[c]

\* The next step of a request whose command has ended, or its answer.
LEMMA ProceedCases ==
  ASSUME NEW left, NEW r, NEW ok \in BOOLEAN, C!Proceed(left, r, ok)
  PROVE  \/ /\ ok /\ reqs[r].op = "apply" /\ enabled
            /\ \/ reqs[r].kind = "inspect" /\ reqs[r].container \in Composed /\ C!Send(left, r, [reqs[r] EXCEPT !.kind = "pull"])
               \/ reqs[r].kind = "pull" /\ C!Send(left, r, [reqs[r] EXCEPT !.kind = "write"])
               \/ reqs[r].kind = "write" /\ C!Send(left, r, [reqs[r] EXCEPT !.kind = "up"])
         \/ /\ ok /\ reqs[r].op = "apply" /\ ~enabled
            /\ \/ reqs[r].kind = "pull" /\ C!Send(left, r, [reqs[r] EXCEPT !.kind = "write"])
               \/ reqs[r].kind = "write" /\ C!Send(left, r, [reqs[r] EXCEPT !.kind = "up"])
         \/ C!Answer(left, r, reqs[r].op = "apply" /\ reqs[r].kind = "up" /\ ok)
BY DEF C!Proceed

\* Command m of request r has ended.
Ends(m, r, left, ok) ==
  /\ ControlInv
  /\ m \in remote /\ r = m.by /\ r # Nobody /\ ok \in BOOLEAN
  /\ Leaves(m, left, ok) /\ Affects(m, ok)

\* What is left running is as it should be, and none of it is for r.
LEMMA LeftFacts ==
  ASSUME NEW m, NEW r, NEW left, NEW ok, Ends(m, r, left, ok)
  PROVE  /\ m \in Command /\ r \in Req /\ left \subseteq Command
         /\ C!Waiting(r) /\ reqs[r].kind = m.kind /\ reqs[r].container = m.container
         /\ m.stage = "begun" => reqs[r].image = m.image
         /\ \A n \in left : n.by # r
         /\ \A n \in left : n.by # Nobody => n \in remote
         /\ \A n \in left : /\ n.kind \in {"write", "up"} => n.container \in Composed /\ n.image \in pulled'
                            /\ n.kind \in C!Touching => n.container \in Container
                            /\ n.kind = "pull" => n.image \in Image
                            /\ ~enabled => n.kind = "inspect"
                            /\ n.stage = "down" => n.kind \in {"restart", "up"}
<1>1. remote \subseteq Command /\ m \in Command /\ r \in Req
  BY DEF Ends, ControlInv, ControlType, Command
<1>2. /\ C!Waiting(r) /\ reqs[r].kind = m.kind /\ reqs[r].container = m.container
      /\ m.stage = "begun" => reqs[r].image = m.image
  BY DEF Ends, ControlInv, WaitInv
<1>3. \A n \in remote : n.by = r => n = m
  BY DEF Ends, ControlInv, WaitInv
<1>4. ASSUME NEW n \in left
      PROVE  \/ n \in remote /\ n # m
             \/ /\ n \in Command /\ n.by = Nobody /\ n.kind = m.kind /\ n.container = m.container
                /\ n.image = m.image /\ n.stage = m.stage
  BY <1>1, <1>4 DEF Ends, Leaves, Command
<1>5. \A n \in remote : /\ n.kind \in {"write", "up"} => n.container \in Composed /\ n.image \in pulled'
                        /\ n.kind \in C!Touching => n.container \in Container
                        /\ n.kind = "pull" => n.image \in Image
                        /\ ~enabled => n.kind = "inspect"
                        /\ n.stage = "down" => n.kind \in {"restart", "up"}
  BY DEF Ends, Affects, ControlInv, CommandInv
<1>6. left \subseteq Command
  BY <1>1, <1>4
<1>7. \A n \in left : n.by # r
  BY <1>3, <1>4 DEF Ends
<1>8. \A n \in left : n.by # Nobody => n \in remote
  BY <1>4
<1>9. \A n \in left : /\ n.kind \in {"write", "up"} => n.container \in Composed /\ n.image \in pulled'
                      /\ n.kind \in C!Touching => n.container \in Container
                      /\ n.kind = "pull" => n.image \in Image
                      /\ ~enabled => n.kind = "inspect"
                      /\ n.stage = "down" => n.kind \in {"restart", "up"}
  <2>. SUFFICES ASSUME NEW n \in left
       PROVE  /\ n.kind \in {"write", "up"} => n.container \in Composed /\ n.image \in pulled'
              /\ n.kind \in C!Touching => n.container \in Container
              /\ n.kind = "pull" => n.image \in Image
              /\ ~enabled => n.kind = "inspect"
              /\ n.stage = "down" => n.kind \in {"restart", "up"}
    OBVIOUS
  <2>1. CASE n \in remote
    BY <2>1, <1>5
  <2>2. CASE n \notin remote
    <3>1. n.kind = m.kind /\ n.container = m.container /\ n.image = m.image /\ n.stage = m.stage
      BY <2>2, <1>4
    <3>2. m \in remote
      BY DEF Ends
    <3>. QED BY <3>1, <3>2, <1>5
  <2>. QED BY <2>1, <2>2
<1>. QED BY <1>1, <1>2, <1>6, <1>7, <1>8, <1>9

\* Of the commands `left`, those that touch the container of request s are its own, and
\* of its image.
TouchedBy(left, s) ==
  \A n \in left : n.kind \in C!Touching /\ n.container = reqs[s].container => n.by = s
ImagesOf(left, s) == \A n \in left : n.by = s => n.image = reqs[s].image

\* What a command changes is of no request that is alone with its container, but its own.
LEMMA OthersAlone ==
  ASSUME NEW m, NEW left, NEW ok, ControlInv, m \in remote, Leaves(m, left, ok), Affects(m, ok),
         NEW s \in Req, s \notin disturbed, s # m.by
  PROVE  /\ TouchedBy(left, s)
         /\ reqs[s].op = "apply" /\ reqs[s].kind = "up" =>
              /\ override'[reqs[s].container] = reqs[s].image
              /\ ImagesOf(left, s)
         /\ reqs[s].op = "applied" => containers'[reqs[s].container] = [image |-> reqs[s].image, up |-> TRUE]
<1>1. /\ \A n \in remote : n.kind \in C!Touching /\ n.container = reqs[s].container => n.by = s
      /\ reqs[s].op = "apply" /\ reqs[s].kind = "up" =>
              /\ override[reqs[s].container] = reqs[s].image
              /\ \A n \in remote : n.by = s => n.image = reqs[s].image
      /\ reqs[s].op = "applied" => containers[reqs[s].container] = [image |-> reqs[s].image, up |-> TRUE]
  BY DEF ControlInv, AloneInv, C!AppliedIsRunning
<1>2. /\ reqs[s].op = "apply" /\ reqs[s].kind = "up" => reqs[s].container \in Composed
      /\ reqs[s].op = "applied" => reqs[s].container \in Container
  BY ControlConstants DEF ControlInv, RequestInv
<1>3. ~(m.kind \in C!Touching /\ m.container = reqs[s].container)
  BY <1>1
<1>4. \A n \in left : \/ n \in remote
                      \/ /\ n.by = Nobody /\ n.kind = m.kind /\ n.container = m.container
                         /\ n.image = m.image
  BY DEF Leaves, ControlInv, ControlType, Command
<1>5. Nobody # s
  BY ControlConstants
<1>6. "write" \in C!Touching
  BY DEF C!Touching, C!Kinds
<1>7. TouchedBy(left, s)
  BY <1>1, <1>3, <1>4 DEF TouchedBy
<1>8. ASSUME reqs[s].op = "apply", reqs[s].kind = "up"
      PROVE  override'[reqs[s].container] = reqs[s].image
  BY <1>1, <1>2, <1>3, <1>6, <1>8 DEF Affects
<1>9. ASSUME reqs[s].op = "applied"
      PROVE  containers'[reqs[s].container] = [image |-> reqs[s].image, up |-> TRUE]
  <2>1. containers'[reqs[s].container] = containers[reqs[s].container]
    BY <1>2, <1>3, <1>9 DEF Affects
  <2>. QED BY <2>1, <1>1, <1>9
<1>10. reqs[s].op = "apply" /\ reqs[s].kind = "up" => ImagesOf(left, s)
  BY <1>1, <1>4, <1>5 DEF ImagesOf
<1>. QED BY <1>7, <1>8, <1>9, <1>10

\* It sends the next command of a plan.
Continues(r, left, ok, kind) ==
  /\ ok = TRUE /\ kind \in {"pull", "write", "up"} /\ enabled /\ reqs[r].op = "apply" /\ reqs[r].container \in Composed
  /\ kind # "pull" => reqs[r].image \in pulled'
  /\ kind = "up" => override'[reqs[r].container] = reqs[r].image
  /\ C!Send(left, r, [reqs[r] EXCEPT !.kind = kind])

\* The next step of a request is as it should be.
LEMMA SendKeeps ==
  ASSUME NEW m, NEW r, NEW left, NEW ok, NEW kind, Ends(m, r, left, ok), Continues(r, left, ok, kind)
  PROVE  ControlInv'
<1>. DEFINE q == [reqs[r] EXCEPT !.kind = kind]
            new == [by |-> r, kind |-> kind, container |-> reqs[r].container, image |-> reqs[r].image, stage |-> "begun"]
<1>1. /\ m \in Command /\ r \in Req /\ left \subseteq Command
      /\ C!Waiting(r) /\ reqs[r].kind = m.kind /\ reqs[r].container = m.container
      /\ \A n \in left : n.by # r
      /\ \A n \in left : n.by # Nobody => n \in remote
  BY LeftFacts
<1>2. \A n \in left : /\ n.kind \in {"write", "up"} => n.container \in Composed /\ n.image \in pulled'
                      /\ n.kind \in C!Touching => n.container \in Container
                      /\ n.kind = "pull" => n.image \in Image
                      /\ ~enabled => n.kind = "inspect"
                      /\ n.stage = "down" => n.kind \in {"restart", "up"}
  BY LeftFacts
<1>0. /\ ok = TRUE /\ kind \in {"pull", "write", "up"} /\ enabled /\ reqs[r].op = "apply" /\ reqs[r].container \in Composed
      /\ kind # "pull" => reqs[r].image \in pulled'
      /\ kind = "up" => override'[reqs[r].container] = reqs[r].image
  BY DEF Continues
<1>3. reqs \in [Req -> Request] /\ ControlInv /\ Affects(m, ok) /\ Leaves(m, left, ok) /\ m \in remote /\ r = m.by
  BY DEF Ends, ControlInv, ControlType
<1>4. reqs[r] \in Request /\ reqs[r].image \in Image /\ reqs[r].container \in Container
  BY <1>0, <1>1, <1>3, ControlConstants DEF ControlInv, RequestInv
<1>5. /\ q \in Request /\ q.op = "apply" /\ q.kind = kind
      /\ q.container = reqs[r].container /\ q.image = reqs[r].image
  <2>1. kind \in C!Kinds
    BY <1>0 DEF C!Kinds
  <2>. QED BY <2>1, <1>0, <1>4 DEF Request
<1>6. new \in Command
  BY <1>0, <1>1, <1>4, <1>5 DEF Command, C!Kinds
<1>7. remote' = left \cup {new}
  BY <1>5 DEF Continues, C!Send
<1>8. reqs' = [reqs EXCEPT ![r] = q]
  BY DEF Continues, C!Send
<1>9. disturbed' = IF kind \in C!Touching
                   THEN disturbed \cup {s \in Req \ {r} : reqs[s].container = reqs[r].container}
                   ELSE disturbed
  BY <1>5 DEF Continues, C!Send
<1>10. reqs'[r] = q /\ reqs' \in [Req -> Request] /\ \A s \in Req \ {r} : reqs'[s] = reqs[s]
  BY <1>1, <1>3, <1>5, <1>8
<1>11. new.by = r /\ new.kind = kind /\ new.container = reqs[r].container /\ new.image = reqs[r].image /\ new.stage = "begun"
  OBVIOUS
<1>. HIDE DEF q, new
<1>12. ControlType'
  <2>1. remote' \subseteq Command
    BY <1>1, <1>6, <1>7
  <2>. QED BY <2>1, <1>3, <1>10 DEF ControlType, ControlInv, Affects
<1>13. CommandInv'
  <2>1. new.kind = "pull" => new.image \in Image
    BY <1>4, <1>11
  <2>2. new.kind \in {"write", "up"} => new.container \in Composed /\ new.image \in pulled'
    BY <1>0, <1>11
  <2>3. new.container \in Container /\ new.stage # "down"
    BY <1>4, <1>11
  <2>4. enabled' = enabled
    BY <1>3 DEF Affects
  <2>. QED BY <2>1, <2>2, <2>3, <2>4, <1>0, <1>2, <1>7, <1>11 DEF CommandInv
<1>14. WaitInv'
  <2>1. ASSUME NEW n \in left, n.by # Nobody
        PROVE  /\ reqs'[n.by].op \notin {"idle", "applied"} /\ reqs'[n.by].kind = n.kind /\ reqs'[n.by].container = n.container
               /\ n.stage = "begun" => reqs'[n.by].image = n.image
    <3>1. n \in remote /\ n.by \in Req \ {r}
      BY <1>1, <2>1 DEF Command
    <3>2. reqs'[n.by] = reqs[n.by]
      BY <3>1, <1>10
    <3>3. /\ C!Waiting(n.by) /\ reqs[n.by].kind = n.kind /\ reqs[n.by].container = n.container
          /\ n.stage = "begun" => reqs[n.by].image = n.image
      BY <3>1, <2>1, <1>3 DEF ControlInv, WaitInv
    <3>. QED BY <3>2, <3>3 DEF C!Waiting
  <2>2. /\ reqs'[new.by].op \notin {"idle", "applied"} /\ reqs'[new.by].kind = new.kind /\ reqs'[new.by].container = new.container
        /\ new.stage = "begun" => reqs'[new.by].image = new.image
    <3>1. reqs'[r].op = "apply" /\ reqs'[r].kind = kind /\ reqs'[r].container = reqs[r].container /\ reqs'[r].image = reqs[r].image
      BY <1>5, <1>10
    <3>2. reqs'[r].op \notin {"idle", "applied"}
      BY <3>1
    <3>3. reqs'[new.by] = reqs'[r] /\ reqs'[new.by].op \notin {"idle", "applied"}
      BY <3>2, <1>11
    <3>. QED BY <3>1, <3>3, <1>11
  <2>3. ASSUME NEW n \in remote', NEW p \in remote', n.by # Nobody, n.by = p.by
        PROVE  n = p
    <3>1. CASE n = new
      BY <3>1, <2>3, <1>1, <1>7, <1>11
    <3>2. CASE p = new
      BY <3>2, <2>3, <1>1, <1>7, <1>11
    <3>3. CASE n # new /\ p # new
      <4>1. n \in remote /\ p \in remote
        BY <3>3, <2>3, <1>1, <1>7
      <4>. QED BY <4>1, <2>3, <1>3 DEF ControlInv, WaitInv
    <3>. QED BY <3>1, <3>2, <3>3
  <2>4. ASSUME NEW n \in remote', n.by # Nobody
        PROVE  /\ reqs'[n.by].op \notin {"idle", "applied"} /\ reqs'[n.by].kind = n.kind /\ reqs'[n.by].container = n.container
               /\ n.stage = "begun" => reqs'[n.by].image = n.image
    BY <2>1, <2>2, <2>4, <1>7
  <2>. QED BY <2>3, <2>4 DEF WaitInv, C!Waiting
<1>15. RequestInv'
  <2>1. /\ reqs'[r].op = "apply" /\ reqs'[r].container \in Composed /\ reqs'[r].image \in Image
        /\ reqs'[r].kind \in {"inspect", "pull", "write", "up"}
    BY <1>0, <1>4, <1>5, <1>10
  <2>. QED BY <2>1, <1>3, <1>10, ControlConstants DEF ControlInv, RequestInv
<1>16. AloneInv'
  <2>. SUFFICES ASSUME NEW s \in Req, s \notin disturbed'
       PROVE  /\ \A n \in remote' : n.kind \in C!Touching /\ n.container = reqs'[s].container => n.by = s
              /\ reqs'[s].op = "apply" /\ reqs'[s].kind = "up" =>
                   /\ override'[reqs'[s].container] = reqs'[s].image
                   /\ \A n \in remote' : n.by = s => n.image = reqs'[s].image
    BY DEF AloneInv
  <2>0. s \notin disturbed
    BY <1>9
  <2>1. CASE s = r
    <3>1. \A n \in left : n \in remote \ {m}
      BY <1>0, <1>3 DEF Leaves
    <3>2. \A n \in left : ~(n.kind \in C!Touching /\ n.container = reqs[r].container)
      BY <3>1, <2>0, <2>1, <1>1, <1>3 DEF ControlInv, AloneInv
    <3>3. reqs'[s].container = reqs[r].container /\ reqs'[s].image = reqs[r].image /\ reqs'[s].kind = kind
      BY <2>1, <1>5, <1>10
    <3>. QED BY <3>2, <3>3, <2>1, <1>0, <1>1, <1>7, <1>11
  <2>2. CASE s # r
    <3>1. reqs'[s] = reqs[s]
      BY <2>2, <1>10
    <3>2. /\ \A n \in left : n.kind \in C!Touching /\ n.container = reqs[s].container => n.by = s
          /\ reqs[s].op = "apply" /\ reqs[s].kind = "up" =>
               /\ override'[reqs[s].container] = reqs[s].image
               /\ \A n \in left : n.by = s => n.image = reqs[s].image
      <4>1. ControlInv /\ m \in remote /\ Leaves(m, left, ok) /\ Affects(m, ok) /\ s # m.by
        BY <2>2, <1>3
      <4>2. TouchedBy(left, s)
        BY <2>0, <4>1, OthersAlone
      <4>3. reqs[s].op = "apply" /\ reqs[s].kind = "up" => override'[reqs[s].container] = reqs[s].image
        BY <2>0, <4>1, OthersAlone
      <4>4. reqs[s].op = "apply" /\ reqs[s].kind = "up" => ImagesOf(left, s)
        BY <2>0, <4>1, OthersAlone
      <4>. QED BY <4>2, <4>3, <4>4 DEF TouchedBy, ImagesOf
    <3>3. ~(new.kind \in C!Touching /\ new.container = reqs[s].container)
      BY <2>2, <1>9, <1>11
    <3>. QED BY <3>1, <3>2, <3>3, <2>2, <1>7, <1>11
  <2>. QED BY <2>1, <2>2
<1>17. C!AppliedIsRunning'
  <2>. SUFFICES ASSUME NEW s \in Req, s \notin disturbed', reqs'[s].op = "applied"
       PROVE  containers'[reqs'[s].container] = [image |-> reqs'[s].image, up |-> TRUE]
    BY DEF C!AppliedIsRunning
  <2>1. s # r
    BY <1>5, <1>10
  <2>2. reqs'[s] = reqs[s]
    BY <2>1, <1>10
  <2>3. s \notin disturbed
    BY <1>9
  <2>4. reqs[s].op = "applied" => containers'[reqs[s].container] = [image |-> reqs[s].image, up |-> TRUE]
    <3>1. ControlInv /\ m \in remote /\ Leaves(m, left, ok) /\ Affects(m, ok) /\ s # m.by
      BY <2>1, <1>3
    <3>. QED BY <2>3, <3>1, OthersAlone
  <2>. QED BY <2>2, <2>4
<1>. QED BY <1>12, <1>13, <1>14, <1>15, <1>16, <1>17 DEF ControlInv

\* It is answered.
Answers(r, left, ok, done) ==
  /\ done \in BOOLEAN /\ (done => ok /\ reqs[r].op = "apply" /\ reqs[r].kind = "up")
  /\ C!Answer(left, r, done)

\* So is what it leaves when it is answered.
LEMMA AnswerKeeps ==
  ASSUME NEW m, NEW r, NEW left, NEW ok, Ends(m, r, left, ok), NEW done, Answers(r, left, ok, done)
  PROVE  ControlInv'
<1>. DEFINE q == IF done THEN [reqs[r] EXCEPT !.op = "applied"] ELSE C!Idle
<1>1. /\ m \in Command /\ r \in Req /\ left \subseteq Command
      /\ C!Waiting(r) /\ reqs[r].kind = m.kind /\ reqs[r].container = m.container
      /\ \A n \in left : n.by # r
      /\ \A n \in left : n.by # Nobody => n \in remote
  BY LeftFacts
<1>2. \A n \in left : /\ n.kind \in {"write", "up"} => n.container \in Composed /\ n.image \in pulled'
                      /\ n.kind \in C!Touching => n.container \in Container
                      /\ n.kind = "pull" => n.image \in Image
                      /\ ~enabled => n.kind = "inspect"
                      /\ n.stage = "down" => n.kind \in {"restart", "up"}
  BY LeftFacts
<1>0. done \in BOOLEAN /\ (done => ok /\ reqs[r].op = "apply" /\ reqs[r].kind = "up")
  BY DEF Answers
<1>3. reqs \in [Req -> Request] /\ ControlInv /\ Affects(m, ok) /\ Leaves(m, left, ok) /\ m \in remote /\ r = m.by
  BY DEF Ends, ControlInv, ControlType
<1>4. reqs[r] \in Request /\ (done => reqs[r].container \in Composed)
  BY <1>0, <1>1, <1>3 DEF ControlInv, RequestInv
<1>5. /\ q \in Request
      /\ done => q.op = "applied" /\ q.container = reqs[r].container /\ q.image = reqs[r].image
      /\ ~done => q.op = "idle" /\ q.container = None
  BY <1>0, <1>4 DEF Request, C!Idle, C!Kinds
<1>6. remote' = left /\ disturbed' = disturbed
  BY DEF Answers, C!Answer
<1>7. reqs'[r] = q /\ reqs' \in [Req -> Request] /\ \A s \in Req \ {r} : reqs'[s] = reqs[s]
  BY <1>1, <1>3, <1>5 DEF Answers, C!Answer
<1>. HIDE DEF q
<1>8. ControlType'
  BY <1>1, <1>3, <1>6, <1>7 DEF ControlType, ControlInv, Affects
<1>9. CommandInv'
  <2>1. enabled' = enabled
    BY <1>3 DEF Affects
  <2>. QED BY <2>1, <1>2, <1>6 DEF CommandInv
<1>10. WaitInv'
  <2>1. ASSUME NEW n \in left, n.by # Nobody
        PROVE  /\ reqs'[n.by].op \notin {"idle", "applied"} /\ reqs'[n.by].kind = n.kind /\ reqs'[n.by].container = n.container
               /\ n.stage = "begun" => reqs'[n.by].image = n.image
    <3>1. n \in remote /\ n.by \in Req \ {r}
      BY <1>1, <2>1 DEF Command
    <3>2. reqs'[n.by] = reqs[n.by]
      BY <3>1, <1>7
    <3>3. /\ C!Waiting(n.by) /\ reqs[n.by].kind = n.kind /\ reqs[n.by].container = n.container
          /\ n.stage = "begun" => reqs[n.by].image = n.image
      BY <3>1, <2>1, <1>3 DEF ControlInv, WaitInv
    <3>. QED BY <3>2, <3>3 DEF C!Waiting
  <2>2. ASSUME NEW n \in left, NEW p \in left, n.by # Nobody, n.by = p.by
        PROVE  n = p
    <3>1. n \in remote /\ p \in remote
      BY <2>2, <1>1
    <3>. QED BY <3>1, <2>2, <1>3 DEF ControlInv, WaitInv
  <2>. QED BY <2>1, <2>2, <1>6 DEF WaitInv, C!Waiting
<1>11. RequestInv'
  <2>1. reqs'[r].op # "apply" /\ (reqs'[r].op = "applied" => reqs'[r].container \in Composed)
    BY <1>0, <1>4, <1>5, <1>7
  <2>. QED BY <2>1, <1>3, <1>7 DEF ControlInv, RequestInv
<1>12. AloneInv'
  <2>. SUFFICES ASSUME NEW s \in Req, s \notin disturbed
       PROVE  /\ \A n \in left : n.kind \in C!Touching /\ n.container = reqs'[s].container => n.by = s
              /\ reqs'[s].op = "apply" /\ reqs'[s].kind = "up" =>
                   /\ override'[reqs'[s].container] = reqs'[s].image
                   /\ \A n \in left : n.by = s => n.image = reqs'[s].image
    BY <1>6 DEF AloneInv
  <2>1. CASE s = r
    <3>1. reqs'[s].op # "apply"
      BY <2>1, <1>0, <1>5, <1>7
    <3>2. ASSUME NEW n \in left, n.kind \in C!Touching, n.container = reqs'[s].container
          PROVE  n.by = s
      <4>1. n.container \in Container
        BY <3>2, <1>2
      <4>2. done /\ n.container = reqs[r].container
        BY <4>1, <3>2, <2>1, <1>0, <1>5, <1>7, ControlConstants
      <4>3. n \in remote
        BY <4>2, <1>0, <1>3 DEF Leaves
      <4>. QED BY <4>2, <4>3, <3>2, <2>1, <1>3 DEF ControlInv, AloneInv
    <3>. QED BY <3>1, <3>2
  <2>2. CASE s # r
    <3>1. reqs'[s] = reqs[s]
      BY <2>2, <1>7
    <3>2. ControlInv /\ m \in remote /\ Leaves(m, left, ok) /\ Affects(m, ok) /\ s # m.by
      BY <2>2, <1>3
    <3>3. TouchedBy(left, s)
      BY <3>2, OthersAlone
    <3>4. reqs[s].op = "apply" /\ reqs[s].kind = "up" => override'[reqs[s].container] = reqs[s].image
      BY <3>2, OthersAlone
    <3>5. reqs[s].op = "apply" /\ reqs[s].kind = "up" => ImagesOf(left, s)
      BY <3>2, OthersAlone
    <3>. QED BY <3>1, <3>3, <3>4, <3>5 DEF TouchedBy, ImagesOf
  <2>. QED BY <2>1, <2>2
<1>13. C!AppliedIsRunning'
  <2>. SUFFICES ASSUME NEW s \in Req, s \notin disturbed, reqs'[s].op = "applied"
       PROVE  containers'[reqs'[s].container] = [image |-> reqs'[s].image, up |-> TRUE]
    BY <1>6 DEF C!AppliedIsRunning
  <2>1. CASE s = r
    <3>1. done /\ reqs'[s].container = reqs[r].container /\ reqs'[s].image = reqs[r].image
      BY <2>1, <1>0, <1>5, <1>7
    <3>2. ok /\ reqs[r].op = "apply" /\ reqs[r].kind = "up" /\ m.kind = "up" /\ m.container = reqs[r].container
      BY <3>1, <1>0, <1>1
    <3>3. m.image = reqs[r].image
      BY <3>2, <2>1, <1>3 DEF ControlInv, AloneInv
    <3>4. containers'[m.container] = [image |-> m.image, up |-> TRUE]
      BY <3>2, <1>3 DEF Affects
    <3>. QED BY <3>1, <3>2, <3>3, <3>4
  <2>2. CASE s # r
    <3>1. reqs'[s] = reqs[s]
      BY <2>2, <1>7
    <3>2. reqs[s].op = "applied" => containers'[reqs[s].container] = [image |-> reqs[s].image, up |-> TRUE]
      BY <2>2, <1>3, OthersAlone
    <3>. QED BY <3>1, <3>2
  <2>. QED BY <2>1, <2>2
<1>. QED BY <1>8, <1>9, <1>10, <1>11, <1>12, <1>13 DEF ControlInv

\* A request whose command has ended goes on as it should.
LEMMA ProceedKeeps ==
  ASSUME NEW m, NEW r, NEW left, NEW ok, Ends(m, r, left, ok), C!Proceed(left, r, ok)
  PROVE  ControlInv'
<1>1. /\ m \in Command /\ r \in Req /\ C!Waiting(r) /\ reqs[r].kind = m.kind /\ reqs[r].container = m.container
      /\ m.stage = "begun" => reqs[r].image = m.image
  BY LeftFacts
<1>2. ok \in BOOLEAN /\ m \in remote /\ ControlInv /\ Affects(m, ok)
  BY DEF Ends
<1>3. /\ reqs[r].op = "apply" => reqs[r].image \in Image /\ reqs[r].container \in Container
      /\ reqs[r].op = "apply" /\ reqs[r].kind # "inspect" => reqs[r].container \in Composed
  BY <1>1, <1>2 DEF ControlInv, RequestInv
<1>4. /\ m.kind \in {"write", "up"} => m.image \in pulled
      /\ ~enabled => m.kind = "inspect"
      /\ m.stage = "down" => m.kind \in {"restart", "up"}
      /\ m.stage \in {"begun", "down"}
  BY <1>1, <1>2 DEF ControlInv, CommandInv, Command
<1>5. /\ pulled \subseteq pulled'
      /\ ok /\ m.kind = "pull" => m.image \in pulled'
      /\ ok /\ m.kind = "write" => override'[m.container] = m.image
  BY <1>2 DEF Affects
<1>6. ASSUME ok, enabled, reqs[r].op = "apply", reqs[r].kind = "inspect", reqs[r].container \in Composed,
             C!Send(left, r, [reqs[r] EXCEPT !.kind = "pull"])
      PROVE  ControlInv'
  <2>1. Continues(r, left, ok, "pull")
    BY <1>2, <1>6 DEF Continues
  <2>. QED BY <2>1, SendKeeps
<1>7. ASSUME ok, reqs[r].op = "apply", reqs[r].kind = "pull",
             C!Send(left, r, [reqs[r] EXCEPT !.kind = "write"])
      PROVE  ControlInv'
  <2>1. enabled /\ m.stage = "begun" /\ reqs[r].container \in Composed /\ reqs[r].image \in pulled'
    BY <1>1, <1>3, <1>4, <1>5, <1>7
  <2>2. Continues(r, left, ok, "write")
    BY <2>1, <1>2, <1>7 DEF Continues
  <2>. QED BY <2>2, SendKeeps
<1>8. ASSUME ok, reqs[r].op = "apply", reqs[r].kind = "write",
             C!Send(left, r, [reqs[r] EXCEPT !.kind = "up"])
      PROVE  ControlInv'
  <2>1. /\ enabled /\ m.stage = "begun" /\ reqs[r].container \in Composed /\ reqs[r].image \in pulled'
        /\ override'[reqs[r].container] = reqs[r].image
    BY <1>1, <1>3, <1>4, <1>5, <1>8
  <2>2. Continues(r, left, ok, "up")
    BY <2>1, <1>2, <1>8 DEF Continues
  <2>. QED BY <2>2, SendKeeps
<1>9. ASSUME C!Answer(left, r, reqs[r].op = "apply" /\ reqs[r].kind = "up" /\ ok)
      PROVE  ControlInv'
  <2>1. PICK done \in BOOLEAN : done = (reqs[r].op = "apply" /\ reqs[r].kind = "up" /\ ok)
    OBVIOUS
  <2>2. Answers(r, left, ok, done)
    BY <2>1, <1>9 DEF Answers
  <2>. QED BY <2>2, AnswerKeeps
<1>. QED BY <1>2, <1>6, <1>7, <1>8, <1>9, ProceedCases

\* A command that nobody waits for ends.
LEMMA UnseenKeeps ==
  ASSUME NEW m \in remote, NEW ok, ControlInv, Affects(m, ok), m.by = Nobody,
         remote' = remote \ {m}, UNCHANGED <<reqs, disturbed>>
  PROVE  ControlInv'
<1>1. ControlType'
  BY DEF ControlInv, ControlType, Affects
<1>2. CommandInv'
  BY DEF ControlInv, CommandInv, Affects
<1>3. WaitInv' /\ RequestInv'
  BY DEF ControlInv, WaitInv, RequestInv, C!Waiting
<1>4. Leaves(m, remote \ {m}, ok)
  BY DEF Leaves
<1>5. ASSUME NEW s \in Req, s \notin disturbed
      PROVE  s # m.by
  BY <1>5, ControlConstants
<1>6. AloneInv'
  <2>. SUFFICES ASSUME NEW s \in Req, s \notin disturbed
       PROVE  /\ TouchedBy(remote \ {m}, s)
              /\ reqs[s].op = "apply" /\ reqs[s].kind = "up" =>
                   /\ override'[reqs[s].container] = reqs[s].image
                   /\ ImagesOf(remote \ {m}, s)
    BY DEF AloneInv, TouchedBy, ImagesOf
  <2>. QED BY <1>4, <1>5, OthersAlone
<1>7. C!AppliedIsRunning'
  <2>. SUFFICES ASSUME NEW s \in Req, s \notin disturbed, reqs[s].op = "applied"
       PROVE  containers'[reqs[s].container] = [image |-> reqs[s].image, up |-> TRUE]
    BY DEF C!AppliedIsRunning
  <2>. QED BY <1>4, <1>5, OthersAlone
<1>. QED BY <1>1, <1>2, <1>3, <1>6, <1>7 DEF ControlInv

LEMMA ExitKeeps ==
  ASSUME NEW m \in remote, NEW ok \in BOOLEAN, ControlInv, Affects(m, ok), C!Exit(m, ok)
  PROVE  ControlInv'
<1>1. CASE m.by = Nobody
  BY <1>1, UnseenKeeps DEF C!Exit
<1>2. CASE m.by # Nobody
  <2>1. Leaves(m, remote \ {m}, ok)
    BY DEF Leaves
  <2>2. Ends(m, m.by, remote \ {m}, ok)
    BY <2>1, <1>2 DEF Ends
  <2>3. C!Proceed(remote \ {m}, m.by, ok)
    BY <1>2 DEF C!Exit
  <2>. QED BY <2>2, <2>3, ProceedKeeps
<1>. QED BY <1>1, <1>2

\* The timer fires or the stream closes.
LEMMA CutOffKeeps == ASSUME NEW m \in remote, ControlInv, C!CutOff(m) PROVE ControlInv'
<1>. DEFINE left == (remote \ {m}) \cup {[m EXCEPT !.by = Nobody]}
<1>1. Leaves(m, left, FALSE)
  BY DEF Leaves
<1>2. Affects(m, FALSE)
  BY DEF Affects, C!CutOff, C!node, ControlInv, ControlType
<1>3. Ends(m, m.by, left, FALSE)
  BY <1>1, <1>2 DEF Ends, C!CutOff
<1>4. C!Proceed(left, m.by, FALSE)
  BY DEF C!CutOff
<1>. HIDE DEF left
<1>. QED BY <1>3, <1>4, ProceedKeeps

\* Docker's commands.
LEMMA SucceedsKeeps == ASSUME NEW m \in remote, ControlInv, C!Succeeds(m) PROVE ControlInv'
<1>1. m \in Command /\ ControlType
  BY DEF ControlInv, ControlType
<1>2. /\ m.kind \in {"write", "up"} => m.container \in Composed /\ m.image \in pulled
      /\ m.kind \in C!Touching => m.container \in Container
      /\ m.kind = "pull" => m.image \in Image
  BY DEF ControlInv, CommandInv
<1>3. C!Exit(m, TRUE) /\ enabled' = enabled
  BY DEF C!Succeeds, C!Exit
<1>4. /\ m.kind \in C!Kinds /\ m.container \in Container \cup {None} /\ m.image \in Image \cup {None}
  BY <1>1 DEF Command
<1>5. CASE m.kind = "pull"
  <2>1. pulled' = pulled \cup {m.image} /\ UNCHANGED <<containers, override>>
    BY <1>5 DEF C!Succeeds
  <2>2. Affects(m, TRUE)
    BY <2>1, <1>1, <1>2, <1>3, <1>5 DEF Affects, ControlType
  <2>. QED BY <2>2, <1>3, ExitKeeps
<1>6. CASE m.kind = "write"
  <2>1. override' = [override EXCEPT ![m.container] = m.image] /\ UNCHANGED <<containers, pulled>>
    BY <1>6 DEF C!Succeeds
  <2>2. Affects(m, TRUE)
    BY <2>1, <1>1, <1>2, <1>3, <1>6 DEF Affects, ControlType
  <2>. QED BY <2>2, <1>3, ExitKeeps
<1>7. CASE m.kind = "inspect"
  <2>1. UNCHANGED <<containers, pulled, override>>
    BY <1>7 DEF C!Succeeds, C!node
  <2>2. Affects(m, TRUE)
    BY <2>1, <1>1, <1>3, <1>7 DEF Affects, ControlType
  <2>. QED BY <2>2, <1>3, ExitKeeps
<1>8. CASE m.kind \in {"start", "stop", "restart"}
  <2>1. PICK up \in BOOLEAN : containers' = [containers EXCEPT ![m.container].up = up] /\ UNCHANGED <<pulled, override>>
    BY <1>8 DEF C!Succeeds
  <2>2. m.kind \in C!Touching /\ m.container \in Container
    BY <1>2, <1>8 DEF C!Touching, C!Kinds, C!Actions
  <2>3. /\ containers' \in [Container -> [image : Image, up : BOOLEAN]]
        /\ \A c \in Container \ {m.container} : containers'[c] = containers[c]
    BY <2>1, <2>2, <1>1 DEF ControlType
  <2>4. Affects(m, TRUE)
    BY <2>1, <2>2, <2>3, <1>1, <1>3, <1>8 DEF Affects, ControlType
  <2>. QED BY <2>4, <1>3, ExitKeeps
<1>9. CASE m.kind = "up"
  <2>1. /\ m.stage = "down" /\ UNCHANGED <<pulled, override>>
        /\ containers' = [containers EXCEPT ![m.container] = [image |-> m.image, up |-> TRUE]]
    BY <1>9 DEF C!Succeeds
  <2>2. m.kind \in C!Touching /\ m.container \in Container /\ m.image \in Image
    BY <1>1, <1>2, <1>9, ControlConstants DEF C!Touching, C!Kinds, ControlType
  <2>3. /\ containers' \in [Container -> [image : Image, up : BOOLEAN]]
        /\ containers'[m.container] = [image |-> m.image, up |-> TRUE]
        /\ \A c \in Container \ {m.container} : containers'[c] = containers[c]
    BY <2>1, <2>2, <1>1 DEF ControlType
  <2>4. Affects(m, TRUE)
    BY <2>1, <2>2, <2>3, <1>1, <1>3, <1>9 DEF Affects, ControlType
  <2>. QED BY <2>4, <1>3, ExitKeeps
<1>. QED BY <1>4, <1>5, <1>6, <1>7, <1>8, <1>9 DEF C!Kinds, C!Actions

LEMMA FailsKeeps == ASSUME NEW m \in remote, ControlInv, C!Fails(m) PROVE ControlInv'
<1>1. m \in Command /\ ControlType
  BY DEF ControlInv, ControlType
<1>2. C!Exit(m, FALSE) /\ enabled' = enabled /\ UNCHANGED <<containers, pulled>>
  BY DEF C!Fails, C!Exit
<1>3. Affects(m, FALSE)
  <2>1. CASE m.kind = "write"
    <3>1. override' = [override EXCEPT ![m.container] = None]
      BY <2>1 DEF C!Fails
    <3>. QED BY <3>1, <2>1, <1>1, <1>2 DEF Affects, ControlType
  <2>2. CASE m.kind # "write"
    <3>1. override' = override
      BY <2>2 DEF C!Fails
    <3>. QED BY <3>1, <2>2, <1>1, <1>2 DEF Affects, ControlType
  <2>. QED BY <2>1, <2>2
<1>. QED BY <1>2, <1>3, ExitKeeps

\* A recreate that removes the container will start it of what the override says.
LEMMA TakesDownKeeps == ASSUME NEW m \in remote, ControlInv, C!TakesDown(m) PROVE ControlInv'
<1>. DEFINE image == IF m.kind = "up" THEN override[m.container] ELSE m.image
            new == [m EXCEPT !.stage = "down", !.image = image]
<1>1. m \in Command /\ ControlType
  BY DEF ControlInv, ControlType
<1>2. /\ m.kind \in {"write", "up"} => m.container \in Composed /\ m.image \in pulled
      /\ m.kind \in C!Touching => m.container \in Container
      /\ ~enabled => m.kind = "inspect"
  BY DEF ControlInv, CommandInv
<1>3. /\ m.stage = "begun" /\ m.kind \in {"restart", "up"} /\ m.kind \in C!Touching /\ m.kind # "write"
      /\ UNCHANGED <<enabled, override, reqs, disturbed>>
      /\ containers' = [containers EXCEPT ![m.container].up = FALSE]
      /\ m.kind = "up" => override[m.container] # None /\ pulled' = pulled \cup {override[m.container]}
      /\ m.kind = "restart" => pulled' = pulled
  BY DEF C!TakesDown, C!Touching, C!Kinds, C!Actions
<1>4. remote' = (remote \ {m}) \cup {new}
  <2>1. CASE m.kind = "up"
    BY <2>1 DEF C!TakesDown
  <2>2. CASE m.kind # "up"
    <3>1. new = [m EXCEPT !.stage = "down"]
      BY <2>2, <1>1 DEF Command
    <3>2. remote' = (remote \ {m}) \cup {[m EXCEPT !.stage = "down"]}
      BY <2>2 DEF C!TakesDown
    <3>. QED BY <3>1, <3>2
  <2>. QED BY <2>1, <2>2
<1>5. /\ image \in Image \cup {None}
      /\ m.kind = "up" => image = override[m.container] /\ image \in Image /\ image \in pulled'
  BY <1>1, <1>2, <1>3 DEF Command, ControlType
<1>6. /\ new \in Command /\ new.by = m.by /\ new.kind = m.kind /\ new.container = m.container
      /\ new.image = image /\ new.stage = "down"
  BY <1>1, <1>5 DEF Command
<1>. HIDE DEF image, new
<1>7. containers' \in [Container -> [image : Image, up : BOOLEAN]]
      /\ \A c \in Container \ {m.container} : containers'[c] = containers[c]
  BY <1>1, <1>2, <1>3 DEF ControlType
<1>8. ControlType'
  <2>1. pulled' \subseteq Image
    BY <1>1, <1>3, <1>5 DEF ControlType
  <2>2. remote' \subseteq Command
    BY <1>1, <1>4, <1>6 DEF ControlType
  <2>. QED BY <2>1, <2>2, <1>1, <1>3, <1>7 DEF ControlType
<1>9. CommandInv'
  <2>1. pulled \subseteq pulled'
    BY <1>3
  <2>. QED BY <2>1, <1>2, <1>3, <1>4, <1>5, <1>6 DEF ControlInv, CommandInv
<1>10. WaitInv'
  <2>1. ASSUME NEW n \in remote', n.by # Nobody
        PROVE  /\ C!Waiting(n.by) /\ reqs[n.by].kind = n.kind /\ reqs[n.by].container = n.container
               /\ n.stage = "begun" => reqs[n.by].image = n.image
    <3>1. CASE n \in remote
      BY <3>1, <2>1 DEF ControlInv, WaitInv
    <3>2. CASE n = new
      <4>1. C!Waiting(m.by) /\ reqs[m.by].kind = m.kind /\ reqs[m.by].container = m.container
        BY <3>2, <2>1, <1>6 DEF ControlInv, WaitInv
      <4>. QED BY <4>1, <3>2, <1>6
    <3>. QED BY <3>1, <3>2, <1>4
  <2>2. ASSUME NEW n \in remote', NEW p \in remote', n.by # Nobody, n.by = p.by
        PROVE  n = p
    <3>1. \A l \in remote : l.by = m.by /\ m.by # Nobody => l = m
      BY DEF ControlInv, WaitInv
    <3>2. CASE n = new
      BY <3>1, <3>2, <2>2, <1>4, <1>6
    <3>3. CASE p = new
      BY <3>1, <3>3, <2>2, <1>4, <1>6
    <3>4. CASE n # new /\ p # new
      <4>1. n \in remote /\ p \in remote
        BY <3>4, <1>4
      <4>. QED BY <4>1, <2>2 DEF ControlInv, WaitInv
    <3>. QED BY <3>2, <3>3, <3>4
  <2>. QED BY <2>1, <2>2, <1>3 DEF WaitInv, C!Waiting
<1>11. RequestInv'
  BY <1>3 DEF ControlInv, RequestInv
<1>12. AloneInv'
  <2>. SUFFICES ASSUME NEW s \in Req, s \notin disturbed
       PROVE  /\ \A n \in remote' : n.kind \in C!Touching /\ n.container = reqs[s].container => n.by = s
              /\ reqs[s].op = "apply" /\ reqs[s].kind = "up" =>
                   /\ override[reqs[s].container] = reqs[s].image
                   /\ \A n \in remote' : n.by = s => n.image = reqs[s].image
    BY <1>3 DEF AloneInv
  <2>1. /\ \A n \in remote : n.kind \in C!Touching /\ n.container = reqs[s].container => n.by = s
        /\ reqs[s].op = "apply" /\ reqs[s].kind = "up" =>
             /\ override[reqs[s].container] = reqs[s].image
             /\ \A n \in remote : n.by = s => n.image = reqs[s].image
    BY DEF ControlInv, AloneInv
  <2>2. \A n \in remote' : n.kind \in C!Touching /\ n.container = reqs[s].container => n.by = s
    BY <2>1, <1>4, <1>6
  <2>3. ASSUME reqs[s].op = "apply", reqs[s].kind = "up", new.by = s
        PROVE  new.image = reqs[s].image
    <3>1. reqs[s].kind = m.kind /\ reqs[s].container = m.container
      BY <2>3, <1>6, ControlConstants DEF ControlInv, WaitInv
    <3>. QED BY <3>1, <2>1, <2>3, <1>5, <1>6
  <2>. QED BY <2>1, <2>2, <2>3, <1>4
<1>13. C!AppliedIsRunning'
  <2>. SUFFICES ASSUME NEW s \in Req, s \notin disturbed, reqs[s].op = "applied"
       PROVE  containers'[reqs[s].container] = [image |-> reqs[s].image, up |-> TRUE]
    BY <1>3 DEF C!AppliedIsRunning
  <2>1. m.by # s
    BY ControlConstants DEF ControlInv, WaitInv, C!Waiting
  <2>2. m.container # reqs[s].container
    BY <2>1, <1>3 DEF ControlInv, AloneInv
  <2>3. reqs[s].container \in Container
    BY ControlConstants DEF ControlInv, RequestInv
  <2>4. containers[reqs[s].container] = [image |-> reqs[s].image, up |-> TRUE]
    BY DEF ControlInv, C!AppliedIsRunning
  <2>. QED BY <2>2, <2>3, <2>4, <1>7
<1>. QED BY <1>8, <1>9, <1>10, <1>11, <1>12, <1>13 DEF ControlInv

\* A request that begins: an inspect, or a command that controls allow.
LEMMA BeginKeeps ==
  ASSUME ControlInv, NEW r \in Req, NEW op, NEW kind, NEW c \in Container \cup {None}, NEW i \in Image \cup {None},
         op \in {"action", "pull", "plan", "apply"}, kind \in C!Actions \cup {"inspect", "pull"},
         enabled \/ kind = "inspect",
         kind \in C!Actions => c \in Container,
         kind = "pull" => i \in Image,
         op = "apply" => kind = "inspect" /\ c \in Container /\ i \in Image,
         C!Begin(r, op, kind, c, i)
  PROVE  ControlInv'
<1>. DEFINE new == [by |-> r, kind |-> kind, container |-> c, image |-> i, stage |-> "begun"]
            q == [op |-> op, kind |-> kind, container |-> c, image |-> i]
<1>1. ControlType /\ r # Nobody
  BY ControlConstants DEF ControlInv
<1>2. /\ ~C!Waiting(r) /\ UNCHANGED <<enabled, containers, pulled, override>>
      /\ remote' = remote \cup {new}
      /\ reqs' = [reqs EXCEPT ![r] = q]
  BY DEF C!Begin, C!node
<1>3. new \in Command /\ q \in Request
  BY DEF Command, Request, C!Kinds
<1>4. kind \notin {"write", "up"} /\ (kind \in C!Touching <=> kind \in C!Actions)
  BY DEF C!Touching, C!Kinds, C!Actions
<1>5. /\ new.by = r /\ new.kind = kind /\ new.container = c /\ new.image = i /\ new.stage = "begun"
      /\ q.op = op /\ q.kind = kind /\ q.container = c /\ q.image = i
  OBVIOUS
<1>6. ASSUME NEW s \in Req, s \notin disturbed'
      PROVE  /\ s = r => ~\E m \in remote : m.kind \in C!Touching /\ m.container = c
             /\ s # r => s \notin disturbed /\ (kind \in C!Touching => reqs[s].container # c)
  BY <1>6 DEF C!Begin
<1>. HIDE DEF new, q
<1>7. reqs'[r] = q /\ reqs' \in [Req -> Request] /\ \A s \in Req \ {r} : reqs'[s] = reqs[s]
  BY <1>1, <1>2, <1>3 DEF ControlType
<1>8. \A n \in remote : n.by # r
  BY <1>1, <1>2 DEF ControlInv, WaitInv
<1>9. ControlType'
  BY <1>1, <1>2, <1>3, <1>7 DEF ControlType
<1>10. CommandInv'
  <2>1. /\ new.kind \in C!Touching => new.container \in Container
        /\ new.kind = "pull" => new.image \in Image
        /\ ~enabled => new.kind = "inspect"
        /\ new.kind \notin {"write", "up"} /\ new.stage # "down"
    BY <1>4, <1>5
  <2>. QED BY <2>1, <1>2 DEF ControlInv, CommandInv
<1>11. WaitInv'
  <2>1. ASSUME NEW n \in remote', n.by # Nobody
        PROVE  /\ reqs'[n.by].op \notin {"idle", "applied"} /\ reqs'[n.by].kind = n.kind
               /\ reqs'[n.by].container = n.container
               /\ n.stage = "begun" => reqs'[n.by].image = n.image
    <3>1. CASE n = new
      <4>1. reqs'[n.by] = q
        BY <3>1, <1>5, <1>7
      <4>. QED BY <4>1, <3>1, <1>5
    <3>2. CASE n \in remote
      <4>1. n.by \in Req \ {r}
        BY <3>2, <2>1, <1>1, <1>8 DEF ControlType, Command
      <4>2. reqs'[n.by] = reqs[n.by]
        BY <4>1, <1>7
      <4>3. /\ reqs[n.by].op \notin {"idle", "applied"} /\ reqs[n.by].kind = n.kind
            /\ reqs[n.by].container = n.container
            /\ n.stage = "begun" => reqs[n.by].image = n.image
        BY <3>2, <2>1 DEF ControlInv, WaitInv, C!Waiting
      <4>. QED BY <4>2, <4>3
    <3>. QED BY <3>1, <3>2, <1>2
  <2>2. ASSUME NEW n \in remote', NEW p \in remote', n.by # Nobody, n.by = p.by
        PROVE  n = p
    <3>1. CASE n = new \/ p = new
      BY <3>1, <2>2, <1>2, <1>5, <1>8
    <3>2. CASE n # new /\ p # new
      <4>1. n \in remote /\ p \in remote
        BY <3>2, <1>2
      <4>. QED BY <4>1, <2>2 DEF ControlInv, WaitInv
    <3>. QED BY <3>1, <3>2
  <2>. QED BY <2>1, <2>2 DEF WaitInv, C!Waiting
<1>12. RequestInv'
  <2>1. /\ reqs'[r].op \in {"action", "pull", "plan", "apply"}
        /\ reqs'[r].op = "apply" =>
             reqs'[r].kind = "inspect" /\ reqs'[r].container \in Container /\ reqs'[r].image \in Image
    BY <1>5, <1>7
  <2>. QED BY <2>1, <1>7 DEF ControlInv, RequestInv
<1>13. AloneInv'
  <2>. SUFFICES ASSUME NEW s \in Req, s \notin disturbed'
       PROVE  /\ \A n \in remote' : n.kind \in C!Touching /\ n.container = reqs'[s].container => n.by = s
              /\ reqs'[s].op = "apply" /\ reqs'[s].kind = "up" =>
                   /\ override'[reqs'[s].container] = reqs'[s].image
                   /\ \A n \in remote' : n.by = s => n.image = reqs'[s].image
    BY DEF AloneInv
  <2>1. CASE s = r
    <3>1. reqs'[s].container = c /\ reqs'[s].kind # "up"
      BY <2>1, <1>4, <1>5, <1>7
    <3>. QED BY <3>1, <2>1, <1>2, <1>5, <1>6
  <2>2. CASE s # r
    <3>1. reqs'[s] = reqs[s] /\ s \notin disturbed /\ (kind \in C!Touching => reqs[s].container # c)
      BY <2>2, <1>6, <1>7
    <3>2. /\ \A n \in remote : n.kind \in C!Touching /\ n.container = reqs[s].container => n.by = s
          /\ reqs[s].op = "apply" /\ reqs[s].kind = "up" =>
               /\ override[reqs[s].container] = reqs[s].image
               /\ \A n \in remote : n.by = s => n.image = reqs[s].image
      BY <3>1 DEF ControlInv, AloneInv
    <3>. QED BY <3>1, <3>2, <2>2, <1>2, <1>5
  <2>. QED BY <2>1, <2>2
<1>14. C!AppliedIsRunning'
  <2>. SUFFICES ASSUME NEW s \in Req, s \notin disturbed', reqs'[s].op = "applied"
       PROVE  containers[reqs'[s].container] = [image |-> reqs'[s].image, up |-> TRUE]
    BY <1>2 DEF C!AppliedIsRunning
  <2>1. s # r
    BY <1>5, <1>7
  <2>2. reqs'[s] = reqs[s] /\ s \notin disturbed
    BY <2>1, <1>6, <1>7
  <2>. QED BY <2>2 DEF ControlInv, C!AppliedIsRunning
<1>. QED BY <1>9, <1>10, <1>11, <1>12, <1>13, <1>14 DEF ControlInv

LEMMA ControlNext == ASSUME ControlInv, C!Next PROVE ControlInv'
<1>1. ASSUME NEW r \in Req, NEW c \in Container, NEW action \in C!Actions, C!PostContainer(r, c, action)
      PROVE  ControlInv'
  <2>1. enabled /\ C!Begin(r, "action", action, c, None)
    BY <1>1 DEF C!PostContainer
  <2>2. action # "pull" /\ None \in Image \cup {None} /\ c \in Container \cup {None}
    BY DEF C!Actions
  <2>. QED BY <2>1, <2>2, BeginKeeps
<1>2. ASSUME NEW r \in Req, NEW c \in Container, NEW i \in Image, NEW apply \in BOOLEAN, C!PostSwap(r, c, i, apply)
      PROVE  ControlInv'
  <2>1. PICK op \in {"plan", "apply"} : C!Begin(r, op, "inspect", c, i)
    BY <1>2 DEF C!PostSwap
  <2>2. "inspect" \notin C!Actions
    BY DEF C!Actions
  <2>. QED BY <2>1, <2>2, BeginKeeps
<1>3. ASSUME NEW r \in Req, NEW i \in Image, C!PostPull(r, i)
      PROVE  ControlInv'
  <2>1. enabled /\ C!Begin(r, "pull", "pull", None, i)
    BY <1>3 DEF C!PostPull
  <2>2. "pull" \notin C!Actions
    BY DEF C!Actions
  <2>. QED BY <2>1, <2>2, BeginKeeps
<1>. QED BY <1>1, <1>2, <1>3, CutOffKeeps, SucceedsKeeps, TakesDownKeeps, FailsKeeps DEF C!Next

\* In every behaviour in which control moves, commands and requests are as ControlInv says.
THEOREM ControlInvariant == Spec => [](part = "control" => ControlInv)
<1>1. Init => (part = "control" => ControlInv)
  BY ControlInit DEF Init
<1>2. (part = "control" => ControlInv) /\ [Next]_vars => (part = "control" => ControlInv)'
  <2>. SUFFICES ASSUME part = "control" => ControlInv, [Next]_vars, part' = "control"
       PROVE  ControlInv'
    OBVIOUS
  <2>1. CASE Next
    BY <2>1, ControlNext DEF Next, OthersStay
  <2>2. CASE UNCHANGED vars
    <3>1. UNCHANGED <<part, enabled, containers, pulled, override, remote, reqs, disturbed>>
      BY <2>2 DEF vars, controlVars
    <3>. QED BY <3>1 DEF ControlInv, ControlType, CommandInv, WaitInv, RequestInv, AloneInv, C!AppliedIsRunning,
                         C!Waiting
  <2>. QED BY <2>1, <2>2
<1>. QED BY <1>1, <1>2, PTL DEF Spec

\* Whatever was cut off, retried or swapped at the same time, and for any containers and
\* requests, a recreate is prepared and made only for an image that is on the node.
THEOREM PulledFirst == Spec => []PulledBeforeTeardown
<1>1. (part = "control" => ControlInv) => PulledBeforeTeardown
  BY DEF PulledBeforeTeardown, C!PulledBeforeTeardown, ControlInv, CommandInv
<1>. QED BY <1>1, ControlInvariant, PTL

\* What a swap was answered to have applied is what runs, until another command touches the
\* container.
THEOREM AppliedRuns == Spec => []AppliedIsRunning
<1>1. (part = "control" => ControlInv) => AppliedIsRunning
  BY DEF AppliedIsRunning, ControlInv
<1>. QED BY <1>1, ControlInvariant, PTL

\* A step of control changes the image of composed containers only, and nothing where
\* controls are off.
LEMMA AllowedStep == ASSUME ControlInv, C!Next PROVE C!OnlyWhereAllowedStep
<1>1. containers \in [Container -> [image : Image, up : BOOLEAN]] /\ remote \subseteq Command
  BY DEF ControlInv, ControlType
<1>2. ASSUME NEW m \in remote
      PROVE  /\ m.kind = "up" => m.container \in Composed
             /\ ~enabled => m.kind = "inspect"
             /\ m.kind \in C!Kinds
  BY <1>1 DEF ControlInv, CommandInv, Command
<1>3. ASSUME NEW r \in Req, NEW c \in Container,
             \/ \E action \in C!Actions : C!PostContainer(r, c, action)
             \/ \E i \in Image, apply \in BOOLEAN : C!PostSwap(r, c, i, apply)
      PROVE  UNCHANGED C!node
  BY <1>3 DEF C!PostContainer, C!PostSwap, C!Begin
<1>4. ASSUME NEW r \in Req, NEW i \in Image, C!PostPull(r, i)
      PROVE  UNCHANGED C!node
  BY <1>4 DEF C!PostPull, C!Begin
<1>5. ASSUME NEW m \in remote, C!CutOff(m)
      PROVE  UNCHANGED C!node
  BY <1>5 DEF C!CutOff
<1>6. ASSUME NEW m \in remote, C!Succeeds(m)
      PROVE  C!OnlyWhereAllowedStep
  <2>1. ~enabled => UNCHANGED C!node
    BY <1>2, <1>6 DEF C!Succeeds
  <2>2. ASSUME NEW c \in Container \ Composed
        PROVE  containers'[c].image = containers[c].image
    <3>1. CASE m.kind = "up"
      <4>1. containers' = [containers EXCEPT ![m.container] = [image |-> m.image, up |-> TRUE]]
        BY <3>1, <1>6 DEF C!Succeeds
      <4>. QED BY <4>1, <3>1, <1>1, <1>2
    <3>2. CASE m.kind \in {"stop", "start", "restart"}
      <4>1. PICK up \in BOOLEAN : containers' = [containers EXCEPT ![m.container].up = up]
        BY <3>2, <1>6 DEF C!Succeeds
      <4>. QED BY <4>1, <1>1
    <3>3. CASE m.kind \in {"pull", "write", "inspect"}
      BY <3>3, <1>6 DEF C!Succeeds, C!node
    <3>. QED BY <3>1, <3>2, <3>3, <1>2 DEF C!Kinds, C!Actions
  <2>. QED BY <2>1, <2>2 DEF C!OnlyWhereAllowedStep
<1>7. ASSUME NEW m \in remote, C!TakesDown(m)
      PROVE  C!OnlyWhereAllowedStep
  <2>1. enabled /\ containers' = [containers EXCEPT ![m.container].up = FALSE]
    BY <1>2, <1>7 DEF C!TakesDown
  <2>. QED BY <2>1, <1>1 DEF C!OnlyWhereAllowedStep
<1>8. ASSUME NEW m \in remote, C!Fails(m)
      PROVE  C!OnlyWhereAllowedStep
  <2>1. containers' = containers /\ (~enabled => UNCHANGED C!node)
    BY <1>2, <1>8 DEF C!Fails, C!node
  <2>. QED BY <2>1 DEF C!OnlyWhereAllowedStep
<1>9. UNCHANGED C!node => C!OnlyWhereAllowedStep
  BY DEF C!node, C!OnlyWhereAllowedStep
<1>. QED BY <1>3, <1>4, <1>5, <1>6, <1>7, <1>8, <1>9 DEF C!Next

\* No step changes the image of a container that was run by hand, and with controls off no
\* step changes anything on the node, what was left running included.
THEOREM AllowedOnly == Spec => OnlyWhereAllowed
<1>1. (part = "control" => ControlInv) /\ [Next]_vars
        => [part = "control" => C!OnlyWhereAllowedStep]_<<part, controlVars>>
  <2>. SUFFICES ASSUME part = "control" => ControlInv, [Next]_vars
       PROVE  (part = "control" => C!OnlyWhereAllowedStep) \/ UNCHANGED <<part, controlVars>>
    OBVIOUS
  <2>1. CASE Next
    BY <2>1, AllowedStep DEF Next
  <2>2. CASE UNCHANGED vars
    BY <2>2 DEF vars
  <2>. QED BY <2>1, <2>2
<1>. QED BY <1>1, ControlInvariant, PTL DEF Spec, OnlyWhereAllowed

-----------------------------------------------------------------------------
(* SetupForm. *)

Outcome == [ok : BOOLEAN, name : Host \cup {Null}, draft : E!Draft, edited : BOOLEAN]

\* A test that was not overtaken by an edit is of the draft, and so is what it found; the name
\* it found is that of the node it was made of.
SetupInv ==
  /\ draft \in E!Draft
  /\ tested # Null => /\ tested \in [draft : E!Draft, edited : BOOLEAN]
                      /\ tested.draft = draft \/ tested.edited
  /\ outcome # Null => /\ outcome \in Outcome
                       /\ outcome.ok => outcome.draft = draft \/ outcome.edited
                       /\ outcome.name # Null => outcome.name = outcome.draft.host
  /\ formSent # Null => /\ formSent.draft \in E!Draft
                        /\ formSent.of.name # Null => formSent.of.name = formSent.of.draft.host
  /\ E!SavedWasTested

LEMMA SetupInit == ASSUME E!Init PROVE SetupInv
BY DEF E!Init, SetupInv, E!SavedWasTested, E!Draft

\* An edit made while a test is under way is remembered with it.
LEMMA MarkedEdited ==
  ASSUME SetupInv, E!MarkEdited, tested' # Null
  PROVE  tested' \in [draft : E!Draft, edited : BOOLEAN] /\ tested'.edited
BY DEF SetupInv, E!MarkEdited

LEMMA SetupNext == ASSUME SetupInv, E!Next PROVE SetupInv'
<1>1. ASSUME NEW d \in E!Draft, E!Edit(d) PROVE SetupInv'
  <2>1. /\ draft' = d /\ outcome' = Null /\ E!MarkEdited
        /\ UNCHANGED <<formSent, added, accepted>>
    BY <1>1 DEF E!Edit
  <2>. QED BY <2>1, MarkedEdited DEF SetupInv, E!SavedWasTested
<1>2. CASE E!Test
  <2>1. tested' = [draft |-> draft, edited |-> FALSE] /\ outcome' = Null
        /\ UNCHANGED <<draft, formSent, added, accepted>>
    BY <1>2 DEF E!Test
  <2>. QED BY <2>1 DEF SetupInv, E!SavedWasTested
<1>3. ASSUME NEW ok \in BOOLEAN, NEW name \in Host \cup {Null}, E!TestAnswers(ok, name) PROVE SetupInv'
  <2>1. /\ tested # Null /\ (name # Null => name = tested.draft.host)
        /\ outcome' = [ok |-> ok, name |-> name, draft |-> tested.draft, edited |-> tested.edited]
        /\ tested' = Null /\ UNCHANGED <<draft, formSent, added, accepted>>
    BY <1>3 DEF E!TestAnswers
  <2>2. /\ outcome' \in Outcome /\ outcome'.name = name
        /\ outcome'.draft = tested.draft /\ outcome'.edited = tested.edited
    BY <2>1 DEF SetupInv, Outcome
  <2>. QED BY <2>1, <2>2 DEF SetupInv, E!SavedWasTested
<1>4. CASE E!Save
  <2>1. /\ outcome # Null /\ outcome.ok /\ formSent' = [draft |-> draft, of |-> outcome]
        /\ UNCHANGED <<draft, tested, outcome, added, accepted>>
    BY <1>4 DEF E!Save
  <2>. QED BY <2>1 DEF SetupInv, E!SavedWasTested
<1>5. CASE E!Saved
  <2>. DEFINE named == IF formSent.of.name # Null THEN formSent.of.name ELSE formSent.draft.host
  <2>1. /\ formSent # Null /\ accepted' = accepted \cup {formSent.draft.host}
        /\ added' = added \cup {[named |-> named, saved |-> formSent.draft.host, edited |-> formSent.of.edited]}
        /\ draft' = [draft EXCEPT !.host = Null] /\ E!MarkEdited /\ outcome' = Null /\ formSent' = Null
    BY <1>5 DEF E!Saved
  <2>3. named = formSent.draft.host \/ formSent.of.edited
    BY <2>1 DEF SetupInv, E!SavedWasTested
  <2>2. draft' \in E!Draft
    BY <2>1 DEF SetupInv, E!Draft
  <2>. HIDE DEF named
  <2>. QED BY <2>1, <2>2, <2>3, MarkedEdited DEF SetupInv, E!SavedWasTested
<1>6. ASSUME NEW taken \in BOOLEAN, E!NotSaved(taken) PROVE SetupInv'
  <2>1. /\ formSent # Null /\ outcome' = [ok |-> FALSE, name |-> Null, draft |-> formSent.draft, edited |-> FALSE]
        /\ accepted \subseteq accepted' /\ formSent' = Null /\ UNCHANGED <<draft, tested, added>>
    BY <1>6 DEF E!NotSaved
  <2>2. outcome' \in Outcome /\ outcome'.ok = FALSE /\ outcome'.name = Null
    BY <2>1 DEF SetupInv, Outcome
  <2>. QED BY <2>1, <2>2 DEF SetupInv, E!SavedWasTested
<1>7. ASSUME NEW h \in Host \cup {Null} PROVE [host |-> h, secret |-> draft.secret] \in E!Draft
  BY DEF SetupInv, E!Draft
<1>8. ASSUME NEW s \in Secret \cup {Null} PROVE [host |-> draft.host, secret |-> s] \in E!Draft
  BY DEF SetupInv, E!Draft
<1>. QED BY <1>1, <1>2, <1>3, <1>4, <1>5, <1>6, <1>7, <1>8 DEF E!Next

\* A node is saved as it was tested, unless the draft was edited while that test was under
\* way, whatever hosts and secrets are typed and whatever order the answers come in; and but for
\* such an edit the page names as added the node that the server has taken.
THEOREM SavedAsTested == Spec => []SavedWasTested
<1>1. Init => (part = "setup" => SetupInv)
  BY SetupInit DEF Init
<1>2. (part = "setup" => SetupInv) /\ [Next]_vars => (part = "setup" => SetupInv)'
  <2>. SUFFICES ASSUME part = "setup" => SetupInv, [Next]_vars, part' = "setup"
       PROVE  SetupInv'
    OBVIOUS
  <2>1. CASE Next
    BY <2>1, SetupNext DEF Next, OthersStay
  <2>2. CASE UNCHANGED vars
    <3>1. UNCHANGED <<part, draft, tested, formSent, outcome, added, accepted>>
      BY <2>2 DEF vars, setupVars
    <3>. QED BY <3>1 DEF SetupInv, E!SavedWasTested
  <2>. QED BY <2>1, <2>2
<1>3. (part = "setup" => SetupInv) => SavedWasTested
  BY DEF SetupInv, SavedWasTested
<1>. QED BY <1>1, <1>2, <1>3, PTL DEF Spec

-----------------------------------------------------------------------------
(* ControlPanel. *)

\* What a plan says of the operation it is for.
First(plan, op) == SubSeq(plan, 1, Len(op))

PanelType ==
  /\ defined \in [PanelContainer -> Image]
  /\ allowed \in BOOLEAN /\ busy \in BOOLEAN
  /\ picker \in [target : PanelContainer \cup {Null}, image : Image \cup {Null}]
  /\ pending # Null => pending \in [op : P!Op, plan : P!Plan]
  /\ panelReqs \in [Req -> P!Asking \cup {Null}]
  /\ panelLog \in Seq([ok : BOOLEAN, did : P!Plan \cup {Null}])

Confirmed(r) == panelReqs[r] # Null /\ panelReqs[r].sort = "confirm"

\* The page knows whether something it has confirmed is under way, and that is one request at
\* most.
BusyInv ==
  /\ busy = TRUE <=> \E r \in Req : Confirmed(r)
  /\ \A r, s \in Req : Confirmed(r) /\ Confirmed(s) => r = s

\* What is shown and what is done are of the operation that was asked for.
Tells(q, on) ==
  /\ q.did # Null => First(q.did, q.op) = q.op
  /\ q.sort = "confirm" => First(q.shown, q.op) = q.op
  /\ q.sort = "confirm" /\ q.did # Null => on = TRUE
ShownInv ==
  /\ pending # Null => First(pending.plan, pending.op) = pending.op
  /\ \A r \in Req : panelReqs[r] # Null => Tells(panelReqs[r], allowed)

NotedInv == \A i \in DOMAIN panelLog : panelLog[i].ok => panelLog[i].did # Null

PanelInv == PanelType /\ BusyInv /\ ShownInv /\ NotedInv

LEMMA PanelConstants == Null \notin P!Asking /\ LogSize \in Nat
BY ServerAssumption DEF P!PanelAssumption

LEMMA OpCases ==
  ASSUME NEW op \in P!Op
  PROVE  \/ \E action \in {"start", "stop", "restart"}, c \in PanelContainer : op = <<action, c>>
         \/ \E c \in PanelContainer, i \in Image : op = <<"swap", c, i>>
BY DEF P!Op

LEMMA FirstFacts ==
  ASSUME NEW Entries, NEW op \in Seq(Entries), NEW x \in Entries
  PROVE  First(op, op) = op /\ First(Append(op, x), op) = op
<1>1. First(op, op) = op
  BY SubSeqFull DEF First
<1>2. PICK all \in Seq(Entries) : all = Append(op, x)
  BY AppendProperties
<1>3. Len(all) = Len(op) + 1 /\ \A i \in 1..Len(op) : all[i] = op[i]
  BY <1>2, AppendProperties
<1>4. \A i \in 1..Len(op) : all[i] \in Entries
  BY <1>3
<1>5. /\ First(all, op) \in Seq(Entries) /\ Len(First(all, op)) = Len(op)
      /\ \A i \in 1..Len(op) : First(all, op)[i] = all[i]
  <2>1. Len(op) \in Nat
    OBVIOUS
  <2>2. /\ SubSeq(all, 1, Len(op)) \in Seq(Entries)
        /\ Len(SubSeq(all, 1, Len(op))) = IF 1 <= Len(op) THEN Len(op) - 1 + 1 ELSE 0
        /\ \A i \in 1..(Len(op) - 1 + 1) : SubSeq(all, 1, Len(op))[i] = all[1 + i - 1]
    BY <1>4, <2>1, SubSeqProperties
  <2>. QED BY <2>1, <2>2 DEF First
<1>6. First(all, op) = op
  BY <1>3, <1>5, SeqEqual
<1>. QED BY <1>1, <1>2, <1>6

\* The server plans what it was asked.
LEMMA PlanFacts ==
  ASSUME NEW op \in P!Op, defined \in [PanelContainer -> Image]
  PROVE  P!PlanOf(op) \in P!Plan /\ First(P!PlanOf(op), op) = op
<1>. DEFINE Entries == {"start", "stop", "restart", "swap"} \cup PanelContainer \cup Image
<1>1. ASSUME NEW action \in {"start", "stop", "restart"}, NEW c \in PanelContainer, op = <<action, c>>
      PROVE  P!PlanOf(op) \in P!Plan /\ First(P!PlanOf(op), op) = op
  <2>1. P!PlanOf(op) = op
    BY <1>1 DEF P!PlanOf
  <2>2. op \in Seq(Entries)
    BY <1>1
  <2>3. c \in Entries
    OBVIOUS
  <2>. HIDE DEF Entries
  <2>4. First(op, op) = op
    BY <2>2, <2>3, FirstFacts
  <2>. QED BY <2>1, <2>4 DEF P!Plan
<1>2. ASSUME NEW c \in PanelContainer, NEW i \in Image, op = <<"swap", c, i>>
      PROVE  P!PlanOf(op) \in P!Plan /\ First(P!PlanOf(op), op) = op
  <2>1. PICK j \in Image : j = defined[c]
    OBVIOUS
  <2>2. op[1] = "swap" /\ op[2] = c /\ op \in Seq(Entries) /\ j \in Entries
    BY <1>2
  <2>3. P!PlanOf(op) = Append(op, j)
    BY <2>1, <2>2 DEF P!PlanOf
  <2>4. Append(op, j) = <<"swap", c, i, j>>
    <3>1. <<"swap", c, i, j>> \in Seq(Entries) /\ Len(op) = 3
      BY <1>2, <2>2
    <3>. HIDE DEF Entries
    <3>2. PICK all : all = Append(op, j)
      OBVIOUS
    <3>3. /\ all \in Seq(Entries) /\ Len(all) = Len(op) + 1 /\ \A k \in 1..Len(op) : all[k] = op[k]
          /\ all[Len(op) + 1] = j
      <4>1. op \in Seq(Entries) /\ j \in Entries
        BY <2>2
      <4>. QED BY <4>1, <3>2, AppendProperties
    <3>4. Len(all) = 4 /\ all[1] = op[1] /\ all[2] = op[2] /\ all[3] = op[3] /\ all[4] = j
      BY <3>1, <3>3
    <3>5. op[1] = "swap" /\ op[2] = c /\ op[3] = i
      BY <1>2
    <3>6. PICK four \in Seq(Entries) : four = <<"swap", c, i, j>>
      BY <3>1
    <3>7. Len(four) = 4 /\ four[1] = "swap" /\ four[2] = c /\ four[3] = i /\ four[4] = j
      BY <3>6
    <3>8. \A k \in 1..Len(all) : all[k] = four[k]
      BY <3>4, <3>5, <3>7
    <3>9. all = four
      BY <3>3, <3>4, <3>7, <3>8, SeqEqual
    <3>. QED BY <3>2, <3>6, <3>9
  <2>. HIDE DEF Entries
  <2>5. First(Append(op, j), op) = op
    BY <2>2, FirstFacts
  <2>. QED BY <2>3, <2>4, <2>5 DEF P!Plan
<1>. QED BY <1>1, <1>2, OpCases

\* A note is added to the log, which keeps the last ones.
LEMMA NoteFacts ==
  ASSUME NEW ok \in BOOLEAN, NEW did \in P!Plan \cup {Null}, ok => did # Null, PanelInv, P!Note(ok, did)
  PROVE  /\ panelLog' \in Seq([ok : BOOLEAN, did : P!Plan \cup {Null}])
         /\ NotedInv'
<1>. DEFINE Entry == [ok : BOOLEAN, did : P!Plan \cup {Null}]
            new == [ok |-> ok, did |-> did]
            all == <<new>> \o panelLog
            n == P!Min({LogSize, Len(panelLog) + 1})
<1>1. panelLog \in Seq(Entry) /\ \A i \in DOMAIN panelLog : panelLog[i].ok => panelLog[i].did # Null
  BY DEF PanelInv, PanelType, NotedInv
<1>2. new \in Entry /\ (new.ok => new.did # Null)
  OBVIOUS
<1>3. n \in Nat /\ n <= Len(panelLog) + 1
  <2>1. LogSize \in Nat /\ Len(panelLog) + 1 \in Nat
    BY <1>1, PanelConstants
  <2>2. n = IF LogSize <= Len(panelLog) + 1 THEN LogSize ELSE Len(panelLog) + 1
    BY <2>1 DEF P!Min
  <2>. QED BY <2>1, <2>2
<1>4. panelLog' = SubSeq(all, 1, n)
  BY DEF P!Note
<1>. HIDE DEF Entry, new, n
<1>5. /\ all \in Seq(Entry) /\ Len(all) = Len(panelLog) + 1
      /\ \A i \in 1..Len(all) : all[i] = IF i = 1 THEN new ELSE panelLog[i - 1]
  BY <1>1, <1>2
<1>6. \A i \in 1..Len(all) : all[i].ok => all[i].did # Null
  BY <1>1, <1>2, <1>5
<1>. HIDE DEF all
<1>7. /\ panelLog' \in Seq(Entry) /\ DOMAIN panelLog' = 1..n /\ \A i \in 1..n : panelLog'[i] = all[i]
  BY <1>3, <1>4, <1>5
<1>8. \A i \in DOMAIN panelLog' : panelLog'[i].ok => panelLog'[i].did # Null
  BY <1>3, <1>5, <1>6, <1>7
<1>. QED BY <1>7, <1>8 DEF Entry, NotedInv

LEMMA PanelInit == ASSUME P!Init PROVE PanelInv
<1>1. panelLog = <<>> /\ pending = Null /\ busy = FALSE /\ \A r \in Req : panelReqs[r] = Null
  BY DEF P!Init
<1>2. PanelType
  <2>1. panelReqs \in [Req -> P!Asking \cup {Null}]
    BY DEF P!Init
  <2>2. picker \in [target : PanelContainer \cup {Null}, image : Image \cup {Null}]
    BY DEF P!Init
  <2>3. defined \in [PanelContainer -> Image] /\ allowed \in BOOLEAN
    BY DEF P!Init
  <2>4. panelLog \in Seq([ok : BOOLEAN, did : P!Plan \cup {Null}])
    BY <1>1
  <2>. QED BY <2>1, <2>2, <2>3, <2>4, <1>1 DEF PanelType
<1>3. BusyInv
  BY <1>1 DEF BusyInv, Confirmed
<1>4. ShownInv /\ NotedInv
  BY <1>1 DEF ShownInv, NotedInv
<1>. QED BY <1>2, <1>3, <1>4 DEF PanelInv

\* The page asks the server.
LEMMA AskFacts ==
  ASSUME PanelInv, NEW r \in Req, NEW sort \in {"preview", "confirm"}, NEW op \in P!Op, NEW shown \in P!Plan \cup {Null},
         sort = "confirm" => First(shown, op) = op,
         P!Ask(r, sort, op, shown), UNCHANGED <<pending, allowed>>
  PROVE  /\ panelReqs' \in [Req -> P!Asking \cup {Null}] /\ ShownInv'
         /\ panelReqs[r] = Null /\ panelReqs'[r] # Null /\ panelReqs'[r].sort = sort
         /\ \A s \in Req \ {r} : panelReqs'[s] = panelReqs[s]
<1>1. PICK q : q = [sort |-> sort, op |-> op, shown |-> shown, did |-> Null]
  OBVIOUS
<1>2. /\ q \in P!Asking /\ q.sort = sort /\ q.did = Null /\ q.op = op /\ q.shown = shown
  BY <1>1 DEF P!Asking
<1>3. q # Null
  BY <1>2, PanelConstants
<1>4. panelReqs[r] = Null /\ panelReqs' = [panelReqs EXCEPT ![r] = q]
  BY <1>1 DEF P!Ask, P!Free
<1>5. panelReqs' \in [Req -> P!Asking \cup {Null}] /\ panelReqs'[r] = q
      /\ \A s \in Req \ {r} : panelReqs'[s] = panelReqs[s]
  BY <1>2, <1>4 DEF PanelInv, PanelType
<1>6. Tells(q, allowed)
  BY <1>2 DEF Tells
<1>7. ShownInv'
  <2>1. pending' = pending /\ allowed' = allowed
    OBVIOUS
  <2>2. ASSUME NEW s \in Req, panelReqs'[s] # Null
        PROVE  Tells(panelReqs'[s], allowed)
    <3>1. CASE s = r
      BY <3>1, <1>5, <1>6
    <3>2. CASE s # r
      BY <3>2, <2>2, <1>5 DEF PanelInv, ShownInv
    <3>. QED BY <3>1, <3>2
  <2>. QED BY <2>1, <2>2 DEF PanelInv, ShownInv
<1>. QED BY <1>2, <1>3, <1>4, <1>5, <1>7

\* A request is over.
LEMMA DoneFacts ==
  ASSUME PanelInv, NEW r \in Req, panelReqs' = [panelReqs EXCEPT ![r] = Null], UNCHANGED allowed,
         pending' \in {pending, Null} \/ First(pending'.plan, pending'.op) = pending'.op
  PROVE  /\ panelReqs' \in [Req -> P!Asking \cup {Null}] /\ ShownInv'
         /\ panelReqs'[r] = Null /\ \A s \in Req \ {r} : panelReqs'[s] = panelReqs[s]
<1>1. /\ panelReqs' \in [Req -> P!Asking \cup {Null}]
      /\ panelReqs'[r] = Null /\ \A s \in Req \ {r} : panelReqs'[s] = panelReqs[s]
  BY DEF PanelInv, PanelType
<1>2. \A s \in Req : panelReqs'[s] # Null => s # r /\ panelReqs'[s] = panelReqs[s]
  BY <1>1
<1>3. \A s \in Req : panelReqs'[s] # Null => Tells(panelReqs'[s], allowed)
  BY <1>2 DEF PanelInv, ShownInv
<1>4. pending' # Null => First(pending'.plan, pending'.op) = pending'.op
  BY DEF PanelInv, ShownInv
<1>. QED BY <1>1, <1>3, <1>4 DEF ShownInv

\* A preview is asked for; one is confirmed.
LEMMA PreviewKeeps ==
  ASSUME PanelInv, NEW r \in Req, NEW op \in P!Op, P!Ask(r, "preview", op, Null),
         UNCHANGED <<defined, allowed, picker, pending, busy, panelLog>>
  PROVE  PanelInv'
<1>1. /\ panelReqs' \in [Req -> P!Asking \cup {Null}] /\ ShownInv'
      /\ panelReqs[r] = Null /\ panelReqs'[r] # Null /\ panelReqs'[r].sort = "preview"
      /\ \A s \in Req \ {r} : panelReqs'[s] = panelReqs[s]
  BY AskFacts
<1>2. \A s \in Req : Confirmed(s)' <=> Confirmed(s)
  BY <1>1 DEF Confirmed
<1>3. BusyInv'
  BY <1>2 DEF PanelInv, BusyInv
<1>4. PanelType' /\ NotedInv'
  BY <1>1 DEF PanelInv, PanelType, NotedInv
<1>. QED BY <1>1, <1>3, <1>4 DEF PanelInv

LEMMA ConfirmKeeps == ASSUME PanelInv, NEW r \in Req, P!Confirm(r) PROVE PanelInv'
<1>1. /\ pending # Null /\ busy # TRUE /\ P!Ask(r, "confirm", pending.op, pending.plan) /\ busy' = TRUE
      /\ UNCHANGED <<defined, allowed, picker, pending, panelLog>>
  BY DEF P!Confirm
<1>2. pending.op \in P!Op /\ pending.plan \in P!Plan /\ First(pending.plan, pending.op) = pending.op
  BY <1>1 DEF PanelInv, PanelType, ShownInv
<1>3. /\ panelReqs' \in [Req -> P!Asking \cup {Null}] /\ ShownInv'
      /\ panelReqs[r] = Null /\ panelReqs'[r] # Null /\ panelReqs'[r].sort = "confirm"
      /\ \A s \in Req \ {r} : panelReqs'[s] = panelReqs[s]
  BY <1>1, <1>2, AskFacts
<1>4. \A s \in Req : ~Confirmed(s)
  BY <1>1 DEF PanelInv, BusyInv
<1>5. \A s \in Req : Confirmed(s)' <=> s = r
  BY <1>3, <1>4 DEF Confirmed
<1>6. BusyInv'
  BY <1>1, <1>5 DEF BusyInv
<1>7. PanelType' /\ NotedInv'
  BY <1>1, <1>3 DEF PanelInv, PanelType, NotedInv
<1>. QED BY <1>3, <1>6, <1>7 DEF PanelInv

\* The server answers.
LEMMA ServeKeeps == ASSUME PanelInv, NEW r \in Req, P!Serve(r) PROVE PanelInv'
<1>1. /\ panelReqs[r] # Null /\ panelReqs[r].did = Null
      /\ panelReqs[r].sort = "confirm" => allowed
      /\ panelReqs' = [panelReqs EXCEPT ![r].did = P!PlanOf(panelReqs[r].op)]
      /\ UNCHANGED <<allowed, picker, pending, busy, panelLog>>
  BY DEF P!Serve, P!Free
<1>2. panelReqs \in [Req -> P!Asking \cup {Null}] /\ defined \in [PanelContainer -> Image]
  BY DEF PanelInv, PanelType
<1>3. panelReqs[r] \in P!Asking /\ Tells(panelReqs[r], allowed)
  BY <1>1, <1>2 DEF PanelInv, ShownInv
<1>4. panelReqs[r].op \in P!Op
  BY <1>3 DEF P!Asking
<1>5. PICK did \in P!Plan : did = P!PlanOf(panelReqs[r].op) /\ First(did, panelReqs[r].op) = panelReqs[r].op
  BY <1>2, <1>4, PlanFacts
<1>6. PICK q : q = [panelReqs[r] EXCEPT !.did = did]
  OBVIOUS
<1>7. /\ q \in P!Asking /\ q.op = panelReqs[r].op /\ q.sort = panelReqs[r].sort
      /\ q.shown = panelReqs[r].shown /\ q.did = did
  BY <1>3, <1>6 DEF P!Asking
<1>8. q # Null
  BY <1>7, PanelConstants
<1>9. /\ panelReqs' \in [Req -> P!Asking \cup {Null}] /\ panelReqs'[r] = q
      /\ \A s \in Req \ {r} : panelReqs'[s] = panelReqs[s]
  BY <1>1, <1>2, <1>5, <1>6, <1>7
<1>10. \A s \in Req : Confirmed(s)' <=> Confirmed(s)
  BY <1>1, <1>7, <1>8, <1>9 DEF Confirmed
<1>11. BusyInv'
  BY <1>1, <1>10 DEF PanelInv, BusyInv
<1>12. Tells(q, allowed)
  BY <1>1, <1>3, <1>5, <1>7 DEF Tells
<1>13. ShownInv'
  <2>1. ASSUME NEW s \in Req, panelReqs'[s] # Null
        PROVE  Tells(panelReqs'[s], allowed)
    BY <2>1, <1>9, <1>12 DEF PanelInv, ShownInv
  <2>. QED BY <2>1, <1>1 DEF PanelInv, ShownInv
<1>14. defined' \in [PanelContainer -> Image]
  <2>1. CASE panelReqs[r].sort = "confirm" /\ panelReqs[r].op[1] = "swap"
    <3>1. PICK c \in PanelContainer, i \in Image : panelReqs[r].op = <<"swap", c, i>>
      BY <2>1, <1>4, OpCases
    <3>2. defined' = [defined EXCEPT ![c] = i]
      BY <2>1, <3>1 DEF P!Serve
    <3>. QED BY <3>2, <1>2
  <2>2. CASE ~(panelReqs[r].sort = "confirm" /\ panelReqs[r].op[1] = "swap")
    BY <2>2, <1>2 DEF P!Serve
  <2>. QED BY <2>1, <2>2
<1>15. PanelType' /\ NotedInv'
  BY <1>1, <1>9, <1>14 DEF PanelInv, PanelType, NotedInv
<1>. QED BY <1>11, <1>13, <1>15 DEF PanelInv

\* The page hears.
LEMMA PreviewAnswersKeeps == ASSUME PanelInv, NEW r \in Req, P!PreviewAnswers(r) PROVE PanelInv'
<1>1. /\ panelReqs[r] # Null /\ panelReqs[r].sort = "preview" /\ panelReqs[r].did # Null
      /\ pending' = [op |-> panelReqs[r].op, plan |-> panelReqs[r].did]
      /\ panelReqs' = [panelReqs EXCEPT ![r] = Null]
      /\ UNCHANGED <<defined, allowed, picker, busy, panelLog>>
  BY DEF P!PreviewAnswers, P!Free
<1>2. /\ panelReqs[r].op \in P!Op /\ panelReqs[r].did \in P!Plan
      /\ First(panelReqs[r].did, panelReqs[r].op) = panelReqs[r].op
  <2>1. panelReqs[r] \in P!Asking /\ Tells(panelReqs[r], allowed)
    BY <1>1 DEF PanelInv, PanelType, ShownInv
  <2>. QED BY <2>1, <1>1 DEF P!Asking, Tells
<1>3. /\ pending' \in [op : P!Op, plan : P!Plan]
      /\ First(pending'.plan, pending'.op) = pending'.op
  <2>1. pending'.plan = panelReqs[r].did /\ pending'.op = panelReqs[r].op
    BY <1>1
  <2>. QED BY <2>1, <1>1, <1>2
<1>4. /\ panelReqs' \in [Req -> P!Asking \cup {Null}] /\ ShownInv'
      /\ panelReqs'[r] = Null /\ \A s \in Req \ {r} : panelReqs'[s] = panelReqs[s]
  BY <1>1, <1>3, DoneFacts
<1>5. \A s \in Req : Confirmed(s)' <=> Confirmed(s)
  BY <1>1, <1>4 DEF Confirmed
<1>6. BusyInv'
  BY <1>1, <1>5 DEF PanelInv, BusyInv
<1>7. PanelType' /\ NotedInv'
  BY <1>1, <1>3, <1>4 DEF PanelInv, PanelType, NotedInv
<1>. QED BY <1>4, <1>6, <1>7 DEF PanelInv

LEMMA PreviewFailsKeeps ==
  ASSUME PanelInv, NEW r \in Req, NEW answered \in BOOLEAN, P!PreviewFails(r, answered)
  PROVE  PanelInv'
<1>1. /\ panelReqs[r] # Null /\ panelReqs[r].sort = "preview"
      /\ panelReqs' = [panelReqs EXCEPT ![r] = Null]
      /\ UNCHANGED <<defined, allowed, picker, pending, busy>>
      /\ P!Note(FALSE, Null) \/ panelLog' = panelLog
  BY DEF P!PreviewFails, P!Free
<1>2. panelLog' \in Seq([ok : BOOLEAN, did : P!Plan \cup {Null}]) /\ NotedInv'
  <2>1. CASE P!Note(FALSE, Null)
    BY <2>1, NoteFacts
  <2>2. CASE panelLog' = panelLog
    BY <2>2 DEF PanelInv, PanelType, NotedInv
  <2>. QED BY <2>1, <2>2, <1>1
<1>3. /\ panelReqs' \in [Req -> P!Asking \cup {Null}] /\ ShownInv'
      /\ panelReqs'[r] = Null /\ \A s \in Req \ {r} : panelReqs'[s] = panelReqs[s]
  BY <1>1, DoneFacts
<1>4. \A s \in Req : Confirmed(s)' <=> Confirmed(s)
  BY <1>1, <1>3 DEF Confirmed
<1>5. BusyInv'
  BY <1>1, <1>4 DEF PanelInv, BusyInv
<1>6. PanelType'
  BY <1>1, <1>2, <1>3 DEF PanelInv, PanelType
<1>. QED BY <1>2, <1>3, <1>5, <1>6 DEF PanelInv

LEMMA ConfirmAnswersKeeps ==
  ASSUME PanelInv, NEW r \in Req, NEW ok \in BOOLEAN, P!ConfirmAnswers(r, ok)
  PROVE  PanelInv'
<1>1. /\ panelReqs[r] # Null /\ panelReqs[r].sort = "confirm" /\ (ok => panelReqs[r].did # Null)
      /\ P!Note(ok, panelReqs[r].did) /\ busy' = FALSE /\ pending' = Null
      /\ panelReqs' = [panelReqs EXCEPT ![r] = Null]
      /\ UNCHANGED <<defined, allowed, picker>>
  BY DEF P!ConfirmAnswers, P!Free
<1>2. PICK did : did = panelReqs[r].did
  OBVIOUS
<1>3. did \in P!Plan \cup {Null}
  BY <1>1, <1>2 DEF PanelInv, PanelType, P!Asking
<1>4. P!Note(ok, did) /\ (ok => did # Null)
  BY <1>1, <1>2
<1>5. panelLog' \in Seq([ok : BOOLEAN, did : P!Plan \cup {Null}]) /\ NotedInv'
  BY <1>3, <1>4, NoteFacts
<1>6. /\ panelReqs' \in [Req -> P!Asking \cup {Null}] /\ ShownInv'
      /\ panelReqs'[r] = Null /\ \A s \in Req \ {r} : panelReqs'[s] = panelReqs[s]
  BY <1>1, DoneFacts
<1>7. \A s \in Req : Confirmed(s) => s = r
  BY <1>1 DEF PanelInv, BusyInv, Confirmed
<1>8. \A s \in Req : ~Confirmed(s)'
  BY <1>6, <1>7 DEF Confirmed
<1>9. BusyInv'
  BY <1>1, <1>8 DEF BusyInv
<1>10. PanelType'
  BY <1>1, <1>5, <1>6 DEF PanelInv, PanelType
<1>. QED BY <1>5, <1>6, <1>9, <1>10 DEF PanelInv

\* Steps that leave what is asked as it is.
LEMMA AsideKeeps ==
  ASSUME PanelInv, UNCHANGED <<allowed, busy, panelReqs, panelLog>>, pending' \in {pending, Null},
         defined' \in [PanelContainer -> Image], picker' \in [target : PanelContainer \cup {Null}, image : Image \cup {Null}]
  PROVE  PanelInv'
<1>1. PanelType' /\ NotedInv'
  BY DEF PanelInv, PanelType, NotedInv
<1>2. \A s \in Req : Confirmed(s)' <=> Confirmed(s)
  BY DEF Confirmed
<1>3. BusyInv'
  BY <1>2 DEF PanelInv, BusyInv
<1>4. ShownInv'
  BY DEF PanelInv, ShownInv
<1>. QED BY <1>1, <1>3, <1>4 DEF PanelInv

LEMMA PanelNext == ASSUME PanelInv, P!Next PROVE PanelInv'
<1>1. /\ picker \in [target : PanelContainer \cup {Null}, image : Image \cup {Null}]
      /\ defined \in [PanelContainer -> Image]
  BY DEF PanelInv, PanelType
<1>2. ASSUME NEW known \in BOOLEAN, P!Learn(known) PROVE PanelInv'
  BY <1>1, <1>2, AsideKeeps DEF P!Learn
<1>3. ASSUME NEW c \in PanelContainer, P!Pick(c) PROVE PanelInv'
  <2>1. picker' \in [target : PanelContainer \cup {Null}, image : Image \cup {Null}]
    BY <1>1, <1>3 DEF P!Pick
  <2>. QED BY <2>1, <1>1, <1>3, AsideKeeps DEF P!Pick
<1>4. ASSUME NEW i \in Image, P!TypeImage(i) PROVE PanelInv'
  <2>1. picker' \in [target : PanelContainer \cup {Null}, image : Image \cup {Null}]
    BY <1>1, <1>4 DEF P!TypeImage
  <2>. QED BY <2>1, <1>1, <1>4, AsideKeeps DEF P!TypeImage
<1>5. ASSUME NEW r \in Req, NEW op \in P!Op, P!PreviewAction(r, op) PROVE PanelInv'
  BY <1>5, PreviewKeeps DEF P!PreviewAction
<1>6. ASSUME NEW r \in Req, P!PreviewSwap(r) PROVE PanelInv'
  <2>1. PICK c \in PanelContainer, i \in Image : c = picker.target /\ i = picker.image
    BY <1>1, <1>6 DEF P!PreviewSwap
  <2>2. <<"swap", c, i>> \in P!Op
    BY DEF P!Op
  <2>3. /\ P!Ask(r, "preview", <<"swap", c, i>>, Null)
        /\ UNCHANGED <<defined, allowed, picker, pending, busy, panelLog>>
    BY <1>6, <2>1 DEF P!PreviewSwap
  <2>. QED BY <2>2, <2>3, PreviewKeeps
<1>7. CASE P!Cancel
  BY <1>1, <1>7, AsideKeeps DEF P!Cancel
<1>8. ASSUME NEW c \in PanelContainer, NEW i \in Image, P!Elsewhere(c, i) PROVE PanelInv'
  <2>1. defined' \in [PanelContainer -> Image]
    BY <1>1, <1>8 DEF P!Elsewhere
  <2>. QED BY <2>1, <1>1, <1>8, AsideKeeps DEF P!Elsewhere
<1>. QED BY <1>2, <1>3, <1>4, <1>5, <1>6, <1>7, <1>8, ServeKeeps, PreviewAnswersKeeps, PreviewFailsKeeps,
            ConfirmKeeps, ConfirmAnswersKeeps DEF P!Next

\* One operation is under way at a time, and the page knows it.
LEMMA PanelTells == ASSUME PanelInv PROVE P!ConfirmedWasShown
<1>. DEFINE confirmed == {r \in Req : ~P!Free(r) /\ panelReqs[r].sort = "confirm"}
<1>1. \A r : r \in confirmed <=> r \in Req /\ Confirmed(r)
  BY DEF Confirmed, P!Free
<1>2. P!Cardinality(confirmed) = IF busy THEN 1 ELSE 0
  <2>0. P!Cardinality(confirmed) = Cardinality(confirmed)
    BY DEF P!Cardinality, Cardinality
  <2>1. CASE busy = TRUE
    <3>1. PICK r \in Req : Confirmed(r)
      BY <2>1 DEF PanelInv, BusyInv
    <3>2. confirmed = {r}
      BY <3>1, <1>1 DEF PanelInv, BusyInv
    <3>3. Cardinality({r}) = 1
      BY FS_Singleton
    <3>. QED BY <2>0, <2>1, <3>2, <3>3
  <2>2. CASE busy = FALSE
    <3>1. confirmed = {}
      BY <2>2, <1>1 DEF PanelInv, BusyInv
    <3>2. Cardinality({}) = 0
      BY FS_EmptySet
    <3>. QED BY <2>0, <2>2, <3>1, <3>2
  <2>. QED BY <2>1, <2>2 DEF PanelInv, PanelType
<1>3. ASSUME NEW r \in confirmed, panelReqs[r].did # Null
      PROVE  /\ allowed
             /\ SubSeq(panelReqs[r].did, 1, Len(panelReqs[r].op)) = SubSeq(panelReqs[r].shown, 1, Len(panelReqs[r].op))
  <2>1. Tells(panelReqs[r], allowed) /\ panelReqs[r].sort = "confirm"
    BY <1>1, <1>3 DEF PanelInv, ShownInv, Confirmed
  <2>. QED BY <2>1, <1>3 DEF Tells, First
<1>4. \A i \in DOMAIN panelLog : panelLog[i].ok => panelLog[i].did # Null
  BY DEF PanelInv, NotedInv
<1>. QED BY <1>2, <1>3, <1>4 DEF P!ConfirmedWasShown

\* Nothing is carried out that the dialog did not show before it was confirmed, and the page
\* knows of the one operation under way, for any containers, images and requests, whatever
\* dialogs were closed and opened and whatever order the answers came in.
THEOREM ShownBeforeDone == Spec => []ConfirmedWasShown
<1>1. Init => (part = "panel" => PanelInv)
  BY PanelInit DEF Init
<1>2. (part = "panel" => PanelInv) /\ [Next]_vars => (part = "panel" => PanelInv)'
  <2>. SUFFICES ASSUME part = "panel" => PanelInv, [Next]_vars, part' = "panel"
       PROVE  PanelInv'
    OBVIOUS
  <2>1. CASE Next
    BY <2>1, PanelNext DEF Next, OthersStay
  <2>2. CASE UNCHANGED vars
    <3>1. UNCHANGED <<part, defined, allowed, picker, pending, busy, panelReqs, panelLog>>
      BY <2>2 DEF vars, panelVars
    <3>2. PanelInv
      BY <2>2, <3>1
    <3>. QED BY <3>1, <3>2, AsideKeeps DEF PanelInv, PanelType
  <2>. QED BY <2>1, <2>2
<1>3. (part = "panel" => PanelInv) => ConfirmedWasShown
  BY PanelTells DEF ConfirmedWasShown
<1>. QED BY <1>1, <1>2, <1>3, PTL DEF Spec

-----------------------------------------------------------------------------
(* ConnectionTest. *)

LEMMA TestConstants ==
  /\ \A h \in Hosts :
       /\ h.gpus \in Seq({h.gpus[i] : i \in DOMAIN h.gpus}) /\ h.ports \in Seq({h.ports[i] : i \in DOMAIN h.ports})
       /\ h.docker \in {"OK", "DENIED", "MISSING"}
       /\ \A n \in 0..Len(T!Output(h)) : T!Found(SubSeq(T!Output(h), 1, n)) # Null
  /\ \A e \in T!Reasons : T!Failed(e) # Null
BY ServerAssumption DEF T!TestAssumption

\* A header and the lines under it.
LEMMA SectionIs ==
  ASSUME NEW name, NEW Z, NEW lines \in Seq(Z), NEW s, s = T!Section(name, lines)
  PROVE  /\ s \in Seq({T!Header(name)} \cup {<<"line", z>> : z \in Z}) /\ Len(s) = Len(lines) + 1
         /\ s[1] = T!Header(name) /\ \A i \in 1..Len(lines) : s[i + 1] = <<"line", lines[i]>>
<1>. DEFINE Line == {T!Header(name)} \cup {<<"line", z>> : z \in Z}
            body == [i \in DOMAIN lines |-> <<"line", lines[i]>>]
<1>1. /\ Len(lines) \in Nat /\ DOMAIN lines = 1..Len(lines) /\ \A i \in 1..Len(lines) : lines[i] \in Z
  OBVIOUS
<1>2. body \in Seq(Line) /\ Len(body) = Len(lines) /\ \A i \in 1..Len(lines) : body[i] = <<"line", lines[i]>>
  BY <1>1
<1>3. <<T!Header(name)>> \in Seq(Line) /\ Len(<<T!Header(name)>>) = 1 /\ <<T!Header(name)>>[1] = T!Header(name)
  OBVIOUS
<1>4. s = <<T!Header(name)>> \o body
  BY DEF T!Section
<1>. HIDE DEF Line, body
<1>5. s \in Seq(Line) /\ Len(s) = Len(lines) + 1 /\ s[1] = T!Header(name) /\ \A i \in 1..Len(lines) : s[i + 1] = body[i]
  BY <1>1, <1>2, <1>3, <1>4, ConcatProperties
<1>. QED BY <1>2, <1>5 DEF Line

\* What is between a position and the next header.
Below(out, at) ==
  LET next == {i \in at + 1..Len(out) : out[i][1] = "header"}
      last == IF next # {} THEN T!Min(next) ELSE 0
      lines == IF at = 0 THEN <<>> ELSE SubSeq(out, at + 1, IF last = 0 THEN Len(out) ELSE last - 1)
  IN [i \in DOMAIN lines |-> lines[i][2]]
Headers(out, name) == {i \in 1..Len(out) : out[i] = T!Header(name)}

LEMMA UnderIsBelow ==
  ASSUME NEW out, NEW name
  PROVE  T!Under(out, name) = Below(out, IF Headers(out, name) # {} THEN T!Min(Headers(out, name)) ELSE 0)
BY DEF T!Under, T!SelectInSeq, T!SelectInSubSeq, Below, Headers

\* A header at s, and the next one, or the end, at e.
Between(out, name, s, e) ==
  /\ s \in 1..Len(out) /\ e \in Nat /\ s < e /\ e <= Len(out) + 1
  /\ out[s] = T!Header(name) /\ \A i \in 1..(s - 1) : out[i] # T!Header(name)
  /\ \A i \in (s + 1)..(e - 1) : out[i][1] # "header"
  /\ e <= Len(out) => out[e][1] = "header"

\* What is found under a header that came: up to the next one, or to the end.
LEMMA UnderIs ==
  ASSUME NEW Z, NEW out \in Seq(Z), NEW name, NEW s, NEW e, Between(out, name, s, e)
  PROVE  T!Under(out, name) = [i \in 1..(e - s - 1) |-> out[s + i][2]]
<1>. DEFINE J == {i \in (s + 1)..Len(out) : out[i][1] = "header"}
            next == IF J # {} THEN T!Min(J) ELSE 0
            last == IF next = 0 THEN Len(out) ELSE next - 1
            lines == IF s = 0 THEN <<>> ELSE SubSeq(out, s + 1, last)
<1>0. /\ s \in 1..Len(out) /\ e \in Nat /\ s < e /\ e <= Len(out) + 1
      /\ out[s] = T!Header(name) /\ \A i \in 1..(s - 1) : out[i] # T!Header(name)
      /\ \A i \in (s + 1)..(e - 1) : out[i][1] # "header"
      /\ e <= Len(out) => out[e][1] = "header"
  BY DEF Between
<1>1. s \in Headers(out, name) /\ \A i \in Headers(out, name) : s <= i
  BY <1>0 DEF Headers
<1>2. T!Min(Headers(out, name)) = s
  BY <1>0, <1>1 DEF T!Min, Headers
<1>3. T!Under(out, name) = Below(out, s)
  BY <1>1, <1>2, UnderIsBelow
<1>4. T!Under(out, name) = [i \in DOMAIN lines |-> lines[i][2]]
  BY <1>3 DEF Below
<1>5. last = e - 1
  <2>1. CASE e <= Len(out)
    <3>1. e \in J /\ \A i \in J : e <= i
      BY <1>0, <2>1
    <3>2. T!Min(J) = e
      BY <3>1 DEF T!Min
    <3>. QED BY <1>0, <3>1, <3>2
  <2>2. CASE e = Len(out) + 1
    <3>1. J = {}
      BY <1>0, <2>2
    <3>. QED BY <2>2, <3>1
  <2>. QED BY <1>0, <2>1, <2>2
<1>. HIDE DEF last
<1>6. lines = SubSeq(out, s + 1, e - 1)
  BY <1>0, <1>5
<1>. HIDE DEF lines
<1>7. lines = [i \in 1..(e - s - 1) |-> out[s + i]]
  BY <1>0, <1>6
<1>. QED BY <1>4, <1>7

LEMMA UnderNone ==
  ASSUME NEW Z, NEW out \in Seq(Z), NEW name, \A i \in 1..Len(out) : out[i] # T!Header(name)
  PROVE  T!Under(out, name) = <<>>
<1>1. Headers(out, name) = {}
  BY DEF Headers
<1>2. T!Under(out, name) = Below(out, 0)
  BY <1>1, UnderIsBelow
<1>3. Below(out, 0) = [i \in DOMAIN <<>> |-> <<>>[i][2]]
  BY DEF Below
<1>4. [i \in DOMAIN <<>> |-> <<>>[i][2]] = <<>>
  OBVIOUS
<1>. QED BY <1>2, <1>3, <1>4

\* The lines under one header of the whole output, and those of them that came.
Came(u, lines) == DOMAIN u = 1..Len(u) /\ Len(u) \in 0..Len(lines) /\ \A i \in 1..Len(u) : u[i] = lines[i]

SectionAt(full, name, s, lines) ==
  /\ full[s] = T!Header(name) /\ \A i \in 1..(s - 1) : full[i] # T!Header(name)
  /\ \A i \in 1..Len(lines) : full[s + i] = <<"line", lines[i]>>
  /\ s + Len(lines) < Len(full) => full[s + Len(lines) + 1][1] = "header"

LEMMA CutAt ==
  ASSUME NEW n \in Nat, NEW m \in Nat, NEW s \in Nat, NEW k \in Nat, NEW e, 1 <= s, s <= n, n <= m, s + k <= m,
         e = IF s + k <= n THEN s + k + 1 ELSE n + 1
  PROVE  /\ e \in Nat /\ s < e /\ e <= n + 1 /\ e - s - 1 \in 0..k /\ (n = m => e - s - 1 = k)
         /\ e <= n => e = s + k + 1 /\ s + k < m
         /\ s \in 1..n /\ \A i \in 1..(s - 1) : i \in 1..n
         /\ \A i \in 1..(e - s - 1) : i \in 1..k /\ s + i \in 1..n
         /\ \A i \in (s + 1)..(e - 1) : i - s \in 1..(e - s - 1) /\ i = s + (i - s)
OBVIOUS

LEMMA CameUnder ==
  ASSUME NEW Z, NEW full \in Seq(Z), NEW n \in 0..Len(full), NEW name, NEW s \in 1..Len(full), NEW lines,
         Len(lines) \in Nat, s + Len(lines) <= Len(full), SectionAt(full, name, s, lines)
  PROVE  LET u == T!Under(SubSeq(full, 1, n), name)
         IN Came(u, lines) /\ (n = Len(full) => Len(u) = Len(lines))
<1>1. PICK out : out = SubSeq(full, 1, n)
  OBVIOUS
<1>2. out \in Seq(Z) /\ Len(out) = n /\ \A i \in 1..n : out[i] = full[i]
  BY <1>1, SubSeqProperties
<1>3. PICK e : e = IF s + Len(lines) <= n THEN s + Len(lines) + 1 ELSE n + 1
  OBVIOUS
<1>4. CASE n < s
  <2>1. \A i \in 1..n : i \in 1..(s - 1)
    BY <1>4
  <2>2. \A i \in 1..Len(out) : out[i] # T!Header(name)
    BY <1>2, <2>1 DEF SectionAt
  <2>3. T!Under(out, name) = <<>>
    BY <1>2, <2>2, UnderNone
  <2>. QED BY <1>1, <1>4, <2>3 DEF Came
<1>5. CASE s <= n
  <2>. DEFINE k == e - s - 1
  <2>1. /\ e \in Nat /\ s < e /\ e <= n + 1 /\ k \in 0..Len(lines) /\ (n = Len(full) => k = Len(lines))
        /\ e <= n => e = s + Len(lines) + 1 /\ s + Len(lines) < Len(full)
        /\ s \in 1..n /\ \A i \in 1..(s - 1) : i \in 1..n
        /\ \A i \in 1..k : i \in 1..Len(lines) /\ s + i \in 1..n
        /\ \A i \in (s + 1)..(e - 1) : i - s \in 1..k /\ i = s + (i - s)
    BY <1>3, <1>5, CutAt
  <2>. HIDE DEF k
  <2>2. s \in 1..Len(out) /\ out[s] = T!Header(name) /\ \A i \in 1..(s - 1) : out[i] # T!Header(name)
    BY <1>2, <2>1 DEF SectionAt
  <2>3. \A i \in 1..k : out[s + i] = <<"line", lines[i]>>
    BY <1>2, <2>1 DEF SectionAt
  <2>4. \A i \in (s + 1)..(e - 1) : out[i][1] # "header"
    <3>1. SUFFICES ASSUME NEW i \in (s + 1)..(e - 1) PROVE out[i][1] # "header"
      OBVIOUS
    <3>2. PICK j \in 1..k : j = i - s /\ i = s + j
      BY <2>1
    <3>3. out[i] = <<"line", lines[j]>>
      BY <2>3, <3>2
    <3>. QED BY <3>3
  <2>5. e <= Len(out) => out[e][1] = "header"
    <3>1. SUFFICES ASSUME e <= n PROVE out[e][1] = "header"
      BY <1>2
    <3>2. e \in 1..n
      BY <2>1, <3>1
    <3>. QED BY <1>2, <2>1, <3>1, <3>2 DEF SectionAt
  <2>6. PICK u : u = T!Under(out, name)
    OBVIOUS
  <2>7. u = [i \in 1..k |-> out[s + i][2]]
    <3>1. out \in Seq(Z) /\ e \in Nat /\ s < e /\ e <= Len(out) + 1
      BY <1>2, <2>1
    <3>2. Between(out, name, s, e)
      BY <2>2, <2>4, <2>5, <3>1 DEF Between
    <3>3. T!Under(out, name) = [i \in 1..(e - s - 1) |-> out[s + i][2]]
      BY <1>2, <3>2, UnderIs
    <3>. QED BY <2>6, <3>3 DEF k
  <2>8. k \in Nat
    BY <2>1
  <2>9. DOMAIN u = 1..k /\ Len(u) = k
    BY <2>7, <2>8
  <2>10. \A i \in 1..k : u[i] = lines[i]
    BY <2>3, <2>7
  <2>. QED BY <1>1, <2>1, <2>6, <2>9, <2>10 DEF Came
<1>6. n \in Nat /\ s \in Nat
  OBVIOUS
<1>. QED BY <1>4, <1>5, <1>6

\* The names of the sections are told apart, and so are headers and lines.
LEMMA HeadersDiffer ==
  /\ \A name : T!Header(name)[1] = "header"
  /\ \A name, z : <<"line", z>> # T!Header(name)
  /\ T!Header("host") # T!Header("gpu") /\ T!Header("host") # T!Header("fabric") /\ T!Header("host") # T!Header("docker")
  /\ T!Header("gpu") # T!Header("fabric") /\ T!Header("gpu") # T!Header("docker") /\ T!Header("fabric") # T!Header("docker")
<1>1. \A name : T!Header(name) = <<"header", name>>
  BY DEF T!Header
<1>2. \A name, z : <<"line", z>>[1] = "line" /\ T!Header(name)[1] = "header" /\ T!Header(name)[2] = name
  BY <1>1
<1>. QED BY <1>2

\* Two parts of an output one after the other: what is where in the first stays, what is in the
\* second comes after it.
Apart(full, name) == \A i \in 1..Len(full) : full[i] # T!Header(name)

LEMMA SectionAlone ==
  ASSUME NEW name, NEW Z, NEW lines \in Seq(Z)
  PROVE  LET s == T!Section(name, lines)
         IN /\ SectionAt(s, name, 1, lines) /\ s[1][1] = "header" /\ 1 + Len(lines) = Len(s) /\ Len(lines) \in Nat
            /\ s \in Seq({T!Header(name)} \cup {<<"line", z>> : z \in Z})
            /\ \A other : T!Header(other) # T!Header(name) => Apart(s, other)
<1>1. PICK s : s = T!Section(name, lines)
  OBVIOUS
<1>2. /\ s \in Seq({T!Header(name)} \cup {<<"line", z>> : z \in Z}) /\ Len(s) = Len(lines) + 1
      /\ s[1] = T!Header(name) /\ \A i \in 1..Len(lines) : s[i + 1] = <<"line", lines[i]>>
  BY <1>1, SectionIs
<1>3. Len(lines) \in Nat
  OBVIOUS
<1>4. SectionAt(s, name, 1, lines)
  <2>1. \A i \in 1..Len(lines) : s[1 + i] = <<"line", lines[i]>>
    BY <1>2, <1>3
  <2>2. 1 + Len(lines) = Len(s)
    BY <1>2, <1>3
  <2>. QED BY <1>2, <1>3, <2>1, <2>2 DEF SectionAt
<1>5. ASSUME NEW other, T!Header(other) # T!Header(name) PROVE Apart(s, other)
  <2>1. SUFFICES ASSUME NEW i \in 1..Len(s) PROVE s[i] # T!Header(other)
    BY DEF Apart
  <2>2. CASE i = 1
    BY <1>2, <1>5, <2>2
  <2>3. CASE i # 1
    <3>1. i - 1 \in 1..Len(lines) /\ (i - 1) + 1 = i
      BY <1>2, <1>3, <2>3
    <3>2. s[i] = <<"line", lines[i - 1]>>
      BY <1>2, <3>1
    <3>. QED BY <3>2, HeadersDiffer
  <2>. QED BY <2>2, <2>3
<1>6. s[1][1] = "header"
  BY <1>2, HeadersDiffer
<1>. QED BY <1>1, <1>2, <1>3, <1>4, <1>5, <1>6

LEMMA SectionBefore ==
  ASSUME NEW Z, NEW a \in Seq(Z), NEW b \in Seq(Z), NEW name, NEW s \in 1..Len(a), NEW lines, Len(lines) \in Nat,
         s + Len(lines) <= Len(a), SectionAt(a, name, s, lines), b # <<>> => b[1][1] = "header"
  PROVE  SectionAt(a \o b, name, s, lines)
<1>1. PICK full : full = a \o b
  OBVIOUS
<1>2. /\ full \in Seq(Z) /\ Len(full) = Len(a) + Len(b) /\ \A i \in 1..Len(a) : full[i] = a[i]
      /\ \A i \in (Len(a) + 1)..(Len(a) + Len(b)) : full[i] = b[i - Len(a)]
  BY <1>1, ConcatProperties
<1>3. Len(a) \in Nat /\ Len(b) \in Nat
  OBVIOUS
<1>4. full[s] = T!Header(name) /\ \A i \in 1..(s - 1) : full[i] # T!Header(name)
  <2>1. \A i \in 1..(s - 1) : i \in 1..Len(a)
    BY <1>3
  <2>. QED BY <1>2, <2>1 DEF SectionAt
<1>5. \A i \in 1..Len(lines) : full[s + i] = <<"line", lines[i]>>
  <2>1. \A i \in 1..Len(lines) : s + i \in 1..Len(a)
    BY <1>3
  <2>. QED BY <1>2, <2>1 DEF SectionAt
<1>6. ASSUME s + Len(lines) < Len(full) PROVE full[s + Len(lines) + 1][1] = "header"
  <2>1. CASE s + Len(lines) < Len(a)
    <3>1. s + Len(lines) + 1 \in 1..Len(a)
      BY <1>3, <2>1
    <3>. QED BY <1>2, <2>1, <3>1 DEF SectionAt
  <2>2. CASE s + Len(lines) = Len(a)
    <3>1. Len(a) + 1 \in (Len(a) + 1)..(Len(a) + Len(b)) /\ (Len(a) + 1) - Len(a) = 1 /\ b # <<>>
      BY <1>2, <1>3, <1>6, <2>2
    <3>2. full[Len(a) + 1] = b[1]
      BY <1>2, <3>1
    <3>. QED BY <2>2, <3>1, <3>2
  <2>. QED BY <1>3, <2>1, <2>2
<1>. QED BY <1>1, <1>4, <1>5, <1>6 DEF SectionAt

LEMMA SectionAfter ==
  ASSUME NEW Z, NEW a \in Seq(Z), NEW b \in Seq(Z), NEW name, NEW s \in 1..Len(b), NEW lines, Len(lines) \in Nat,
         s + Len(lines) <= Len(b), SectionAt(b, name, s, lines), Apart(a, name)
  PROVE  SectionAt(a \o b, name, Len(a) + s, lines)
<1>1. PICK full : full = a \o b
  OBVIOUS
<1>2. /\ full \in Seq(Z) /\ Len(full) = Len(a) + Len(b) /\ \A i \in 1..Len(a) : full[i] = a[i]
      /\ \A i \in 1..Len(b) : full[Len(a) + i] = b[i]
  <2>1. /\ full \in Seq(Z) /\ Len(full) = Len(a) + Len(b) /\ \A i \in 1..Len(a) : full[i] = a[i]
        /\ \A i \in (Len(a) + 1)..(Len(a) + Len(b)) : full[i] = b[i - Len(a)]
    BY <1>1, ConcatProperties
  <2>2. \A i \in 1..Len(b) : Len(a) + i \in (Len(a) + 1)..(Len(a) + Len(b)) /\ (Len(a) + i) - Len(a) = i
    OBVIOUS
  <2>. QED BY <2>1, <2>2
<1>3. Len(a) \in Nat /\ Len(b) \in Nat
  OBVIOUS
<1>4. full[Len(a) + s] = T!Header(name) /\ \A i \in 1..((Len(a) + s) - 1) : full[i] # T!Header(name)
  <2>1. SUFFICES ASSUME NEW i \in 1..((Len(a) + s) - 1) PROVE full[i] # T!Header(name)
    BY <1>2 DEF SectionAt
  <2>2. CASE i <= Len(a)
    <3>1. i \in 1..Len(a)
      BY <1>3, <2>2
    <3>. QED BY <1>2, <3>1 DEF Apart
  <2>3. CASE i > Len(a)
    <3>1. PICK j \in 1..(s - 1) : Len(a) + j = i
      BY <1>3, <2>3
    <3>2. j \in 1..Len(b)
      BY <1>3
    <3>. QED BY <1>2, <3>1, <3>2 DEF SectionAt
  <2>. QED BY <1>3, <2>2, <2>3
<1>5. \A i \in 1..Len(lines) : full[(Len(a) + s) + i] = <<"line", lines[i]>>
  <2>1. \A i \in 1..Len(lines) : s + i \in 1..Len(b) /\ (Len(a) + s) + i = Len(a) + (s + i)
    BY <1>3
  <2>. QED BY <1>2, <2>1 DEF SectionAt
<1>6. ASSUME (Len(a) + s) + Len(lines) < Len(full) PROVE full[(Len(a) + s) + Len(lines) + 1][1] = "header"
  <2>1. s + Len(lines) < Len(b) /\ s + Len(lines) + 1 \in 1..Len(b)
        /\ (Len(a) + s) + Len(lines) + 1 = Len(a) + (s + Len(lines) + 1)
    BY <1>2, <1>3, <1>6
  <2>. QED BY <1>2, <2>1 DEF SectionAt
<1>. QED BY <1>1, <1>4, <1>5, <1>6 DEF SectionAt

LEMMA ApartBoth ==
  ASSUME NEW Z, NEW a \in Seq(Z), NEW b \in Seq(Z), NEW name, Apart(a, name), Apart(b, name)
  PROVE  Apart(a \o b, name)
<1>1. PICK full : full = a \o b
  OBVIOUS
<1>2. /\ full \in Seq(Z) /\ Len(full) = Len(a) + Len(b) /\ \A i \in 1..Len(a) : full[i] = a[i]
      /\ \A i \in (Len(a) + 1)..(Len(a) + Len(b)) : full[i] = b[i - Len(a)]
  BY <1>1, ConcatProperties
<1>3. \A i \in 1..(Len(a) + Len(b)) : i \in 1..Len(a) \/ (i \in (Len(a) + 1)..(Len(a) + Len(b)) /\ i - Len(a) \in 1..Len(b))
  OBVIOUS
<1>. QED BY <1>1, <1>2, <1>3 DEF Apart

\* An output with a section.
Has(full, name, lines) ==
  \E s \in 1..Len(full) : s + Len(lines) <= Len(full) /\ SectionAt(full, name, s, lines)

LEMMA HasEither ==
  ASSUME NEW Z, NEW a \in Seq(Z), NEW b \in Seq(Z), NEW name, NEW lines, Len(lines) \in Nat
  PROVE  /\ Has(a, name, lines) /\ b # <<>> /\ b[1][1] = "header" => Has(a \o b, name, lines)
         /\ Has(b, name, lines) /\ Apart(a, name) => Has(a \o b, name, lines)
<1>1. PICK full : full = a \o b
  OBVIOUS
<1>2. Len(full) = Len(a) + Len(b) /\ Len(a) \in Nat /\ Len(b) \in Nat
  BY <1>1, ConcatProperties
<1>3. ASSUME Has(a, name, lines), b[1][1] = "header" PROVE Has(full, name, lines)
  <2>1. PICK s \in 1..Len(a) : s + Len(lines) <= Len(a) /\ SectionAt(a, name, s, lines)
    BY <1>3 DEF Has
  <2>2. SectionAt(full, name, s, lines)
    BY <1>1, <1>3, <2>1, SectionBefore
  <2>3. s \in 1..Len(full) /\ s + Len(lines) <= Len(full)
    BY <1>2, <2>1
  <2>. QED BY <2>2, <2>3 DEF Has
<1>4. ASSUME Has(b, name, lines), Apart(a, name) PROVE Has(full, name, lines)
  <2>1. PICK s \in 1..Len(b) : s + Len(lines) <= Len(b) /\ SectionAt(b, name, s, lines)
    BY <1>4 DEF Has
  <2>2. SectionAt(full, name, Len(a) + s, lines)
    BY <1>1, <1>4, <2>1, SectionAfter
  <2>3. Len(a) + s \in 1..Len(full) /\ (Len(a) + s) + Len(lines) <= Len(full)
    BY <1>2, <2>1
  <2>. QED BY <2>2, <2>3 DEF Has
<1>. QED BY <1>1, <1>3, <1>4

LEMMA SectionHas ==
  ASSUME NEW name, NEW Z, NEW lines \in Seq(Z)
  PROVE  LET s == T!Section(name, lines)
         IN /\ Has(s, name, lines) /\ s # <<>> /\ s[1][1] = "header" /\ Len(lines) \in Nat
            /\ s \in Seq({T!Header(name)} \cup {<<"line", z>> : z \in Z})
            /\ \A other : T!Header(other) # T!Header(name) => Apart(s, other)
<1>1. PICK s : s = T!Section(name, lines)
  OBVIOUS
<1>2. /\ SectionAt(s, name, 1, lines) /\ s[1][1] = "header" /\ 1 + Len(lines) = Len(s) /\ Len(lines) \in Nat
      /\ s \in Seq({T!Header(name)} \cup {<<"line", z>> : z \in Z})
      /\ \A other : T!Header(other) # T!Header(name) => Apart(s, other)
  BY <1>1, SectionAlone
<1>3. s # <<>> /\ 1 \in 1..Len(s) /\ 1 + Len(lines) <= Len(s)
  BY <1>2
<1>4. Has(s, name, lines)
  BY <1>2, <1>3 DEF Has
<1>. QED BY <1>1, <1>2, <1>3, <1>4

LEMMA PartsJoined ==
  ASSUME NEW Z, NEW a \in Seq(Z), NEW b \in Seq(Z), a # <<>>
  PROVE  a \o b \in Seq(Z) /\ a \o b # <<>> /\ (a \o b)[1] = a[1]
<1>1. Len(a) \in Nat \ {0}
  OBVIOUS
<1>. QED BY <1>1, ConcatProperties

\* The output of a node has the four sections.
LinesOf(h) ==
  {T!HostLines(h)[i] : i \in DOMAIN T!HostLines(h)} \cup {T!GpuLines(h)[i] : i \in DOMAIN T!GpuLines(h)}
  \cup {h.ports[i] : i \in DOMAIN h.ports} \cup {h.docker}
Names == {"host", "gpu", "fabric", "docker"}
Printed(h) == {T!Header(name) : name \in Names} \cup {<<"line", z>> : z \in LinesOf(h)}

LEMMA LinesAreLines ==
  ASSUME NEW h \in Hosts
  PROVE  /\ T!HostLines(h) \in Seq(LinesOf(h)) /\ T!GpuLines(h) \in Seq(LinesOf(h))
         /\ h.ports \in Seq(LinesOf(h)) /\ <<h.docker>> \in Seq(LinesOf(h))
<1>1. ASSUME NEW q, NEW Z, q \in Seq(Z), \A i \in DOMAIN q : q[i] \in LinesOf(h) PROVE q \in Seq(LinesOf(h))
  BY <1>1
<1>2. T!HostLines(h) \in Seq(LinesOf(h))
  <2>1. CASE h.pretty = Null
    <3>1. T!HostLines(h) = <<h.name, "aarch64", h.product>>
      BY <2>1 DEF T!HostLines
    <3>2. T!HostLines(h) \in Seq({h.name, "aarch64", h.product})
      BY <3>1
    <3>. QED BY <1>1, <3>2 DEF LinesOf
  <2>2. CASE h.pretty # Null
    <3>1. T!HostLines(h) = <<h.name, "aarch64", h.pretty, h.product>>
      BY <2>2 DEF T!HostLines
    <3>2. T!HostLines(h) \in Seq({h.name, "aarch64", h.pretty, h.product})
      BY <3>1
    <3>. QED BY <1>1, <3>2 DEF LinesOf
  <2>. QED BY <2>1, <2>2
<1>3. T!GpuLines(h) \in Seq(LinesOf(h))
  <2>1. CASE h.gpus = <<>>
    <3>1. T!GpuLines(h) \in Seq({""})
      BY <2>1 DEF T!GpuLines
    <3>. QED BY <1>1, <3>1 DEF LinesOf
  <2>2. CASE h.gpus # <<>>
    <3>1. T!GpuLines(h) = h.gpus
      BY <2>2 DEF T!GpuLines
    <3>. QED BY <1>1, <3>1, TestConstants DEF LinesOf
  <2>. QED BY <2>1, <2>2
<1>4. h.ports \in Seq(LinesOf(h))
  BY <1>1, TestConstants DEF LinesOf
<1>5. <<h.docker>> \in Seq(LinesOf(h))
  BY DEF LinesOf
<1>. QED BY <1>2, <1>3, <1>4, <1>5

LEMMA OutputIs ==
  ASSUME NEW h \in Hosts
  PROVE  LET full == T!Output(h)
         IN /\ full \in Seq(Printed(h))
            /\ Has(full, "host", T!HostLines(h)) /\ Has(full, "gpu", T!GpuLines(h))
            /\ Has(full, "fabric", h.ports) /\ Has(full, "docker", <<h.docker>>)
<1>1. PICK a, b, c, d :
        /\ a = T!Section("host", T!HostLines(h)) /\ b = T!Section("gpu", T!GpuLines(h))
        /\ c = T!Section("fabric", h.ports) /\ d = T!Section("docker", <<h.docker>>)
  OBVIOUS
<1>2. ASSUME NEW name \in Names, NEW lines \in Seq(LinesOf(h)), NEW s, s = T!Section(name, lines)
      PROVE  /\ s \in Seq(Printed(h)) /\ s # <<>> /\ s[1][1] = "header" /\ Has(s, name, lines) /\ Len(lines) \in Nat
             /\ \A other : T!Header(other) # T!Header(name) => Apart(s, other)
  <2>1. /\ Has(s, name, lines) /\ s # <<>> /\ s[1][1] = "header" /\ Len(lines) \in Nat
        /\ s \in Seq({T!Header(name)} \cup {<<"line", z>> : z \in LinesOf(h)})
        /\ \A other : T!Header(other) # T!Header(name) => Apart(s, other)
    BY <1>2, SectionHas
  <2>2. {T!Header(name)} \cup {<<"line", z>> : z \in LinesOf(h)} \subseteq Printed(h)
    BY DEF Printed
  <2>3. s \in Seq(Printed(h))
    BY <2>1, <2>2
  <2>. QED BY <2>1, <2>3
<1>3. /\ a \in Seq(Printed(h)) /\ a # <<>> /\ a[1][1] = "header" /\ Has(a, "host", T!HostLines(h))
      /\ Len(T!HostLines(h)) \in Nat
  BY <1>1, <1>2, LinesAreLines DEF Names
<1>4. /\ b \in Seq(Printed(h)) /\ b # <<>> /\ b[1][1] = "header" /\ Has(b, "gpu", T!GpuLines(h))
      /\ Len(T!GpuLines(h)) \in Nat
  BY <1>1, <1>2, LinesAreLines DEF Names
<1>5. /\ c \in Seq(Printed(h)) /\ c # <<>> /\ c[1][1] = "header" /\ Has(c, "fabric", h.ports)
      /\ Len(h.ports) \in Nat
  BY <1>1, <1>2, LinesAreLines DEF Names
<1>6. /\ d \in Seq(Printed(h)) /\ d # <<>> /\ d[1][1] = "header" /\ Has(d, "docker", <<h.docker>>)
      /\ Len(<<h.docker>>) \in Nat
  BY <1>1, <1>2, LinesAreLines DEF Names
<1>7. /\ Apart(a, "gpu") /\ Apart(a, "fabric") /\ Apart(a, "docker")
      /\ Apart(b, "fabric") /\ Apart(b, "docker") /\ Apart(c, "docker")
  <2>1. \A other : T!Header(other) # T!Header("host") => Apart(a, other)
    BY <1>1, <1>2, LinesAreLines DEF Names
  <2>2. \A other : T!Header(other) # T!Header("gpu") => Apart(b, other)
    BY <1>1, <1>2, LinesAreLines DEF Names
  <2>3. \A other : T!Header(other) # T!Header("fabric") => Apart(c, other)
    BY <1>1, <1>2, LinesAreLines DEF Names
  <2>. QED BY <2>1, <2>2, <2>3, HeadersDiffer
<1>8. PICK left, right : left = a \o b /\ right = c \o d
  OBVIOUS
<1>9. /\ left \in Seq(Printed(h)) /\ left # <<>> /\ Has(left, "host", T!HostLines(h)) /\ Has(left, "gpu", T!GpuLines(h))
      /\ Apart(left, "fabric") /\ Apart(left, "docker")
  BY <1>3, <1>4, <1>7, <1>8, PartsJoined, HasEither, ApartBoth
<1>10. /\ right \in Seq(Printed(h)) /\ right # <<>> /\ right[1][1] = "header"
       /\ Has(right, "fabric", h.ports) /\ Has(right, "docker", <<h.docker>>)
  BY <1>5, <1>6, <1>7, <1>8, PartsJoined, HasEither
<1>11. PICK full : full = left \o right
  OBVIOUS
<1>12. full \in Seq(Printed(h))
  BY <1>9, <1>10, <1>11, PartsJoined
<1>13. Has(full, "host", T!HostLines(h)) /\ Has(full, "gpu", T!GpuLines(h))
  BY <1>3, <1>4, <1>9, <1>10, <1>11, HasEither
<1>14. Has(full, "fabric", h.ports) /\ Has(full, "docker", <<h.docker>>)
  BY <1>5, <1>6, <1>9, <1>10, <1>11, HasEither
<1>15. full = T!Output(h)
  BY <1>1, <1>8, <1>11 DEF T!Output
<1>. QED BY <1>12, <1>13, <1>14, <1>15

LEMMA CameOf ==
  ASSUME NEW Z, NEW full \in Seq(Z), NEW n \in 0..Len(full), NEW name, NEW lines, Len(lines) \in Nat, Has(full, name, lines)
  PROVE  LET u == T!Under(SubSeq(full, 1, n), name)
         IN Came(u, lines) /\ (n = Len(full) => Len(u) = Len(lines))
<1>1. PICK s \in 1..Len(full) : s + Len(lines) <= Len(full) /\ SectionAt(full, name, s, lines)
  BY DEF Has
<1>. QED BY <1>1, CameUnder

\* The first lines of the sections, and how many there are, of what came of a node's output.
LEMMA FirstLines ==
  ASSUME NEW h \in Hosts, NEW n \in 0..Len(T!Output(h)), NEW out, out = SubSeq(T!Output(h), 1, n)
  PROVE  LET u == T!Under(out, "host")  g == T!Under(out, "gpu")  p == T!Under(out, "fabric")  d == T!Under(out, "docker")
             whole == n = Len(T!Output(h))
         IN /\ Came(u, T!HostLines(h)) /\ (whole => Len(u) = Len(T!HostLines(h)))
            /\ Came(g, T!GpuLines(h)) /\ (whole => Len(g) = Len(T!GpuLines(h)))
            /\ Came(p, h.ports) /\ (whole => Len(p) = Len(h.ports))
            /\ Came(d, <<h.docker>>) /\ (whole => Len(d) = Len(<<h.docker>>))
<1>1. /\ T!HostLines(h) \in Seq(LinesOf(h)) /\ T!GpuLines(h) \in Seq(LinesOf(h))
      /\ h.ports \in Seq(LinesOf(h)) /\ <<h.docker>> \in Seq(LinesOf(h))
  BY LinesAreLines
<1>2. \A q \in Seq(LinesOf(h)) : Len(q) \in Nat
  OBVIOUS
<1>3. PICK full \in Seq(Printed(h)) :
        /\ full = T!Output(h)
        /\ Has(full, "host", T!HostLines(h)) /\ Has(full, "gpu", T!GpuLines(h))
        /\ Has(full, "fabric", h.ports) /\ Has(full, "docker", <<h.docker>>)
  BY OutputIs
<1>. QED BY <1>1, <1>2, <1>3, CameOf

\* A line that is read is the node's, or was cut off.
LEMMA LineOf ==
  ASSUME NEW u, NEW Z, NEW lines \in Seq(Z), Came(u, lines), NEW i \in Nat
  PROVE  /\ T!LineOr(u, i) \in {T!LineOr(lines, i), ""}
         /\ Len(u) = Len(lines) => T!LineOr(u, i) = T!LineOr(lines, i)
<1>1. DOMAIN lines = 1..Len(lines) /\ Len(lines) \in Nat
  OBVIOUS
<1>2. DOMAIN u = 1..Len(u) /\ Len(u) \in Nat /\ Len(u) <= Len(lines) /\ \A k \in 1..Len(u) : u[k] = lines[k]
  BY <1>1 DEF Came
<1>3. CASE i \in 1..Len(u)
  <2>1. i \in 1..Len(lines)
    BY <1>1, <1>2, <1>3
  <2>. QED BY <1>1, <1>2, <1>3, <2>1 DEF T!LineOr
<1>4. CASE i \notin 1..Len(u)
  <2>1. T!LineOr(u, i) = ""
    BY <1>2, <1>4 DEF T!LineOr
  <2>2. ASSUME Len(u) = Len(lines) PROVE T!LineOr(lines, i) = ""
    BY <1>1, <1>4, <2>2 DEF T!LineOr
  <2>. QED BY <2>1, <2>2
<1>. QED BY <1>3, <1>4

\* What is answered of a node's output, whole or cut off, is the node's.
Told(r, h, whole) ==
  LET gpu == T!LineOr(h.gpus, 1)
  IN /\ r.hostname \in {h.name, ""} /\ r.gpu \in {gpu, ""} /\ r.fabricPorts <= Len(h.ports)
     /\ r.dockerAvailable => h.docker = "OK" /\ r.notes \cap {"DENIED", "MISSING"} = {}
     /\ h.pretty # Null => r.os \in {h.pretty, ""}
     /\ r.isSpark => {h.product, gpu, h.name} \cap T!Spark # {}
     /\ whole => /\ r.hostname = h.name /\ r.gpu = gpu /\ r.fabricPorts = Len(h.ports)
                 /\ r.dockerAvailable = (h.docker = "OK")
                 /\ h.docker # "OK" => h.docker \in r.notes
                 /\ h.pretty # Null => r.isSpark = ({h.product, gpu, h.name} \cap T!Spark # {})
     /\ ("noGpu" \in r.notes <=> r.gpu = "") /\ ("noPorts" \in r.notes <=> r.fabricPorts = 0)

LEMMA FoundIsHonest ==
  ASSUME NEW h \in Hosts, NEW n \in 0..Len(T!Output(h)), NEW out, out = SubSeq(T!Output(h), 1, n),
         NEW whole, whole = (n = Len(T!Output(h)))
  PROVE  Told(T!Found(out), h, whole)
<1>1. PICK u, g, p, d : /\ u = T!Under(out, "host") /\ g = T!Under(out, "gpu")
                        /\ p = T!Under(out, "fabric") /\ d = T!Under(out, "docker")
  OBVIOUS
<1>2. /\ Came(u, T!HostLines(h)) /\ (whole => Len(u) = Len(T!HostLines(h)))
      /\ Came(g, T!GpuLines(h)) /\ (whole => Len(g) = Len(T!GpuLines(h)))
      /\ Came(p, h.ports) /\ (whole => Len(p) = Len(h.ports))
      /\ Came(d, <<h.docker>>) /\ (whole => Len(d) = Len(<<h.docker>>))
  BY <1>1, FirstLines
<1>3. PICK name, os, product, gpu, docker :
        /\ name = T!LineOr(u, 1) /\ os = T!LineOr(u, 3) /\ product = T!LineOr(u, 4)
        /\ gpu = T!LineOr(g, 1) /\ docker = T!LineOr(d, 1)
  OBVIOUS
<1>4. PICK r : r = T!Found(out)
  OBVIOUS
<1>5. /\ r.hostname = name /\ r.os = os /\ r.gpu = gpu /\ r.isSpark = ({product, gpu, name} \cap T!Spark # {})
      /\ r.fabricPorts = Len(p) /\ r.dockerAvailable = (docker = "OK")
      /\ r.notes = (IF docker \in {"DENIED", "MISSING"} THEN {docker} ELSE {})
                   \cup (IF gpu = "" THEN {"noGpu"} ELSE {}) \cup (IF p = <<>> THEN {"noPorts"} ELSE {})
  BY <1>1, <1>3, <1>4 DEF T!Found
<1>6. /\ T!HostLines(h) \in Seq(LinesOf(h)) /\ T!GpuLines(h) \in Seq(LinesOf(h))
      /\ h.ports \in Seq(LinesOf(h)) /\ <<h.docker>> \in Seq(LinesOf(h))
  BY LinesAreLines
<1>7. /\ name \in {h.name, ""} /\ (whole => name = h.name)
      /\ h.pretty # Null => /\ os \in {h.pretty, ""} /\ product \in {h.product, ""} /\ (whole => product = h.product)
      /\ product \in {h.product, ""}
  <2>1. T!LineOr(T!HostLines(h), 1) = h.name
    BY DEF T!LineOr, T!HostLines
  <2>2. h.pretty # Null => T!LineOr(T!HostLines(h), 3) = h.pretty /\ T!LineOr(T!HostLines(h), 4) = h.product
    BY DEF T!LineOr, T!HostLines
  <2>3. h.pretty = Null => T!LineOr(T!HostLines(h), 4) = ""
    BY DEF T!LineOr, T!HostLines
  <2>4. \A i \in Nat : /\ T!LineOr(u, i) \in {T!LineOr(T!HostLines(h), i), ""}
                       /\ whole => T!LineOr(u, i) = T!LineOr(T!HostLines(h), i)
    BY <1>2, <1>6, LineOf
  <2>5. /\ name \in {T!LineOr(T!HostLines(h), 1), ""} /\ (whole => name = T!LineOr(T!HostLines(h), 1))
        /\ os \in {T!LineOr(T!HostLines(h), 3), ""}
        /\ product \in {T!LineOr(T!HostLines(h), 4), ""} /\ (whole => product = T!LineOr(T!HostLines(h), 4))
    BY <1>3, <2>4
  <2>. QED BY <2>1, <2>2, <2>3, <2>5
<1>8. gpu \in {T!LineOr(h.gpus, 1), ""} /\ (whole => gpu = T!LineOr(h.gpus, 1))
  <2>1. T!LineOr(T!GpuLines(h), 1) = T!LineOr(h.gpus, 1)
    <3>1. CASE h.gpus = <<>>
      <4>1. T!LineOr(<<>>, 1) = "" /\ T!LineOr(<<"">>, 1) = ""
        BY DEF T!LineOr
      <4>. QED BY <3>1, <4>1 DEF T!GpuLines
    <3>2. CASE h.gpus # <<>>
      BY <3>2 DEF T!GpuLines
    <3>. QED BY <3>1, <3>2
  <2>2. \A i \in Nat : /\ T!LineOr(g, i) \in {T!LineOr(T!GpuLines(h), i), ""}
                       /\ whole => T!LineOr(g, i) = T!LineOr(T!GpuLines(h), i)
    BY <1>2, <1>6, LineOf
  <2>. QED BY <1>3, <2>1, <2>2
<1>9. docker \in {h.docker, ""} /\ (whole => docker = h.docker)
  <2>1. T!LineOr(<<h.docker>>, 1) = h.docker
    BY DEF T!LineOr
  <2>2. PICK only \in Seq(LinesOf(h)) : only = <<h.docker>>
    BY <1>6
  <2>3. Came(d, only) /\ (whole => Len(d) = Len(only))
    BY <1>2, <2>2
  <2>4. \A i \in Nat : /\ T!LineOr(d, i) \in {T!LineOr(only, i), ""}
                       /\ whole => T!LineOr(d, i) = T!LineOr(only, i)
    BY <2>3, LineOf
  <2>. QED BY <1>3, <2>1, <2>2, <2>4
<1>10. Len(p) \in Nat /\ Len(p) <= Len(h.ports) /\ (p = <<>> <=> Len(p) = 0)
  BY <1>2, <1>6 DEF Came
<1>11. h.docker \in {"OK", "DENIED", "MISSING"}
  BY TestConstants
<1>12. "" \notin T!Spark
  BY DEF T!Spark
<1>13. r.hostname \in {h.name, ""} /\ r.gpu \in {T!LineOr(h.gpus, 1), ""} /\ r.fabricPorts <= Len(h.ports)
  BY <1>5, <1>7, <1>8, <1>10
<1>14. r.dockerAvailable => h.docker = "OK" /\ r.notes \cap {"DENIED", "MISSING"} = {}
  BY <1>5, <1>9, <1>11
<1>15. h.pretty # Null => r.os \in {h.pretty, ""}
  BY <1>5, <1>7
<1>16. r.isSpark => {h.product, T!LineOr(h.gpus, 1), h.name} \cap T!Spark # {}
  <2>1. SUFFICES ASSUME r.isSpark PROVE {h.product, T!LineOr(h.gpus, 1), h.name} \cap T!Spark # {}
    OBVIOUS
  <2>2. PICK s \in T!Spark : s \in {product, gpu, name}
    BY <1>5, <2>1
  <2>3. s # ""
    BY <1>12, <2>2
  <2>4. s \in {h.product, T!LineOr(h.gpus, 1), h.name}
    BY <1>7, <1>8, <2>2, <2>3
  <2>. QED BY <2>2, <2>4
<1>17. whole => /\ r.hostname = h.name /\ r.gpu = T!LineOr(h.gpus, 1) /\ r.fabricPorts = Len(h.ports)
                /\ r.dockerAvailable = (h.docker = "OK")
                /\ h.docker # "OK" => h.docker \in r.notes
                /\ h.pretty # Null => r.isSpark = ({h.product, T!LineOr(h.gpus, 1), h.name} \cap T!Spark # {})
  BY <1>2, <1>5, <1>7, <1>8, <1>9, <1>11
<1>18. ("noGpu" \in r.notes <=> r.gpu = "")
  <2>1. "noGpu" \in r.notes <=> gpu = ""
    BY <1>5
  <2>2. r.gpu = "" <=> gpu = ""
    BY <1>5
  <2>. QED BY <2>1, <2>2
<1>19. ("noPorts" \in r.notes <=> r.fabricPorts = 0)
  <2>1. "noPorts" \in r.notes <=> p = <<>>
    BY <1>5
  <2>2. r.fabricPorts = 0 <=> p = <<>>
    BY <1>5, <1>10
  <2>. QED BY <2>1, <2>2
<1>. QED BY <1>4, <1>13, <1>14, <1>15, <1>16, <1>17, <1>18, <1>19 DEF Told

\* Where a test is at, and what it has been answered.
TestInv ==
  /\ host \in Hosts
  /\ stage \in {"idle", "connecting", "gone", "running", "over"}
  /\ stage = "idle" <=> timer = "unset"
  /\ timer \in {"unset", "pending", "cleared", "fired"}
  /\ timer = "pending" => result = Null /\ stage # "over"
  /\ timer \in {"cleared", "fired"} => result # Null
  /\ \E n \in 0..Len(T!Output(host)) : printed = SubSeq(T!Output(host), 1, n)
  /\ result # Null /\ result.ok => result = T!Found(printed)

LEMMA FailedIs ==
  ASSUME NEW e \in T!Reasons
  PROVE  T!Failed(e) # Null /\ T!Failed(e).ok = FALSE
BY TestConstants DEF T!Failed

LEMMA PrintedIs ==
  ASSUME TestInv
  PROVE  /\ T!Output(host) \in Seq(Printed(host)) /\ Len(T!Output(host)) \in Nat
         /\ printed \in Seq(Printed(host)) /\ Len(printed) \in 0..Len(T!Output(host))
         /\ printed = SubSeq(T!Output(host), 1, Len(printed))
         /\ T!Found(printed) # Null
<1>1. PICK full \in Seq(Printed(host)) : full = T!Output(host)
  BY OutputIs DEF TestInv
<1>2. PICK n \in 0..Len(full) : printed = SubSeq(full, 1, n)
  BY <1>1 DEF TestInv
<1>3. Len(full) \in Nat /\ printed \in Seq(Printed(host)) /\ Len(printed) = n
  BY <1>1, <1>2, SubSeqProperties
<1>4. T!Found(printed) # Null
  BY <1>1, <1>2, TestConstants DEF TestInv
<1>. QED BY <1>1, <1>2, <1>3, <1>4

LEMMA TestInit == T!Init => TestInv
<1>. SUFFICES ASSUME T!Init PROVE TestInv
  OBVIOUS
<1>1. host \in Hosts /\ stage = "idle" /\ timer = "unset" /\ printed = <<>> /\ result = Null
  BY DEF T!Init
<1>2. PICK full \in Seq(Printed(host)) : full = T!Output(host)
  BY <1>1, OutputIs
<1>3. 0 \in 0..Len(full) /\ SubSeq(full, 1, 0) = <<>>
  OBVIOUS
<1>. QED BY <1>1, <1>2, <1>3 DEF TestInv

LEMMA Arrives ==
  ASSUME TestInv, T!Arrive
  PROVE  TestInv'
<1>1. PICK full \in Seq(Printed(host)) : full = T!Output(host)
  BY PrintedIs
<1>2. PICK n \in 0..Len(full) : printed = SubSeq(full, 1, n) /\ n = Len(printed)
  BY <1>1, PrintedIs
<1>3. n + 1 \in 1..Len(full) /\ printed' = Append(printed, full[n + 1]) /\ UNCHANGED <<host, stage, timer, result>>
      /\ result = Null /\ stage = "running"
  BY <1>1, <1>2 DEF T!Arrive
<1>4. Append(SubSeq(full, 1, n), full[n + 1]) = SubSeq(full, 1, n + 1)
  BY <1>3
<1>5. printed' = SubSeq(full, 1, n + 1) /\ n + 1 \in 0..Len(full)
  BY <1>2, <1>3, <1>4
<1>6. \E k \in 0..Len(T!Output(host)) : printed' = SubSeq(T!Output(host), 1, k)
  BY <1>1, <1>5
<1>7. host \in Hosts /\ stage \in {"idle", "connecting", "gone", "running", "over"} /\ (stage = "idle" <=> timer = "unset")
      /\ timer \in {"unset", "pending", "cleared", "fired"}
      /\ (timer = "pending" => result = Null /\ stage # "over") /\ (timer \in {"cleared", "fired"} => result # Null)
  BY DEF TestInv
<1>. QED BY <1>3, <1>6, <1>7 DEF TestInv

LEMMA TestNext ==
  ASSUME TestInv, T!Next
  PROVE  TestInv'
<1>. USE DEF TestInv
<1>1. ASSUME UNCHANGED <<host, printed>> PROVE \E n \in 0..Len(T!Output(host)') : printed' = SubSeq(T!Output(host)', 1, n)
  BY <1>1
<1>2. CASE T!Refuse
  <2>1. PICK e \in {"noHost", "noUsername", "noSecret", "unreadable"} : result' = T!Failed(e)
    BY <1>2 DEF T!Refuse
  <2>2. result' # Null /\ result'.ok = FALSE
    BY <2>1, FailedIs DEF T!Reasons
  <2>3. UNCHANGED <<host, stage, timer, printed>> /\ stage = "idle"
    BY <1>2 DEF T!Refuse
  <2>. QED BY <2>2, <2>3
<1>3. CASE T!Connect
  <2>1. stage = "idle" /\ timer = "unset" /\ result = Null /\ UNCHANGED <<host, printed>>
    BY <1>3 DEF T!Connect
  <2>2. CASE stage' = "connecting" /\ timer' = "pending" /\ UNCHANGED result
    BY <2>1, <2>2
  <2>3. CASE stage' = "over" /\ timer' = "cleared" /\ T!Finish(T!Failed("thrown"))
    <3>1. result' # Null /\ result'.ok = FALSE
      BY <2>1, <2>3, FailedIs DEF T!Finish, T!Reasons
    <3>. QED BY <2>1, <2>3, <3>1
  <2>. QED BY <1>3, <2>2, <2>3 DEF T!Connect
<1>4. CASE T!Tick
  BY <1>4 DEF T!Tick
<1>5. CASE T!Fire
  <2>1. timer = "pending" /\ timer' = "fired" /\ result = Null /\ UNCHANGED <<host, stage, printed>>
    BY <1>5 DEF T!Fire
  <2>2. result' # Null /\ result'.ok = FALSE
    BY <1>5, <2>1, FailedIs DEF T!Fire, T!Finish, T!Reasons
  <2>. QED BY <2>1, <2>2
<1>6. CASE T!Ready
  <2>1. stage = "connecting" /\ result = Null /\ UNCHANGED <<host, printed>>
    BY <1>6 DEF T!Ready
  <2>2. CASE stage' = "running" /\ UNCHANGED <<timer, result>>
    BY <2>1, <2>2
  <2>3. CASE stage' = "over" /\ timer' = "cleared" /\ T!Finish(T!Failed("exec"))
    <3>1. result' # Null /\ result'.ok = FALSE
      BY <2>1, <2>3, FailedIs DEF T!Finish, T!Reasons
    <3>. QED BY <2>1, <2>3, <3>1
  <2>. QED BY <1>6, <2>2, <2>3 DEF T!Ready
<1>7. CASE T!Arrive
  BY <1>7, Arrives
<1>8. CASE T!StreamCloses
  <2>1. stage = "running" /\ stage' = "over" /\ UNCHANGED <<host, printed>>
        /\ timer' = (IF timer = "pending" THEN "cleared" ELSE timer)
        /\ result' = IF result = Null THEN T!Found(printed) ELSE result
    BY <1>8 DEF T!StreamCloses, T!Finish
  <2>2. T!Found(printed) # Null
    BY PrintedIs
  <2>3. result' # Null /\ (result'.ok => result' = T!Found(printed))
    BY <2>1, <2>2
  <2>. QED BY <2>1, <2>3
<1>9. ASSUME NEW e \in T!Errors, T!ConnError(e) PROVE TestInv'
  <2>1. stage' = (IF stage = "connecting" THEN "over" ELSE stage) /\ stage \in {"connecting", "running"}
        /\ UNCHANGED <<host, printed>> /\ timer' = (IF timer = "pending" THEN "cleared" ELSE timer)
        /\ result' = IF result = Null THEN T!Failed(e) ELSE result
    BY <1>9 DEF T!ConnError, T!Finish
  <2>2. T!Failed(e) # Null /\ T!Failed(e).ok = FALSE
    BY FailedIs DEF T!Reasons
  <2>. QED BY <2>1, <2>2
<1>10. CASE T!Gone
  BY <1>10 DEF T!Gone
<1>. QED BY <1>2, <1>3, <1>4, <1>5, <1>6, <1>7, <1>8, <1>9, <1>10 DEF T!Next

\* A test of a connection (probeConnection.ts) is answered once, by whoever clears the timer or
\* by the timer, for any node, any form and any timeout, and a successful answer shows what the
\* node printed, as far as it came.
THEOREM TestsAreHonest == Spec => []TestHonest
<1>1. Init => (part = "test" => TestInv)
  BY TestInit DEF Init
<1>2. (part = "test" => TestInv) /\ [Next]_vars => (part = "test" => TestInv)'
  <2>. SUFFICES ASSUME part = "test" => TestInv, [Next]_vars, part' = "test"
                PROVE  TestInv'
    OBVIOUS
  <2>1. CASE Next
    <3>1. part = "test" /\ T!Next
      BY <2>1 DEF Next, OthersStay
    <3>. QED BY <3>1, TestNext
  <2>2. CASE UNCHANGED vars
    BY <2>2 DEF vars, testVars, TestInv
  <2>. QED BY <2>1, <2>2
<1>3. (part = "test" => TestInv) => TestHonest
  <2>1. SUFFICES ASSUME TestInv PROVE T!TestHonest
    BY DEF TestHonest
  <2>2. ASSUME result # Null, result.ok PROVE Told(result, host, Len(printed) = Len(T!Output(host)))
    <3>1. PICK n \in 0..Len(T!Output(host)) : printed = SubSeq(T!Output(host), 1, n) /\ n = Len(printed)
      BY <2>1, PrintedIs
    <3>2. result = T!Found(printed) /\ host \in Hosts
      BY <2>1, <2>2 DEF TestInv
    <3>. QED BY <3>1, <3>2, FoundIsHonest
  <2>. QED BY <2>1, <2>2 DEF T!TestHonest, Told, TestInv
<1>. QED BY <1>1, <1>2, <1>3, PTL DEF Spec

=================================================================================
