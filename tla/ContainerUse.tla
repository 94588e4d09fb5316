----------------------------- MODULE ContainerUse -----------------------------
(***************************************************************************)
(* What a collector says the containers of its node use.  The slow tier    *)
(* owns the list and asks for CPU and memory on every third poll only; the  *)
(* fast tier writes the GPU memory into that same list, which outlives it   *)
(* (packages/core/src/node.ts:439-470, 921-955; parse.ts:299-339, 644-689). *)
(* Containers and processes come and go, polls fail or are cut.            *)
(***************************************************************************)
EXTENDS Integers, FiniteSets, FiniteSetsExt

CONSTANTS
  Containers, \* container ids
  Pids,       \* process ids
  Outside,    \* a process that is in no container
  Nothing     \* a section, or a GPU, that is not there

\* What the constants must satisfy.
UseAssumption == Outside \notin Containers

VARIABLES
  up,         \* the containers that exist on the node
  home,       \* the GPU processes of the node, by pid: their container, or Outside
  graphics,   \* those of them that are graphics contexts
  listed,     \* this.slow.docker.containers, by id
  known,      \* this.slow.graphicsProcs
  sinceStats, \* this.sinceStats, up to 3
  lastStats,  \* this.lastDockerStats: the containers it measures
  shown,      \* the GPU of the last snapshot: its processes
  blank       \* the last answer to a request for stats was empty

node == <<up, home, graphics>>
slow == <<listed, known, sinceStats, lastStats, blank>>
vars == <<node, slow, shown>>

Fresh == [measured |-> FALSE, usesGpu |-> FALSE, vram |-> 0]

Init ==
  /\ up \in SUBSET Containers
  /\ home = [p \in {} |-> Outside] /\ graphics = {}
  /\ listed = [c \in {} |-> Fresh] /\ known = {}
  /\ sinceStats = 3 /\ lastStats = Nothing /\ blank = FALSE
  /\ shown = Nothing

-----------------------------------------------------------------------------
\* A container starts, or stops with what runs in it.
Start(c) ==
  /\ c \notin up /\ up' = up \cup {c}
  /\ UNCHANGED <<home, graphics, slow, shown>>

Stop(c) ==
  /\ c \in up /\ up' = up \ {c}
  /\ home' = [p \in {p \in DOMAIN home : home[p] # c} |-> home[p]]
  /\ graphics' = graphics \cap DOMAIN home'
  /\ UNCHANGED <<slow, shown>>

\* A process starts on the GPU, or leaves it; its pid may be used again.
Begin(p, c, drawing) ==
  /\ p \notin DOMAIN home /\ c \in up \cup {Outside} /\ drawing => c = Outside
  /\ home' = [q \in DOMAIN home \cup {p} |-> IF q = p THEN c ELSE home[q]]
  /\ graphics' = IF drawing THEN graphics \cup {p} ELSE graphics
  /\ UNCHANGED <<up, slow, shown>>

End(p) ==
  /\ p \in DOMAIN home
  /\ home' = [q \in DOMAIN home \ {p} |-> home[q]]
  /\ graphics' = graphics \ {p}
  /\ UNCHANGED <<up, slow, shown>>

-----------------------------------------------------------------------------
\* applyDockerStats(): the section of this poll where there is one, also an empty one, or else
\* the last that was not.
Measured(stats) ==
  IF stats # Nothing THEN stats ELSE IF lastStats = Nothing THEN {} ELSE lastStats

\* pollSlow() after its await, on a list of containers and perhaps their stats.
Inventory(containers, stats, drawing, asked) ==
  /\ listed' = [c \in containers |-> [Fresh EXCEPT !.measured = c \in Measured(stats)]]
  /\ lastStats' = IF stats \in {Nothing, {}} THEN lastStats ELSE stats
  /\ known' = drawing
  /\ sinceStats' = IF asked THEN 0 ELSE sinceStats + 1
  /\ blank' = (stats = {})

\* A slow poll, which asks for stats two polls after one that did.  docker stats may be
\* cut by its own timeout (probe.ts:418), and leave a section with some, or none, of them.
SlowPoll ==
  LET asked == sinceStats + 1 >= 3
  IN /\ IF asked THEN \E some \in SUBSET up : Inventory(up, some, graphics, TRUE)
        ELSE Inventory(up, Nothing, graphics, FALSE)
     /\ UNCHANGED <<node, shown>>

\* The poll is cut before its stats, or before docker, where the list reads as empty.
SlowCut ==
  LET asked == sinceStats + 1 >= 3
  IN /\ \E found \in {up, {}} : Inventory(found, Nothing, graphics, asked)
     /\ UNCHANGED <<node, shown>>

\* It fails: what was known stays, except that it was asked for.
SlowFails ==
  /\ sinceStats' = IF sinceStats + 1 >= 3 THEN 0 ELSE sinceStats + 1
  /\ UNCHANGED <<node, listed, known, lastStats, blank, shown>>

\* Mutant: what is written is not cleared before it is summed up again.
Attribute_Adds(procs) ==
  [c \in DOMAIN listed |->
     LET mine == {p \in DOMAIN procs : procs[p] = c}
     IN [listed[c] EXCEPT !.usesGpu = @ \/ mine # {}, !.vram = @ + Cardinality(mine)]]

\* Every container of the list anew: the memory of its processes, one unit each.
Attribute(procs) ==
  [c \in DOMAIN listed |->
     LET mine == {p \in DOMAIN procs : procs[p] = c}
     IN [listed[c] EXCEPT !.usesGpu = mine # {}, !.vram = Cardinality(mine)]]

\* Compute processes with the container their cgroup names, where that part of the poll
\* arrived, and the graphics contexts of the last slow poll that are none of them.
Processes(detailed) ==
  LET compute == DOMAIN home \ graphics
  IN [p \in compute \cup known |-> IF p \in compute /\ detailed THEN home[p] ELSE Outside]

\* buildGpu(), in a poll that has the GPU.
FastPoll(detailed) ==
  /\ listed' = Attribute(Processes(detailed))
  /\ shown' = Processes(detailed)
  /\ UNCHANGED <<node, known, sinceStats, lastStats, blank>>

\* The driver does not answer: there is no GPU, and containers keep what they were said to use.
FastWithoutGpu ==
  /\ shown' = Nothing
  /\ UNCHANGED <<node, slow>>

Next ==
  \/ \E c \in Containers : Start(c) \/ Stop(c)
  \/ \E p \in Pids, c \in Containers \cup {Outside}, drawing \in BOOLEAN : Begin(p, c, drawing)
  \/ \E p \in Pids : End(p)
  \/ SlowPoll \/ SlowCut \/ SlowFails
  \/ \E detailed \in BOOLEAN : FastPoll(detailed)
  \/ FastWithoutGpu

Spec == Init /\ [][Next]_vars

-----------------------------------------------------------------------------
\* "otherwise each poll adds another copy of the same allocation" (node.ts:942): the memory
\* that containers are said to use is never more than that of the processes shown when it
\* was last summed up, however many polls went by on one list.
NothingCountedTwice ==
  shown # Nothing => \A c \in DOMAIN listed :
    listed[c].vram \in {0, Cardinality({p \in DOMAIN shown : shown[p] = c})}

\* "so a container's CPU and memory stay populated rather than blinking out for two polls in
\* three" (node.ts:448): a container that the last stats to arrive measured stays measured.
\* Not so on the poll whose stats are an empty section (node.ts:453), whatever came before.
StaysPopulated ==
  lastStats # Nothing /\ ~blank => \A c \in DOMAIN listed \cap lastStats : listed[c].measured

\* What containers are said to use can be relied on.
UseHonest == NothingCountedTwice /\ StaysPopulated
===============================================================================
