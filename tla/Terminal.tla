-------------------------------- MODULE Terminal --------------------------------
(***************************************************************************)
(* The terminal dashboard (packages/tui/src/index.ts): its keys, the       *)
(* snapshots it takes in, and the frame it composes from them              *)
(* (packages/tui/src/render.ts).  A frame is the sequence of its rows, a   *)
(* row the pair of its subject and whom it is about; what is written in a  *)
(* row and how wide it is are left out.                                    *)
(***************************************************************************)
EXTENDS Integers, Sequences, SequencesExt, FiniteSets, FiniteSetsExt

CONSTANTS
  Snapshots, \* nodes as NodeRows takes them, links and warnings counted, of each job its id
  Sizes,     \* of the window: <<width, height>>, with room for a border (ansi.ts:313)
  Null

Endpoint == [id : STRING, reachable : BOOLEAN, models : BOOLEAN]
NodeSnapshot == [id : STRING, status : STRING, cores : Nat, endpoints : Seq(Endpoint), ports : Nat,
                 processes : Nat, docker : BOOLEAN, containers : Seq(BOOLEAN)]
ClusterSnapshot == [nodes : Seq(NodeSnapshot), links : Nat, jobs : Seq(STRING), warnings : Nat]

ScreenAssumption ==
  /\ Snapshots \subseteq ClusterSnapshot /\ Null \notin Snapshots
  /\ Sizes \subseteq {w \in Nat : w >= 12} \X Nat

VARIABLES
  snapshot, \* the last taken in
  view, selected, paused,
  size,
  drawn     \* what is on the screen; Null when it is to be drawn anew ("dirty")

vars == <<snapshot, view, selected, paused, size, drawn>>

Views == <<"overview", "fabric", "processes", "containers">>

-----------------------------------------------------------------------------
Rows(n, row) == [i \in 1..n |-> row]
Gap == <<<<"gap", Null>>>>
Panel(body) == <<<<"border", Null>>>> \o body \o <<<<"border", Null>>>>
CeilDiv(a, b) == (a + b - 1) \div b
AtLeast(n, low) == Max({n, low})

Online(nodes) == FlattenSeq([i \in DOMAIN nodes |-> IF nodes[i].status = "online" THEN <<nodes[i]>> ELSE <<>>])
Endpoints(snap) == FlattenSeq([i \in DOMAIN snap.nodes |-> snap.nodes[i].endpoints])

\* What a level of detail still draws, the richest first.
DetailLevels ==
  LET level(trends, cluster, gauges, grid, compact, secondary) ==
        [trends |-> trends, cluster |-> cluster, gauges |-> gauges, grid |-> grid,
         compact |-> compact, secondary |-> secondary]
  IN <<level(TRUE, TRUE, TRUE, TRUE, FALSE, "all"), level(TRUE, TRUE, TRUE, FALSE, FALSE, "all"),
       level(FALSE, TRUE, TRUE, FALSE, FALSE, "all"), level(FALSE, TRUE, FALSE, FALSE, FALSE, "all"),
       level(FALSE, FALSE, FALSE, FALSE, FALSE, "all"), level(FALSE, FALSE, FALSE, FALSE, TRUE, "all"),
       level(FALSE, FALSE, FALSE, FALSE, TRUE, "links"), level(FALSE, FALSE, FALSE, FALSE, TRUE, "none")>>

Header == Rows(2, <<"header", Null>>)

\* trends(): two charts, or three while a node online has engines, each as wide as is left.
Trends(snap, width, height) ==
  LET engines == \E i \in DOMAIN snap.nodes : snap.nodes[i].status = "online" /\ snap.nodes[i].endpoints # <<>>
      charts == IF engines THEN 3 ELSE 2
      each == (width - 4 - 2 * (charts - 1)) \div charts
      rows == AtLeast(Min({10, height \div 7}), 3)
  IN IF height < 24 \/ width < 60 \/ each < 20 THEN <<>>
     ELSE Panel(Rows(rows + 1, <<"trends", Null>>)) \o Gap

\* clusterSummary(): three boxes side by side, as high as the highest, for two nodes or more.
ClusterSummary(snap, width) ==
  LET online == Len(Online(snap.nodes))
      fabric == 3 + (IF snap.links = 0 THEN 1 ELSE Min({snap.links, online + 2})) + 1
  IN IF online < 2 \/ width < 100 THEN <<>>
     ELSE Panel(Rows(Max({3 + online, fabric}), <<"cluster", Null>>)) \o Gap

\* Two columns of cells, or four, where cells of 14 fit; or one row; or nothing, and a gap.
CoreRows(cores, inner) ==
  LET columns == IF cores > 12 THEN 4 ELSE 2
      cell == (inner - 2 - (columns - 1)) \div columns
  IN IF cores = 0 THEN 0
     ELSE 1 + (IF cell >= 14 THEN 2 + CeilDiv(cores, columns) ELSE IF inner > cores + 20 THEN 1 ELSE 0)

\* nodeLine() and nodeBlock().
NodeRows(n, inner, d) ==
  LET meters == IF d.gauges /\ inner >= 96 THEN 4 + 1 + 2 ELSE 4
      rows == IF d.compact THEN 1
              ELSE IF n.status # "online" THEN 2
              ELSE 1 + meters + (IF d.grid THEN CoreRows(n.cores, inner) ELSE 0) + 1
  IN Rows(rows, <<"node", n.id>>)

NodesPanel(nodes, inner, d) ==
  Panel(FlattenSeq([i \in DOMAIN nodes |->
    (IF i > 1 /\ ~d.compact THEN Gap ELSE <<>>) \o NodeRows(nodes[i], inner, d)]))

Interconnect(snap) == IF snap.links = 0 THEN <<>> ELSE Gap \o Panel(Rows(snap.links, <<"link", Null>>))
Inference(snap) ==
  LET all == Endpoints(snap)
      rows(e) == Rows(IF e.reachable /\ e.models THEN 2 ELSE 1, <<"engine", e.id>>)
  IN IF all = <<>> THEN <<>> ELSE Gap \o Panel(FlattenSeq([i \in DOMAIN all |-> rows(all[i])]))
Workloads(snap) ==
  IF snap.jobs = <<>> THEN <<>>
  ELSE Gap \o Panel(FlattenSeq([i \in DOMAIN snap.jobs |-> Rows(2, <<"job", snap.jobs[i]>>)]))
Alerts(snap) ==
  IF snap.warnings = 0 THEN <<>> ELSE Gap \o Panel(Rows(2 * Min({6, snap.warnings}), <<"alert", Null>>))

ComposeOverview(snap, nodes, width, height, d) ==
  Header \o Gap
  \o (IF d.trends THEN Trends(snap, width, height) ELSE <<>>)
  \o (IF d.cluster /\ Len(nodes) = Len(snap.nodes) THEN ClusterSummary(snap, width) ELSE <<>>)
  \o NodesPanel(nodes, width - 4, d)
  \o (IF d.secondary = "none" THEN <<>> ELSE Interconnect(snap))
  \o (IF d.secondary = "all" THEN Inference(snap) \o Workloads(snap) ELSE <<>>)
  \o (IF d.secondary = "none" THEN <<>> ELSE Alerts(snap))

\* The richest that fits, or else the last.
Overview(snap, nodes, width, height) ==
  LET of(i) == ComposeOverview(snap, nodes, width, height, DetailLevels[i])
      fits == {i \in DOMAIN DetailLevels : Len(of(i)) <= AtLeast(height - 2, 8)}
  IN of(IF fits = {} THEN Len(DetailLevels) ELSE Min(fits))

-----------------------------------------------------------------------------
\* fabricView(): every link with its two directions, then the ports of the nodes online.
FabricView(snap) ==
  LET links == IF snap.links = 0 THEN Rows(2, <<"text", Null>>) ELSE Rows(5 * snap.links - 1, <<"link", Null>>)
      on == Online(snap.nodes)
      ports == FlattenSeq([i \in DOMAIN on |->
                 (IF i > 1 THEN Gap ELSE <<>>) \o Rows(1 + on[i].ports, <<"port", on[i].id>>)])
  IN Panel(links) \o Gap \o Panel(ports \o Gap \o Rows(2, <<"text", Null>>))

\* processView().
ProcessView(nodes) ==
  LET all == FlattenSeq([i \in DOMAIN nodes |->
               IF nodes[i].status = "online" THEN Rows(nodes[i].processes, <<"process", nodes[i].id>>) ELSE <<>>])
  IN Panel(<<<<"text", Null>>>> \o (IF all = <<>> THEN <<<<"text", Null>>>> ELSE all))

\* containerView(): of each its line, and one more where it is distributed.
ContainerView(nodes) ==
  LET on == Online(nodes)
      of(n) == FlattenSeq([i \in DOMAIN n.containers |-> Rows(IF n.containers[i] THEN 2 ELSE 1, <<"container", n.id>>)])
      rows(i) == IF ~on[i].docker THEN <<<<"text", on[i].id>>>>
                 ELSE (IF i > 1 THEN Gap ELSE <<>>) \o <<<<"container", on[i].id>>>> \o of(on[i])
      any == \E i \in DOMAIN on : on[i].docker /\ on[i].containers # <<>>
  IN Panel(FlattenSeq([i \in DOMAIN on |-> rows(i)]) \o (IF any THEN <<>> ELSE <<<<"text", Null>>>>))

\* One node where one is selected that there is, or else all; selected counts from 0.
ShownNodes ==
  IF selected >= 0 /\ selected < Len(snapshot.nodes) THEN <<snapshot.nodes[selected + 1]>> ELSE snapshot.nodes

Render ==
  IF snapshot = Null THEN <<<<"text", Null>>>>
  ELSE IF snapshot.nodes = <<>> THEN Rows(5, <<"text", Null>>)
  ELSE IF view = "overview" THEN Overview(snapshot, ShownNodes, size[1], size[2])
  ELSE Header \o Gap
       \o CASE view = "fabric" -> FabricView(snapshot)
            [] view = "processes" -> ProcessView(ShownNodes)
            [] view = "containers" -> ContainerView(ShownNodes)

NodeCount == IF snapshot = Null THEN 0 ELSE Len(snapshot.nodes)
Footer ==
  [view |-> view, paused |-> paused,
   node |-> IF NodeCount <= 1 THEN <<"node">> ELSE IF selected < 0 THEN <<"all">> ELSE <<"node", selected + 1>>]

-----------------------------------------------------------------------------
Init ==
  /\ snapshot = Null /\ view = "overview" /\ selected = -1 /\ paused = FALSE
  /\ size \in Sizes
  /\ drawn = Null

\* onSnapshot(): nothing is taken in while paused.
OnSnapshot ==
  /\ ~paused
  /\ snapshot' \in Snapshots
  /\ drawn' = Null
  /\ UNCHANGED <<view, selected, paused, size>>

\* Mutant: a resized window is drawn with the next snapshot.
Resize_NotDirty ==
  /\ size' \in Sizes \ {size}
  /\ UNCHANGED <<snapshot, view, selected, paused, drawn>>

Resize ==
  /\ size' \in Sizes \ {size}
  /\ drawn' = Null
  /\ UNCHANGED <<snapshot, view, selected, paused>>

ChooseView(v) ==
  /\ view' = v
  /\ drawn' = Null
  /\ UNCHANGED <<snapshot, selected, paused, size>>
NextView == ChooseView(Views[(SelectInSeq(Views, LAMBDA v : v = view) % Len(Views)) + 1])

Pause ==
  /\ paused' = ~paused
  /\ drawn' = Null
  /\ UNCHANGED <<snapshot, view, selected, size>>

Select(i) ==
  /\ selected' = i
  /\ drawn' = Null
  /\ UNCHANGED <<snapshot, view, paused, size>>
Right == Select(IF selected + 1 >= NodeCount THEN -1 ELSE selected + 1)
Left == Select(IF selected - 1 < -1 THEN NodeCount - 1 ELSE selected - 1)
Digit(i) == Select(IF i < NodeCount THEN i ELSE selected)

\* draw(): the rows there is room for, and the footer.
Draw ==
  /\ drawn = Null
  /\ drawn' = [rows |-> SubSeq(Render, 1, Min({Len(Render), AtLeast(size[2] - 2, 0)})), footer |-> Footer]
  /\ UNCHANGED <<snapshot, view, selected, paused, size>>

Next ==
  \/ OnSnapshot
  \/ Resize
  \/ \E v \in Range(Views) : ChooseView(v)
  \/ NextView
  \/ Pause
  \/ Right
  \/ Left
  \/ \E i \in 0..8 : Digit(i)
  \/ Draw

-----------------------------------------------------------------------------
Subjects(rows) == {r \in Range(rows) : r[1] \in {"node", "link", "engine", "job", "alert"}}

\* What is on the screen is what there is to see: the frame of the last snapshot taken in, in the
\* view, selection and size of now, unless it is about to be drawn.
ScreenCurrent ==
  drawn # Null => /\ drawn.footer = Footer
                  /\ drawn.rows = SubSeq(Render, 1, Min({Len(Render), AtLeast(size[2] - 2, 0)}))

\* In the overview no subject gives way to decoration: what some level of detail has room for is on
\* the screen, every node first of all (render.ts:53-61, 71-78, 400).
NothingLostToDecoration ==
  drawn # Null /\ view = "overview" /\ NodeCount > 0 =>
    LET room == size[2] - 2
        of(i) == ComposeOverview(snapshot, ShownNodes, size[1], size[2], DetailLevels[i])
    IN /\ \A i \in DOMAIN DetailLevels : Len(of(i)) <= room => Subjects(of(i)) \subseteq Subjects(drawn.rows)
       /\ room >= Len(ShownNodes) + 5 =>
            \A i \in DOMAIN ShownNodes : <<"node", ShownNodes[i].id>> \in Subjects(drawn.rows)

\* The rows are about the node that the footer names, but for one that is no longer in the list:
\* then all are shown under its number (render.ts:108, 716).
FooterNamesShown ==
  drawn # Null /\ drawn.footer.node[1] = "node" /\ Len(drawn.footer.node) = 2 /\ selected < NodeCount =>
    \A r \in Range(drawn.rows) : r[1] \in {"node", "process", "container"} => r[2] = snapshot.nodes[selected + 1].id

ScreenHonest == ScreenCurrent /\ NothingLostToDecoration /\ FooterNamesShown
================================================================================
